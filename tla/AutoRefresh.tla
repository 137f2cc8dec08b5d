---------------------------- MODULE AutoRefresh -----------------------------
(***************************************************************************)
(* The auto-refresh scheduler (crates/proxy/src/auto_refresh.rs): every    *)
(* minute it sends a dummy request, pinned to one account, for each        *)
(* account whose usage window has reset, so that the accounts table has    *)
(* fresh rate-limit data of idle accounts too.  The proxy answers it like  *)
(* any request: from the upstream, or with 503 when the pinned account is  *)
(* not routable or has just been refused.  What an answer means for the    *)
(* row is written on a thread of its own, later or not at all.             *)
(*                                                                         *)
(* Instants are kept as the number of ticks until they come, 0 once they   *)
(* have passed, so that time has no bound.  consecutive_failures, which    *)
(* only decides on a log message, is left out.                             *)
(***************************************************************************)
EXTENDS Integers, FiniteSets

CONSTANTS
    N,          \* accounts 1..N, in the order of the rows
    Interval,   \* CHECK_INTERVAL, in ticks
    MaxBackoff, \* limit of backoff_multiplier
    Window,     \* length of a usage window
    Limit,      \* how long a 429 blocks an account
    MaxRestarts,\* bound: restarts of the process
    Used,       \* bound: the accounts that clients and the user touch, too
    MaxLate     \* bound: writes of answers under way; one more is skipped

ASSUME AutoRefreshAssumption ==
    /\ {N, Interval, MaxBackoff, Window, Limit} \subseteq Nat \ {0}
    /\ {MaxRestarts, MaxLate} \subseteq Nat
    /\ Used \subseteq 1..N

Accounts == 1..N
None == -1

VARIABLES
    enabled,   \* auto_refresh_enabled
    paused,
    marked,    \* rate_limit_status is an "Auth failed" marker
    limited,   \* rate_limited_until
    reset,     \* rate_limit_reset
    window,    \* end of the usage window at the provider
    last,      \* SchedulerState::last_refresh_reset
    mult,      \* SchedulerState::backoff_multiplier
    sleep,     \* what is left of the sleep
    todo,      \* accounts this check has yet to send a request for
    late,      \* writes of answers that were spawned and have yet to run
    restarts,
    seen       \* history: scheduler and row were told when the window ends, and
               \* nobody has told them otherwise

rowVars   == <<enabled, paused, marked, limited, reset>>
stateVars == <<last, mult>>
vars == <<rowVars, window, stateVars, sleep, todo, late, restarts, seen>>

----------------------------------------------------------------------------
(* Data *)

Later(x) == IF x > 0 THEN x - 1 ELSE x

\* evaluate_account_eligibility, as far as these columns go.
Routable(a) == ~paused[a] /\ ~marked[a] /\ limited[a] = 0

\* anthropic-ratelimit-unified-reset of an answer: an epoch in milliseconds or
\* an RFC 3339 instant, an epoch in seconds, or no such header.
Headers == {"ms", "seconds", "none"}

\* The window a served request runs in: the current one, or a new one.
Served(a) == IF window[a] > 0 THEN window[a] ELSE Window

\* What parsing the header yields for a window that ends in w: any integer is
\* taken for milliseconds, so an epoch in seconds is long past.
Parsed(header, w) ==
    CASE header = "ms" -> w [] header = "seconds" -> 0 [] header = "none" -> None

\* What the scheduler records; without the header, the current time.
Recorded(header, w) == IF header = "none" THEN 0 ELSE Parsed(header, w)

\* A spawned UPDATE of the row of acct: rate_limit_reset after an answer,
\* rate_limited_until after a 429, the auth marker after a 401 or 403.
Writes ==
    [acct : Accounts, col : {"reset"}, at : {None} \cup 0..Window]
    \cup [acct : Accounts, col : {"limited"}, at : 0..Limit]
    \cup [acct : Accounts, col : {"marked"}, at : {None}]

Spawn(w) == late' = IF Cardinality(late) < MaxLate THEN late \cup {w} ELSE late

\* Scheduler and row agree on the end of the window, or the row says nothing.
Agreed(a) == window[a] > 0 /\ last[a] = window[a] /\ reset[a] \in {None, window[a]}

\* Fault: a reset time the scheduler has recorded itself counts as newer.
NotOlder(a) ==
    \/ last[a] = None
    \/ reset[a] = 0
    \/ reset[a] # None /\ reset[a] >= last[a]

\* First time, reset passed, or a reset newer than the recorded one.  (The
\* fourth test, a reset passed 24 h ago, never adds an account.)
ShouldRefresh(a) ==
    \/ last[a] = None
    \/ reset[a] = 0
    \/ reset[a] # None /\ reset[a] > last[a]

Busy == todo # {}

\* The accounts of a check are taken in the order of their rows.
First(a) == a \in todo /\ \A b \in todo : a <= b

----------------------------------------------------------------------------
(* The scheduler *)

\* The sleep is over: tracking of accounts that are no longer enabled goes, and
\* the accounts to refresh are collected from the rows.  Without a connection
\* no account is enabled (ids), or none is found (rows).
Check(ids, rows) ==
    /\ ~Busy
    /\ sleep = 0
    /\ last' = [a \in Accounts |-> IF ids /\ enabled[a] THEN last[a] ELSE None]
    /\ seen' = [a \in Accounts |-> ids /\ enabled[a] /\ seen[a]]
    /\ todo' = {a \in Accounts : /\ rows
                                 /\ enabled[a] /\ ~paused[a]
                                 /\ ShouldRefresh(a) \/ ~ids}
    /\ sleep' = IF todo' = {} THEN Interval * mult ELSE 0
    /\ UNCHANGED <<rowVars, window, mult, late, restarts>>

\* The check goes on with the next account, or the loop sleeps again.
Advance(rest) ==
    /\ todo' = rest
    /\ sleep' = IF rest = {} THEN Interval * mult' ELSE 0

\* The upstream serves the request; the scheduler records the reset time, the
\* row gets it from a write of its own.
Succeed(a, header) ==
    /\ First(a)
    /\ Routable(a)
    /\ window' = [window EXCEPT ![a] = Served(a)]
    /\ last' = [last EXCEPT ![a] = Recorded(header, Served(a))]
    /\ Spawn([acct |-> a, col |-> "reset", at |-> Parsed(header, Served(a))])
    /\ mult' = 1
    /\ Advance(todo \ {a})
    /\ UNCHANGED <<rowVars, restarts>>
    /\ seen' = [seen EXCEPT ![a] = Agreed(a)']

\* Fault: the multiplier is not capped.
Uncapped == mult' = mult * 2

Doubled == mult' = IF mult * 2 > MaxBackoff THEN MaxBackoff ELSE mult * 2

\* 429 or 503: the remaining accounts are skipped.
Abort ==
    /\ Doubled
    /\ Advance({})
    /\ UNCHANGED <<last, restarts, seen>>

\* 503: strict force-account mode finds the account not routable.
Unavailable(a) ==
    /\ First(a)
    /\ ~Routable(a)
    /\ Abort
    /\ UNCHANGED <<rowVars, window, late>>

\* The write after a 429, and after a 401 or 403.
Limiting(a) == [acct |-> a, col |-> "limited", at |-> Limit]
Marking(a) == [acct |-> a, col |-> "marked", at |-> None]

\* The upstream answers 429, 401 or 403, which will block the account; the proxy
\* has no other account to try and answers 503.
Refused(a) ==
    /\ First(a)
    /\ Routable(a)
    /\ Spawn(Limiting(a)) \/ Spawn(Marking(a))
    /\ Abort
    /\ UNCHANGED <<rowVars, window>>

\* Fault: a failed request ends the check.
NoneLeft(a) == {}

Others(a) == todo \ {a}

\* The proxy cannot be reached, rejects the internal API key, or passes on
\* another error; the next account gets its request all the same.
Fail(a) ==
    /\ First(a)
    /\ UNCHANGED mult
    /\ Advance(Others(a))
    /\ UNCHANGED <<rowVars, window, last, late, restarts, seen>>

Step ==
    \E a \in todo :
       \/ \E header \in Headers : Succeed(a, header)
       \/ Unavailable(a)
       \/ Refused(a)
       \/ Fail(a)

----------------------------------------------------------------------------
(* Clients, the user, the process and the clock *)

ClientServed(a, header) ==
    /\ Routable(a)
    /\ window' = [window EXCEPT ![a] = Served(a)]
    /\ Spawn([acct |-> a, col |-> "reset", at |-> Parsed(header, Served(a))])
    /\ UNCHANGED <<rowVars, stateVars, sleep, todo, restarts, seen>>

ClientRefused(a) ==
    /\ Routable(a)
    /\ Spawn(Limiting(a)) \/ Spawn(Marking(a))
    /\ UNCHANGED <<rowVars, window, stateVars, sleep, todo, restarts, seen>>

\* A spawned write runs, whatever became of the row since.
WriteRow(w) ==
    /\ w \in late
    /\ late' = late \ {w}
    /\ CASE w.col = "reset" ->
              reset' = [reset EXCEPT ![w.acct] = w.at] /\ UNCHANGED <<marked, limited>>
         [] w.col = "limited" ->
              limited' = [limited EXCEPT ![w.acct] = w.at] /\ UNCHANGED <<marked, reset>>
         [] w.col = "marked" ->
              /\ marked' = [marked EXCEPT ![w.acct] = TRUE]
              /\ reset' = [reset EXCEPT ![w.acct] = None]
              /\ UNCHANGED limited
    /\ UNCHANGED <<enabled, paused, window, stateVars, sleep, todo, restarts>>
    /\ seen' = [seen EXCEPT ![w.acct] =
                   IF w.col = "reset" THEN w.at # 0 /\ (@ \/ Agreed(w.acct)') ELSE @]

\* No connection in the pool: the write is skipped.
SkipWrite(w) ==
    /\ w \in late
    /\ late' = late \ {w}
    /\ UNCHANGED <<rowVars, window, stateVars, sleep, todo, restarts, seen>>

Switch(a) ==
    /\ \/ enabled' = [enabled EXCEPT ![a] = ~@] /\ UNCHANGED paused
       \/ paused' = [paused EXCEPT ![a] = ~@] /\ UNCHANGED enabled
    /\ UNCHANGED <<marked, limited, reset, window, stateVars, sleep, todo, late, restarts,
                   seen>>

\* exchange_and_persist clears the markers of the account.
Reauthenticate(a) ==
    /\ marked' = [marked EXCEPT ![a] = FALSE]
    /\ limited' = [limited EXCEPT ![a] = 0]
    /\ reset' = [reset EXCEPT ![a] = None]
    /\ UNCHANGED <<enabled, paused, window, stateVars, sleep, todo, late, restarts, seen>>

\* The scheduler starts from nothing; the startup maintenance clears the
\* markers and limits of all rows.
Restart ==
    /\ restarts < MaxRestarts
    /\ restarts' = restarts + 1
    /\ marked' = [a \in Accounts |-> FALSE]
    /\ limited' = [a \in Accounts |-> 0]
    /\ reset' = [a \in Accounts |-> None]
    /\ last' = [a \in Accounts |-> None]
    /\ mult' = 1
    /\ sleep' = Interval
    /\ todo' = {}
    /\ late' = {}
    /\ seen' = [a \in Accounts |-> FALSE]
    /\ UNCHANGED <<enabled, paused, window>>

\* A check is due at once when its time has come; requests take time.
Tick ==
    /\ Busy \/ sleep > 0
    /\ sleep' = Later(sleep)
    /\ limited' = [a \in Accounts |-> Later(limited[a])]
    /\ reset' = [a \in Accounts |-> Later(reset[a])]
    /\ window' = [a \in Accounts |-> Later(window[a])]
    /\ last' = [a \in Accounts |-> Later(last[a])]
    /\ late' = {[w EXCEPT !.at = Later(@)] : w \in late}
    /\ seen' = [a \in Accounts |-> seen[a] /\ window[a] > 1]
    /\ UNCHANGED <<enabled, paused, marked, mult, todo, restarts>>

----------------------------------------------------------------------------
(* The specification *)

Init ==
    /\ enabled \in [Accounts -> BOOLEAN]
    /\ paused = [a \in Accounts |-> FALSE]
    /\ marked = [a \in Accounts |-> FALSE]
    /\ limited = [a \in Accounts |-> 0]
    /\ reset = [a \in Accounts |-> None]
    /\ window = [a \in Accounts |-> 0]
    /\ last = [a \in Accounts |-> None]
    /\ mult = 1
    /\ sleep = Interval
    /\ todo = {}
    /\ late = {}
    /\ restarts = 0
    /\ seen = [a \in Accounts |-> FALSE]

Environment ==
    \/ \E a \in Used :
          \/ \E header \in Headers : ClientServed(a, header)
          \/ ClientRefused(a)
          \/ Reauthenticate(a)
          \/ Switch(a)
    \/ \E w \in late : WriteRow(w) \/ SkipWrite(w)
    \/ Restart

Next == (\E ids, rows \in BOOLEAN : Check(ids, rows)) \/ Step \/ Environment \/ Tick

\* The scheduler's task runs and gets a connection again and again, the HTTP
\* client gives up on a request after 30 s, and time passes.  Nothing is assumed of the environment.
Spec == Init /\ [][Next]_vars /\ SF_vars(Check(TRUE, TRUE)) /\ WF_vars(Step) /\ WF_vars(Tick)

----------------------------------------------------------------------------
(* Properties *)

TypeOK ==
    /\ enabled \in [Accounts -> BOOLEAN]
    /\ paused \in [Accounts -> BOOLEAN]
    /\ marked \in [Accounts -> BOOLEAN]
    /\ limited \in [Accounts -> 0..Limit]
    /\ reset \in [Accounts -> {None} \cup 0..Window]
    /\ window \in [Accounts -> 0..Window]
    /\ last \in [Accounts -> {None} \cup 0..Window]
    /\ mult \in 1..MaxBackoff
    /\ sleep \in 0..(Interval * MaxBackoff)
    /\ todo \subseteq Accounts
    /\ late \subseteq Writes
    /\ restarts \in 0..MaxRestarts
    /\ seen \in [Accounts -> BOOLEAN]

\* "Sends dummy messages ... when their usage window resets": once scheduler and
\* row have been told when the window of an account ends, the account is left
\* alone until then, whatever clients, users, re-authentications and late writes
\* do.  What ends this before the window does: the tracking is lost (account
\* disabled, no connection, restart), the scheduler gets an answer without that
\* instant, or a write puts an instant into the row that has passed (an epoch in
\* seconds, the end of an earlier window).
QuietWithinWindow ==
    [][\A a \in Accounts :
          ~Busy /\ a \in todo' => ~seen'[a]]_vars

\* An account that qualifies for a request, and could be served.
Due(a) == enabled[a] /\ Routable(a) /\ ShouldRefresh(a)
Asked(a) == First(a)

\* When no check is cut short by rate limiting any more, every account that
\* stays due gets its request, whatever happens to the requests of the others.
DueAreAsked ==
    <>[](mult = 1) => \A a \in Accounts : Due(a) ~> Asked(a) \/ ~Due(a)
=============================================================================
