------------------------------ MODULE Routing -------------------------------
(***************************************************************************)
(* How a request finds its account: the cached rows (proxy.rs), the        *)
(* eligibility rules (core/account_eligibility.rs), SessionStrategy::select *)
(* (load-balancer/src/lib.rs), and the attempts of try_accounts_in_order   *)
(* (handler.rs) with the writes that each of them spawns.  Requests share  *)
(* the rows, the cache and the round-robin counter; the user and the usage *)
(* poller change what they read.                                           *)
(*                                                                         *)
(* Accounts are numbered in the order of the rows (find_all sorts them by  *)
(* priority).  What the usage cache knows of an account is reduced to what *)
(* select asks of it: whether a window is at 100 % (full), whether one is  *)
(* over the account's reserve (low), and when the tightest one resets.     *)
(* The request counters are left out: nothing routes by them.              *)
(***************************************************************************)
EXTENDS Integers, Sequences, FiniteSets

CONSTANTS
    N,             \* accounts 1..N
    Requests,      \* tasks of proxy_handler
    UsageLevels,   \* what the usage cache may hold, apart from Missing
    Scenes,        \* to begin with: settings, rows, what is known of usage, bounds
    Metas,         \* SelectionMeta of the requests
    Changing,      \* bound: accounts that the user and the poller change
    MaxAttempts,   \* MAX_FAILOVER_ATTEMPTS
    SessionDuration,
    CacheTTL,
    Debounce,      \* RESET_DEBOUNCE_MS
    Window,        \* from a response to the reset time in its header
    Limit,         \* from a 429 to the time it names
    Wrap           \* bound: the round-robin counter counts modulo this

Accounts == 1..N
None == -1
Missing == [full |-> FALSE, low |-> FALSE, resets |-> None, known |-> FALSE]

Instants == Nat \cup {None}
Rows == [Accounts -> [life: {"new", "here", "gone"}, paused: BOOLEAN, marked: BOOLEAN,
                      until: Instants, reset: Instants, start: Instants]]

ASSUME RoutingAssumption ==
    /\ {N, MaxAttempts, SessionDuration, Wrap} \subseteq Nat \ {0}
    /\ {CacheTTL, Debounce, Window, Limit} \subseteq Nat
    /\ Scenes # {}
    /\ Changing \subseteq Accounts
    /\ \A u \in UsageLevels : u.low \in BOOLEAN /\ u.resets \in Instants
    /\ \A C \in Scenes :
        /\ C.rows \in Rows
        /\ C.usage \in [Accounts -> UsageLevels \cup {Missing}]
        /\ \A a \in Accounts : C.pool[a].priority \in Int
        /\ \A a, b \in Accounts : a < b => C.pool[a].priority <= C.pool[b].priority
    /\ \A n \in Accounts : Wrap % n = 0

VARIABLES
    pool,     \* the settings: provider, priority, fallback, reserve, overage
    db,       \* the accounts table
    usage,    \* UsageCache
    cache,    \* accounts_cache: rows and the instant they were stored
    counter,  \* round_robin_counter
    req,      \* the requests
    pend,     \* per request, its spawned writes that have not run yet
    clock,
    left,     \* bound: requests, broken answers, changes of the world and ticks to come
    turns     \* history: who took a turn of the round robin, since it last changed

vars == <<pool, db, usage, cache, counter, req, pend, clock, left, turns>>
world == <<pool, usage, clock>>

\* life: before it is added, in the table, or removed.
Row(life) == [life |-> life, paused |-> FALSE, marked |-> FALSE,
              until |-> None, reset |-> None, start |-> None]

\* SelectionMeta; strict says nothing without a pin.
NoMeta == [pin |-> None, strict |-> FALSE, bypass |-> FALSE]

NoRows == <<>>
Idle == [pc |-> "idle", now |-> 0, meta |-> NoMeta, rows |-> NoRows, order |-> <<>>,
         i |-> 1, refused |-> {}, got |-> [a \in Accounts |-> "none"]]

----------------------------------------------------------------------------
(* Eligibility *)

Here(rows, a) == rows[a].life = "here"

Anthropic(a) == pool[a].provider = "anthropic"

AtReserve(a, u) == pool[a].reserve # "none" /\ u[a].low

\* Unknown usage passes the overage gate and fails the one of a hard reserve.
Available(a, rows, u, t) ==
    /\ Here(rows, a)
    /\ ~rows[a].paused
    /\ ~rows[a].marked
    /\ rows[a].until < t
    /\ ~(pool[a].overage /\ u[a].full)
    /\ ~(pool[a].reserve = "hard" /\ (AtReserve(a, u) \/ ~u[a].known))

----------------------------------------------------------------------------
(* Selection *)

\* The window ended, at least Debounce ago.
Passed(reset, t) == reset # None /\ reset < t - Debounce

Sooner(x, y) == x # None /\ (y = None \/ x < y)

\* Fault: an account under its reserve is better than one of higher priority.
BeforeByReserve(a, b, u) ==
    \/ ~AtReserve(a, u) /\ AtReserve(b, u)
    \/ AtReserve(a, u) = AtReserve(b, u) /\ a < b

\* sort_accounts_usage_aware: priority, then accounts under their reserve, then
\* the soonest reset; the sort is stable.
Before(a, b, u) ==
    \/ pool[a].priority < pool[b].priority
    \/ /\ pool[a].priority = pool[b].priority
       /\ \/ ~AtReserve(a, u) /\ AtReserve(b, u)
          \/ /\ AtReserve(a, u) = AtReserve(b, u)
             /\ \/ Sooner(u[a].resets, u[b].resets)
                \/ u[a].resets = u[b].resets /\ a < b

Sorted(S, u) ==
    [k \in 1..Cardinality(S) |->
        CHOOSE a \in S : Cardinality({b \in S : Before(b, a, u)}) = k - 1]

\* The account with the latest running session; of several, the last row.
Holders(rows, t) ==
    LET Running == {a \in Accounts : /\ Here(rows, a)
                                     /\ Anthropic(a)
                                     /\ rows[a].start # None
                                     /\ rows[a].start <= t
                                     /\ t - rows[a].start < SessionDuration}
    IN {a \in Running : \A b \in Running : \/ rows[b].start < rows[a].start
                                           \/ rows[b].start = rows[a].start /\ b <= a}

\* Candidates for auto-fallback, the best of them.
Recovered(rows, S, t) ==
    LET C == {a \in S : pool[a].fallback /\ Passed(rows[a].reset, t)}
    IN {a \in C : \A b \in C : a <= b}

TopTier(S) == {a \in S : \A b \in S : pool[a].priority <= pool[b].priority}

\* Several accounts that all are pay-as-you-go take turns.
TakeTurns(S) == Cardinality(TopTier(S)) > 1 /\ \A a \in TopTier(S) : ~Anthropic(a)

\* Fault: off by one, the last account never has its turn.
TurnButLast(S) ==
    IF TakeTurns(S) THEN (counter % (Cardinality(TopTier(S)) - 1)) + 1 ELSE 1

\* The place in the sorted accounts.
Turn(S) == IF TakeTurns(S) THEN (counter % Cardinality(TopTier(S))) + 1 ELSE 1

\* Which rule of select decides.
Rule(m, rows, S, t) ==
    CASE m.pin \in S -> "pinned"
      [] m.pin \notin S /\ m.strict /\ Here(rows, m.pin) -> "unavailable"
      [] OTHER -> IF Recovered(rows, S, t) # {} THEN "fallback"
                  ELSE IF Holders(rows, t) \cap S # {} THEN "session"
                  ELSE IF S # {} THEN "priority" ELSE "unavailable"

First(rule, m, rows, u, S, t) ==
    CASE rule = "pinned" -> m.pin
      [] rule = "fallback" -> CHOOSE a \in Recovered(rows, S, t) : TRUE
      [] rule = "session" -> CHOOSE a \in Holders(rows, t) : TRUE
      [] rule = "priority" -> Sorted(S, u)[Turn(S)]

\* maybe_reset_session: the session is over, or the usage window is.
ResetDue(a, row, t) ==
    /\ Anthropic(a)
    /\ \/ row.start = None
       \/ t - row.start >= SessionDuration
       \/ Passed(row.reset, t)

\* history: a turn is counted; a round in which everyone had one is forgotten,
\* and so is everything when the order of the tier has changed.
TurnTaken(tier, a) ==
    LET old   == IF turns.tier = tier THEN turns.count ELSE [b \in Accounts |-> 0]
        count == [old EXCEPT ![a] = @ + 1]
        all   == \A k \in DOMAIN tier : count[tier[k]] > 0
    IN [tier |-> tier, count |-> IF all THEN [b \in Accounts |-> IF count[b] > 0 THEN count[b] - 1 ELSE 0]
                                        ELSE count]

\* select on the rows a request has got, and the spawned write of a session
\* reset.  The clone loses its reset time as well, but nothing reads that.
Select(r, rows, m, t) ==
    LET S     == {a \in Accounts : Available(a, rows, usage, t)}
        rule  == Rule(m, rows, S, t)
        first == First(rule, m, rows, usage, S, t)
        rest  == IF rule = "pinned" /\ m.strict THEN <<>> ELSE Sorted(S \ {first}, usage)
        takes == rule = "priority" /\ TakeTurns(S)
    IN IF rule = "unavailable"
       THEN /\ req' = [req EXCEPT ![r] = [Idle EXCEPT !.pc = rule, !.now = t, !.meta = m]]
            /\ UNCHANGED <<pend, counter, turns>>
       ELSE /\ req' = [req EXCEPT ![r] = [Idle EXCEPT !.pc = "trying", !.now = t, !.meta = m,
                                                      !.order = <<first>> \o rest]]
            /\ pend' = [pend EXCEPT ![r] =
                   IF ~m.bypass /\ ResetDue(first, rows[first], t)
                   THEN {[kind |-> "session", acct |-> first, at |-> t]} ELSE {}]
            /\ counter' = IF takes THEN (counter + 1) % Wrap ELSE counter
            /\ turns' = IF takes THEN TurnTaken(Sorted(TopTier(S), usage), first) ELSE turns

----------------------------------------------------------------------------
(* A request *)

CacheFresh == cache.at # None /\ clock - cache.at < CacheTTL

\* Bound: a task takes another request once its writes have run.
Arrives(r) ==
    /\ req[r].pc \in {"idle", "unavailable", "served", "failed"}
    /\ pend[r] = {}
    /\ left.requests > 0
    /\ left' = [left EXCEPT !.requests = @ - 1]
    /\ UNCHANGED <<world, db>>

\* The cache has fresh rows: no await up to the first attempt.
ArriveCached(r, m) ==
    /\ Arrives(r)
    /\ CacheFresh
    /\ Select(r, cache.rows, m, clock)
    /\ UNCHANGED cache

\* `now` is taken before the rows are read.
ArriveUncached(r, m) ==
    /\ Arrives(r)
    /\ ~CacheFresh
    /\ req' = [req EXCEPT ![r] = [Idle EXCEPT !.pc = "reading", !.now = clock, !.meta = m]]
    /\ UNCHANGED <<cache, pend, counter, turns>>

\* find_all, on a blocking thread.
ReadRows(r) ==
    /\ req[r].pc = "reading"
    /\ req' = [req EXCEPT ![r].pc = "storing", ![r].rows = db]
    /\ UNCHANGED <<world, db, cache, counter, pend, left, turns>>

\* The rows get the time of the store; selection follows without an await.
StoreRows(r) ==
    /\ req[r].pc = "storing"
    /\ cache' = [rows |-> req[r].rows, at |-> clock]
    /\ Select(r, req[r].rows, req[r].meta, req[r].now)
    /\ UNCHANGED <<world, db, left>>

\* Fault: no limit.
AttemptsUncapped(r) == Len(req[r].order)

\* As many accounts as there are, at most MAX_FAILOVER_ATTEMPTS.
Attempts(r) == IF Len(req[r].order) < MaxAttempts THEN Len(req[r].order) ELSE MaxAttempts

Current(r) == req[r].order[req[r].i]

\* The loop goes on with the next account, or ends without a response.
After(q, n) == [q EXCEPT !.i = @ + 1, !.pc = IF q.i < n THEN "trying" ELSE "failed",
                         !.now = 0, !.meta = NoMeta]

\* Fault: compares accounts, not providers.
RestsAlone(r) == \E k \in 1..(req[r].i - 1) : req[r].order[k] = Current(r)

\* The provider answered 429 to this request.
Rests(r) == pool[Current(r)].provider \in req[r].refused

\* Fault: any failure puts the provider to rest.
RefusesAny(verdict) == verdict # "served"

Refuses(verdict) == verdict = "limited"

\* Skipping costs an attempt as well.
Skip(r) ==
    /\ req[r].pc = "trying"
    /\ Rests(r)
    /\ req' = [req EXCEPT ![r] = After(@, Attempts(r))]
    /\ UNCHANGED <<world, db, cache, counter, pend, left, turns>>

\* One attempt, its verdict, and the write it spawns.
Asked(r, verdict, writes) ==
    /\ req[r].pc = "trying"
    /\ ~Rests(r)
    /\ LET q == [req[r] EXCEPT
              !.got[Current(r)] = verdict,
              !.refused = IF Refuses(verdict) THEN @ \cup {pool[Current(r)].provider} ELSE @]
       IN req' = [req EXCEPT ![r] = IF verdict = "served" THEN [Idle EXCEPT !.pc = "served"]
                                                          ELSE After(q, Attempts(r))]
    /\ pend' = [pend EXCEPT ![r] = @ \cup writes]
    /\ UNCHANGED <<world, db, cache, counter, turns>>

\* What handle_success writes of the headers; without the one of the reset the
\* row gets NULL.
Status(r, header) == [kind |-> "status", acct |-> Current(r),
                      at |-> IF header THEN clock + Window ELSE None]

\* Any answer but 429, 401, 403 and 400.
Serve(r, header) == Asked(r, "served", {Status(r, header)}) /\ UNCHANGED left

\* The same, but its body cannot be read or passed on: the write has been
\* spawned, and the next account is tried.
BreakOff(r, header) ==
    /\ left.breaks > 0
    /\ left' = [left EXCEPT !.breaks = @ - 1]
    /\ Asked(r, "other", {Status(r, header)})

\* 400 is passed on, and nothing is written to the row.
PassOn400(r) == Asked(r, "served", {}) /\ UNCHANGED left

RateLimited(r) ==
    /\ Asked(r, "limited", {[kind |-> "limit", acct |-> Current(r), at |-> clock + Limit]})
    /\ UNCHANGED left

\* 401 or 403.
AuthFailed(r) ==
    /\ Asked(r, "other", {[kind |-> "marked", acct |-> Current(r), at |-> None]})
    /\ UNCHANGED left

\* No provider, no usable headers, or no connection.
AttemptFails(r) == Asked(r, "other", {}) /\ UNCHANGED left

\* The client is gone, or the rows cannot be read; what was spawned goes on.
Disconnect(r) ==
    /\ req[r].pc \in {"reading", "storing", "trying"}
    /\ req' = [req EXCEPT ![r] = Idle]
    /\ UNCHANGED <<world, db, cache, counter, pend, left, turns>>

----------------------------------------------------------------------------
(* The spawned writes, in any order *)

\* UPDATE ... WHERE id = ?: nothing happens to an account that is gone.
Written(row, w) ==
    IF row.life # "here" THEN row ELSE
    CASE w.kind = "session"   -> [row EXCEPT !.start = w.at]
      [] w.kind = "limit"     -> [row EXCEPT !.until = w.at]
      [] w.kind = "status"    -> [row EXCEPT !.reset = w.at, !.marked = FALSE]
      [] w.kind = "marked"    -> [row EXCEPT !.reset = None, !.marked = TRUE]

\* Without a connection the write is dropped.
RunWrite(r, w, connected) ==
    /\ w \in pend[r]
    /\ pend' = [pend EXCEPT ![r] = @ \ {w}]
    /\ db' = IF connected THEN [db EXCEPT ![w.acct] = Written(@, w)] ELSE db
    /\ UNCHANGED <<world, cache, counter, req, left, turns>>

----------------------------------------------------------------------------
(* The user, the usage poller, time *)

Edited ==
    /\ left.edits > 0
    /\ left' = [left EXCEPT !.edits = @ - 1]
    /\ UNCHANGED <<pool, cache, counter, req, pend, clock, turns>>

\* Pause or resume; the cache is not told.
TogglePause(a) ==
    /\ Edited
    /\ Here(db, a)
    /\ db' = [db EXCEPT ![a].paused = ~@]
    /\ UNCHANGED usage

\* Bound: the settings of the new account are made before a request reads its row.
Add(a) ==
    /\ Edited
    /\ db[a].life = "new"
    /\ db' = [db EXCEPT ![a] = Row("here")]
    /\ UNCHANGED usage

Remove(a) ==
    /\ Edited
    /\ Here(db, a)
    /\ db' = [db EXCEPT ![a] = Row("gone")]
    /\ UNCHANGED usage

\* A poll stores what it has fetched, or an entry expires.
Poll(a, level) ==
    /\ Edited
    /\ usage' = [usage EXCEPT ![a] = level]
    /\ UNCHANGED db

Tick ==
    /\ left.ticks > 0
    /\ left' = [left EXCEPT !.ticks = @ - 1]
    /\ clock' = clock + 1
    /\ UNCHANGED <<pool, db, usage, cache, counter, req, pend, turns>>

----------------------------------------------------------------------------
Init ==
    /\ \E C \in Scenes : pool = C.pool /\ db = C.rows /\ usage = C.usage /\ left = C.left
    /\ cache = [rows |-> NoRows, at |-> None]
    /\ counter = 0
    /\ req = [r \in Requests |-> Idle]
    /\ pend = [r \in Requests |-> {}]
    /\ clock = 1
    /\ turns = [tier |-> <<>>, count |-> [a \in Accounts |-> 0]]

Next ==
    \/ \E r \in Requests :
        \/ \E m \in Metas : ArriveCached(r, m) \/ ArriveUncached(r, m)
        \/ ReadRows(r) \/ StoreRows(r)
        \/ Skip(r) \/ PassOn400(r) \/ RateLimited(r) \/ AuthFailed(r) \/ AttemptFails(r)
        \/ Disconnect(r)
        \/ \E header \in BOOLEAN : Serve(r, header) \/ BreakOff(r, header)
        \/ \E w \in pend[r], connected \in BOOLEAN : RunWrite(r, w, connected)
    \/ \E a \in Accounts : Add(a)
    \/ \E a \in Changing :
        \/ TogglePause(a) \/ Remove(a)
        \/ \E level \in UsageLevels \cup {Missing} : Poll(a, level)
    \/ Tick

Spec == Init /\ [][Next]_vars

----------------------------------------------------------------------------
(* Properties *)

Orders == UNION {[1..n -> Accounts] : n \in 0..N}

\* Every variable has its type; a request never looks past its last attempt.
TypeOK ==
    /\ \E C \in Scenes : pool = C.pool
    /\ db \in Rows
    /\ usage \in [Accounts -> UsageLevels \cup {Missing}]
    /\ cache.rows \in Rows \cup {NoRows}
    /\ cache.at \in Instants
    /\ counter \in 0..(Wrap - 1)
    /\ \A r \in Requests :
        /\ req[r].pc \in {"idle", "reading", "storing", "trying", "unavailable", "served", "failed"}
        /\ req[r].meta \in Metas \cup {NoMeta}
        /\ req[r].order \in Orders
        /\ req[r].pc = "trying" => req[r].i <= MaxAttempts /\ req[r].i <= Len(req[r].order)
        /\ \A w \in pend[r] : w.acct \in Accounts /\ w.at \in Instants

Limited(r, j) == req[r].got[req[r].order[j]] = "limited"
SameProvider(r, j, k) == pool[req[r].order[j]].provider = pool[req[r].order[k]].provider

\* A request answers "All accounts failed" only after each of its first
\* MaxAttempts accounts was asked without success, or belongs to a provider
\* that answered 429 earlier in this request.
GaveUpOnlyWhenExhausted ==
    \A r \in Requests : req[r].pc = "failed" =>
        \A k \in 1..Attempts(r) :
            \/ req[r].got[req[r].order[k]] \in {"limited", "other"}
            \/ \E j \in 1..(k - 1) : Limited(r, j) /\ SameProvider(r, j, k)

\* After a 429 the request asks no further account of that provider.
ProviderRestsAfter429 ==
    \A r \in Requests : \A k \in 1..Len(req[r].order) : \A j \in 1..(k - 1) :
        Limited(r, j) /\ SameProvider(r, j, k) => req[r].got[req[r].order[k]] = "none"

\* While the order of a tier stays as it is, its accounts get equally many
\* turns, up to one, however the requests interleave.
Balanced ==
    \A j, k \in DOMAIN turns.tier :
        turns.count[turns.tier[j]] <= turns.count[turns.tier[k]] + 1

\* The rows a request selects from.
Seen(r) == IF req[r].pc = "storing" THEN req[r].rows ELSE cache.rows
Selects(r) == req[r].pc # "trying" /\ req'[r].pc = "trying"

Running(row, t) == row.start # None /\ row.start <= t /\ t - row.start < SessionDuration

\* What is open to a request by the rows it has read.
Open(rows, u, t) ==
    {a \in Accounts : /\ rows[a].life = "here"
                      /\ ~rows[a].paused /\ ~rows[a].marked
                      /\ rows[a].until # None => rows[a].until < t
                      /\ pool[a].overage => ~u[a].full
                      /\ pool[a].reserve = "hard" => u[a].known /\ ~u[a].low}

Follows(q, rows, u) ==
    LET first == q.order[1]
        Listed == {q.order[k] : k \in DOMAIN q.order}
    IN /\ Listed \subseteq Open(rows, u, q.now)
       /\ \A j, k \in DOMAIN q.order : q.order[j] = q.order[k] => j = k
       /\ IF q.meta.strict /\ rows[q.meta.pin].life = "here"
          THEN q.order = <<q.meta.pin>>
          ELSE Listed = Open(rows, u, q.now)
       /\ \/ first = q.meta.pin
          \/ \E a \in Listed : pool[a].fallback /\ Passed(rows[a].reset, q.now)
          \/ pool[first].provider = "anthropic" /\ Running(rows[first], q.now)
          \/ \A a \in Listed : pool[first].priority <= pool[a].priority
       /\ \A j, k \in 2..Len(q.order) :
              j < k => pool[q.order[j]].priority <= pool[q.order[k]].priority

\* What a request will try: nothing but accounts that are open to it by the
\* rows it has read, each once, and all of them unless it is strictly pinned to
\* one that exists.  The first is of the highest priority there is, save for a
\* pin and a running session; the others follow by priority.  Nothing is said
\* of the first where an account with auto-fallback has had its window reset.
OrderFollowsRules ==
    [][\A r \in Requests : Selects(r) => Follows(req'[r], Seen(r), usage)]_vars

\* "Clear rate_limit_reset so it doesn't fire again on the next request"
\* (crates/load-balancer/src/lib.rs:255): a session that began after the usage
\* window was over is not reset for that window again.
OneResetPerWindow ==
    [][\A r \in Requests : Selects(r) =>
        LET row == Seen(r)[req'[r].order[1]]
        IN /\ \E w \in pend'[r] : w.kind = "session"
           /\ Running(row, req'[r].now)
           => row.start <= row.reset + Debounce
      ]_vars
=============================================================================
