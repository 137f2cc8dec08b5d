---------------------------- MODULE TokenManager ----------------------------
(***************************************************************************)
(* The token manager of the proxy (crates/proxy/src/token_manager.rs): how *)
(* concurrent requests obtain an access token of an account, refresh it    *)
(* under a per-account mutex, back off after a failed refresh, and write   *)
(* the new pair of tokens to the accounts table.                           *)
(*                                                                         *)
(* A task is one call of get_valid_access_token made on behalf of a        *)
(* request.  It works on its own clone of the account row, taken from the  *)
(* 5 s accounts cache of proxy.rs.  Tokens are the numbers of the grants   *)
(* that issued them, 0 standing for NULL and for the empty string.         *)
(***************************************************************************)
EXTENDS Integers, FiniteSets

CONSTANTS
    Accounts,          \* rows of the accounts table
    Tasks,             \* requests in progress
    SafetyWindow,      \* TOKEN_SAFETY_WINDOW_MS, in ticks
    Backoff,           \* TOKEN_REFRESH_BACKOFF_MS
    CleanupInterval,   \* CLEANUP_INTERVAL_MS
    FailureTTL,        \* FAILURE_TTL_MS
    MaxRetries,        \* MAX_BACKOFF_RETRIES
    CacheTTL,          \* ACCOUNTS_CACHE_TTL_SECS
    TokenLife,         \* expires_in of an issued token
    MaxTime,           \* bound: ticks of the clock
    MaxIssued,         \* bound: grants the provider makes per account
    MaxClears,         \* bound: calls of clear_account_state per account
    Free               \* an unlocked mutex

ASSUME ConstantsAssumption ==
    /\ {SafetyWindow, Backoff, CleanupInterval, FailureTTL, MaxTime} \subseteq Nat
    /\ SafetyWindow < TokenLife
    /\ {MaxRetries, CacheTTL, TokenLife, MaxIssued} \subseteq Nat \ {0}
    /\ MaxClears \in Nat
    /\ Free \notin Tasks

VARIABLES
    clock,      \* wall clock, in ticks
    kind,       \* per account: its provider and api_key column (see Kinds)
    db,         \* the credential columns of each row
    cached,     \* AppState::accounts_cache: the rows it holds
    cachedAt,   \* ... and when they were stored
    issued,     \* per account: number of grants made by the provider
    live,       \* per account: the refresh tokens the provider accepts
    lockGen,    \* per account: which mutex refresh_locks maps it to
    owner,      \* per account and mutex: the task holding it
    failures,   \* TokenManager::failures
    lastCleanup,\* TokenManager::last_cleanup
    pc, acct, load, mem, tnow, lk, got, ans,   \* per task
    dropped     \* history: a successful exchange whose tokens reached no row

providerVars == <<issued, live>>
cacheVars    == <<cached, cachedAt>>
lockVars     == <<lockGen, owner>>
backoffVars  == <<failures, lastCleanup>>
taskVars     == <<pc, acct, load, mem, tnow, lk, got, ans>>
vars == <<clock, kind, db, providerVars, cacheVars, lockVars, backoffVars, taskVars,
          dropped>>

----------------------------------------------------------------------------
(* Data *)

Null == 0
Token == 0..MaxIssued
Time  == -1..(MaxTime + TokenLife)

\* access_token, expires_at and refresh_token of a row or of a clone of it.
Cred == [at : Token, exp : Time, rt : Token]
NoCred == [at |-> Null, exp |-> 0, rt |-> Null]

Generation == 0..MaxClears

\* An OAuth account whose provider consumes a refresh token when it is used, or
\* keeps it; an OAuth account that also has an api_key; an account of an API
\* key provider, with the key or without it (legacy rows).
Kinds == {"rotating", "fixed", "keyed", "apikey", "unkeyed"}
ApiKeyProviders == {a \in Accounts : kind[a] \in {"apikey", "unkeyed"}}
Keyed == {a \in Accounts : kind[a] \in {"keyed", "apikey"}}
OAuthOnly == {a \in Accounts : kind[a] \in {"rotating", "fixed"}}

\* A failure record: the `now` of the failed refresh and the number of requests
\* rejected since.
FailureRecord == [ts : 0..MaxTime, count : Nat]
NoFailure == [ts |-> -1, count |-> 0]

PCs == {"idle", "loading", "cloned", "expired", "recovering", "locking",
        "queued", "calling", "exchanged", "done"}

Answers == {"none", "token", "key", "empty", "nokey", "backoff", "failed"}

\* Fault: a token is used until it expires.
UnexpiredOnly(c, n) == c.at # Null /\ c.exp - n > 0

\* The credential will not expire within the safety window.
Usable(c, n) == c.at # Null /\ c.exp - n > SafetyWindow

\* The task is inside the critical section of its refresh mutex.
Refreshing(t) == pc[t] \in {"calling", "exchanged"}

\* The task goes to p; nothing else of it changes.
Goto(t, p) ==
    /\ pc' = [pc EXCEPT ![t] = p]
    /\ UNCHANGED <<acct, load, mem, tnow, lk, got, ans>>

\* The call returns: the task holds credential c and the answer is r.
Answer(t, c, r) ==
    /\ pc'  = [pc EXCEPT ![t] = "done"]
    /\ mem' = [mem EXCEPT ![t] = c]
    /\ ans' = [ans EXCEPT ![t] = r]
    /\ got' = [got EXCEPT ![t] = NoCred]
    /\ UNCHANGED <<acct, load, tnow, lk>>

\* The call and its clone of the account are gone.
Vanish(t) ==
    /\ pc'   = [pc EXCEPT ![t] = "idle"]
    /\ load' = [load EXCEPT ![t] = [a \in Accounts |-> NoCred]]
    /\ mem'  = [mem EXCEPT ![t] = NoCred]
    /\ tnow' = [tnow EXCEPT ![t] = 0]
    /\ lk'   = [lk EXCEPT ![t] = 0]
    /\ got'  = [got EXCEPT ![t] = NoCred]
    /\ ans'  = [ans EXCEPT ![t] = "none"]
    /\ UNCHANGED acct

\* Fault: `let _ = lock.lock().await` drops the guard at once.
LockDropped(t) == UNCHANGED owner

Lock(t) == owner' = [owner EXCEPT ![acct[t]][lk[t]] = t]

Release(t) == owner' = [owner EXCEPT ![acct[t]][lk[t]] = Free]

Forget(a) == failures' = [failures EXCEPT ![a] = NoFailure]

----------------------------------------------------------------------------
(* The clone of the row a request works on: get_accounts_cached *)

CacheFresh == clock - cachedAt < CacheTTL

InBackoff(rec) == rec # NoFailure /\ clock - rec.ts < Backoff

\* Bound: requests for an account in back-off are explored until one of them
\* was past MaxRetries; the count itself is not bounded.
Explored(a) == InBackoff(failures[a]) => failures[a].count <= MaxRetries

\* Cache hit: the request clones the cached row.
CloneCached(t, a) ==
    /\ pc[t] = "idle"
    /\ Explored(a)
    /\ CacheFresh
    /\ pc'   = [pc EXCEPT ![t] = "cloned"]
    /\ acct' = [acct EXCEPT ![t] = a]
    /\ mem'  = [mem EXCEPT ![t] = cached[a]]
    /\ UNCHANGED <<clock, kind, db, providerVars, cacheVars, lockVars, backoffVars,
                   load, tnow, lk, got, ans, dropped>>

\* Cache miss: the rows are read on a blocking thread; other requests and
\* writers run until the result is stored.
ReadAccounts(t, a) ==
    /\ pc[t] = "idle"
    /\ Explored(a)
    /\ ~CacheFresh
    /\ pc'   = [pc EXCEPT ![t] = "loading"]
    /\ acct' = [acct EXCEPT ![t] = a]
    /\ load' = [load EXCEPT ![t] = db]
    /\ UNCHANGED <<clock, kind, db, providerVars, cacheVars, lockVars, backoffVars,
                   mem, tnow, lk, got, ans, dropped>>

\* The rows read are stored, stamped with the time of the store.
StoreAccounts(t) ==
    /\ pc[t] = "loading"
    /\ cached'   = load[t]
    /\ cachedAt' = clock
    /\ pc'   = [pc EXCEPT ![t] = "cloned"]
    /\ mem'  = [mem EXCEPT ![t] = load[t][acct[t]]]
    /\ load' = [load EXCEPT ![t] = [a \in Accounts |-> NoCred]]
    /\ UNCHANGED <<clock, kind, db, providerVars, lockVars, backoffVars,
                   acct, tnow, lk, got, ans, dropped>>

----------------------------------------------------------------------------
(* get_valid_access_token *)

\* The paths that answer without a refresh.  An API key provider hands out its
\* key or, for legacy rows, the refresh token column; an OAuth row with a key
\* and no refresh token needs no token; a token that outlives the safety
\* window is returned as it is.
DirectAnswer(a, c, n) ==
    IF a \in ApiKeyProviders
    THEN IF a \in Keyed \/ c.rt # Null THEN "key" ELSE "nokey"
    ELSE IF c.rt = Null /\ a \in Keyed THEN "empty"
    ELSE IF Usable(c, n) THEN "token"
    ELSE "none"

AnswerDirectly(t) ==
    /\ pc[t] = "cloned"
    /\ LET r == DirectAnswer(acct[t], mem[t], clock)
       IN /\ r # "none"
          /\ pc'   = [pc EXCEPT ![t] = "done"]
          /\ ans'  = [ans EXCEPT ![t] = r]
          /\ tnow' = [tnow EXCEPT ![t] = clock]
    /\ UNCHANGED <<clock, kind, db, providerVars, cacheVars, lockVars, backoffVars,
                   acct, load, mem, lk, got, dropped>>

----------------------------------------------------------------------------
(* refresh_access_token *)

\* cleanup_expired_failures: at most once per interval, the records older than
\* the TTL go.
CleanedFailures ==
    IF clock - lastCleanup < CleanupInterval
    THEN failures
    ELSE [a \in Accounts |-> IF clock - failures[a].ts <= FailureTTL
                             THEN failures[a] ELSE NoFailure]

\* Fault: a rejected request restarts the backoff period.
BumpedAndRestamped(rec) == [ts |-> clock, count |-> rec.count + 1]

\* The record after one more request ran into it.
Bumped(rec) == [rec EXCEPT !.count = @ + 1]

\* The clean-up and the backoff check, up to the point where the guard of the
\* failure map is dropped.  A request inside the backoff period bumps the
\* count of the record; from MaxRetries on it looks for a token in the
\* database instead of giving up.
CheckBackoff(t) ==
    /\ pc[t] = "cloned"
    /\ DirectAnswer(acct[t], mem[t], clock) = "none"
    /\ LET a    == acct[t]
           kept == CleanedFailures
           rec  == kept[a]
           next == IF rec = NoFailure THEN "locking"
                   ELSE IF ~InBackoff(rec) THEN "expired"
                   ELSE IF Bumped(rec).count >= MaxRetries THEN "recovering"
                   ELSE "done"
       IN /\ failures' = IF InBackoff(rec)
                         THEN [kept EXCEPT ![a] = Bumped(rec)] ELSE kept
          /\ lastCleanup' = IF clock - lastCleanup < CleanupInterval
                            THEN lastCleanup ELSE clock
          /\ pc'  = [pc EXCEPT ![t] = next]
          /\ ans' = [ans EXCEPT ![t] = IF next = "done" THEN "backoff" ELSE "none"]
    /\ tnow' = [tnow EXCEPT ![t] = clock]
    /\ UNCHANGED <<clock, kind, db, providerVars, cacheVars, lockVars,
                   acct, load, mem, lk, got, dropped>>

\* BackoffExpired: whatever record is there now is removed, also one that
\* another task wrote after the check.
DropExpiredRecord(t) ==
    /\ pc[t] = "expired"
    /\ Forget(acct[t])
    /\ Goto(t, "locking")
    /\ UNCHANGED <<clock, kind, db, providerVars, cacheVars, lockVars, lastCleanup,
                   dropped>>

\* TryDbRecovery: adopt the token of the row if it is usable and not the one
\* the clone already has.
Recoverable(t) ==
    LET row == db[acct[t]]
    IN Usable(row, tnow[t]) /\ row.at # mem[t].at

RecoverFromDb(t) ==
    /\ pc[t] = "recovering"
    /\ Recoverable(t)
    /\ LET row == db[acct[t]]
       IN Answer(t, [row EXCEPT !.rt = IF row.rt # Null THEN row.rt ELSE mem[t].rt],
                 "token")
    /\ Forget(acct[t])
    /\ UNCHANGED <<clock, kind, db, providerVars, cacheVars, lockVars, lastCleanup,
                   dropped>>

\* The row has no better token, or no connection was to be had to read it.
RecoveryFails(t) ==
    /\ pc[t] = "recovering"
    /\ Answer(t, mem[t], "backoff")
    /\ UNCHANGED <<clock, kind, db, providerVars, cacheVars, lockVars, backoffVars,
                   dropped>>

\* The Arc of the mutex is cloned out of the map, before waiting for it.
TakeLock(t) ==
    /\ pc[t] = "locking"
    /\ pc' = [pc EXCEPT ![t] = "queued"]
    /\ lk' = [lk EXCEPT ![t] = lockGen[acct[t]]]
    /\ UNCHANGED <<clock, kind, db, providerVars, cacheVars, lockVars, backoffVars,
                   acct, load, mem, tnow, got, ans, dropped>>

\* The lock is granted; the clone is checked again with the old `now`.
Acquire(t) ==
    /\ pc[t] = "queued"
    /\ owner[acct[t]][lk[t]] = Free
    /\ IF Usable(mem[t], tnow[t])
       THEN /\ Answer(t, mem[t], "token")
            /\ UNCHANGED owner
       ELSE /\ Goto(t, "calling")
            /\ Lock(t)
    /\ UNCHANGED <<clock, kind, db, providerVars, cacheVars, lockGen, backoffVars,
                   dropped>>

----------------------------------------------------------------------------
(* The exchange with the provider: ClaudeOAuthProvider::refresh_token *)

\* A keyed account gets its own key back and an empty refresh token, without
\* any call.
ExchangeKey(t) ==
    /\ pc[t] = "calling"
    /\ acct[t] \in Keyed
    /\ pc'  = [pc EXCEPT ![t] = "exchanged"]
    /\ got' = [got EXCEPT ![t] =
                 [at |-> 1, exp |-> clock + TokenLife, rt |-> Null]]
    /\ UNCHANGED <<clock, kind, db, providerVars, cacheVars, lockVars, backoffVars,
                   acct, load, mem, tnow, lk, ans, dropped>>

\* The grant the provider makes for refresh token r, and what it accepts
\* afterwards: a rotating provider consumes r, the other one keeps it.
Granted(a, r) ==
    [at  |-> issued[a] + 1,
     exp |-> clock + TokenLife,
     rt  |-> IF kind[a] = "rotating" THEN issued[a] + 1 ELSE r]

Grant(a, r) ==
    /\ r \in live[a]
    /\ issued[a] < MaxIssued
    /\ issued' = [issued EXCEPT ![a] = @ + 1]
    /\ live'   = [live EXCEPT ![a] =
                    IF kind[a] = "rotating" THEN (@ \ {r}) \cup {issued[a] + 1} ELSE @]

\* The provider answered with new tokens; what remains of refresh_token is the
\* fetch of the subscription tier, another await.
Exchange(t) ==
    /\ pc[t] = "calling"
    /\ acct[t] \notin Keyed
    /\ Grant(acct[t], mem[t].rt)
    /\ pc'  = [pc EXCEPT ![t] = "exchanged"]
    /\ got' = [got EXCEPT ![t] = Granted(acct[t], mem[t].rt)]
    /\ UNCHANGED <<clock, kind, db, cacheVars, lockVars, backoffVars,
                   acct, load, mem, tnow, lk, ans, dropped>>

\* Fault: the mutex stays locked after a failure.
RefreshFailsLocked(t) ==
    /\ failures' = [failures EXCEPT ![acct[t]] = [ts |-> tnow[t], count |-> 0]]
    /\ Answer(t, mem[t], "failed")
    /\ UNCHANGED <<clock, kind, db, cacheVars, lockVars, lastCleanup>>

\* Fault: the record is stamped with the end of the backoff, as an instant to
\* wait for would be.
RefreshFailsAhead(t) ==
    /\ failures' = [failures EXCEPT ![acct[t]] = [ts |-> tnow[t] + Backoff, count |-> 0]]
    /\ Release(t)
    /\ Answer(t, mem[t], "failed")
    /\ UNCHANGED <<clock, kind, db, cacheVars, lockGen, lastCleanup>>

\* Fault: a failed refresh puts the tokens of the clone back into the row.
RefreshFailsRestoring(t) ==
    /\ failures' = [failures EXCEPT ![acct[t]] = [ts |-> tnow[t], count |-> 0]]
    /\ Release(t)
    /\ Answer(t, mem[t], "failed")
    /\ db' = [db EXCEPT ![acct[t]] = mem[t]]
    /\ UNCHANGED <<clock, kind, cacheVars, lockGen, lastCleanup>>

\* The Err arm: a failure record stamped with the task's own `now`.
RefreshFails(t) ==
    /\ failures' = [failures EXCEPT ![acct[t]] = [ts |-> tnow[t], count |-> 0]]
    /\ Release(t)
    /\ Answer(t, mem[t], "failed")
    /\ UNCHANGED <<clock, kind, db, cacheVars, lockGen, lastCleanup>>

\* A refused refresh token, an error status, or no connection at all.
ExchangeRefused(t) ==
    /\ pc[t] = "calling"
    /\ acct[t] \notin Keyed
    /\ RefreshFails(t)
    /\ UNCHANGED <<providerVars, dropped>>

\* The provider made the grant and its response was lost or timed out.
ExchangeLost(t) ==
    /\ pc[t] = "calling"
    /\ acct[t] \notin Keyed
    /\ Grant(acct[t], mem[t].rt)
    /\ RefreshFails(t)
    /\ dropped' = [dropped EXCEPT ![acct[t]] = TRUE]

\* Fault: only the access token is written, as update_tokens does when it is
\* given no refresh token.
StoredAccessToken(row, r) == [r EXCEPT !.rt = row.rt]

\* The row after persist_tokens.
Stored(row, r) == r

\* The Ok arm, run under the lock: the row is written (DbPersister ignores an
\* error of the pool or of the statement), the clone updated, the failure
\* record removed.
Complete(t, persisted) ==
    /\ pc[t] = "exchanged"
    /\ db' = IF persisted THEN [db EXCEPT ![acct[t]] = Stored(@, got[t])] ELSE db
    /\ dropped' = IF persisted THEN dropped
                  ELSE [dropped EXCEPT ![acct[t]] = TRUE]
    /\ Forget(acct[t])
    /\ Release(t)
    /\ Answer(t, [got[t] EXCEPT !.rt = IF @ # Null THEN @ ELSE mem[t].rt], "token")
    /\ UNCHANGED <<clock, kind, providerVars, cacheVars, lockGen, lastCleanup>>

----------------------------------------------------------------------------
(* The caller and the rest of the program *)

\* The client disconnects: the handler's future is dropped at the await it is
\* suspended on, and with it the guard of the mutex and the result of the
\* exchange.
Cancel(t) ==
    /\ pc[t] \in {"loading", "queued", "calling", "exchanged"}
    /\ owner' = IF Refreshing(t)
                THEN [owner EXCEPT ![acct[t]][lk[t]] = Free] ELSE owner
    /\ dropped' = IF pc[t] = "exchanged"
                  THEN [dropped EXCEPT ![acct[t]] = TRUE] ELSE dropped
    /\ Vanish(t)
    /\ UNCHANGED <<clock, kind, db, providerVars, cacheVars, lockGen, backoffVars>>

\* The same, while the provider is processing the exchange.
CancelDuringGrant(t) ==
    /\ pc[t] = "calling"
    /\ acct[t] \notin Keyed
    /\ Grant(acct[t], mem[t].rt)
    /\ Release(t)
    /\ dropped' = [dropped EXCEPT ![acct[t]] = TRUE]
    /\ Vanish(t)
    /\ UNCHANGED <<clock, kind, db, cacheVars, lockGen, backoffVars>>

\* The request is over; its clone of the account is gone.
Finish(t) ==
    /\ pc[t] = "done"
    /\ Vanish(t)
    /\ UNCHANGED <<clock, kind, db, providerVars, cacheVars, lockVars, backoffVars,
                   dropped>>

\* clear_account_state: the mutex leaves the map even while a task holds it;
\* the next refresh makes a new one.
ClearAccountState(a) ==
    /\ lockGen[a] < MaxClears
    /\ lockGen' = [lockGen EXCEPT ![a] = @ + 1]
    /\ Forget(a)
    /\ UNCHANGED <<clock, kind, db, providerVars, cacheVars, owner, lastCleanup,
                   taskVars, dropped>>

Tick ==
    /\ clock < MaxTime
    /\ clock' = clock + 1
    /\ UNCHANGED <<kind, db, providerVars, cacheVars, lockVars, backoffVars, taskVars,
                   dropped>>

----------------------------------------------------------------------------
(* The specification *)

Init ==
    /\ clock = 0
    /\ kind \in [Accounts -> Kinds]
    /\ db \in [Accounts -> [at : {1}, exp : {0, TokenLife}, rt : {Null, 1}]]
    /\ \A a \in Accounts : a \in OAuthOnly => db[a].rt = 1
    /\ cached = [a \in Accounts |-> NoCred]
    /\ cachedAt = -CacheTTL
    /\ issued = [a \in Accounts |-> 1]
    /\ live = [a \in Accounts |-> {1}]
    /\ lockGen = [a \in Accounts |-> 0]
    /\ owner = [a \in Accounts |-> [g \in Generation |-> Free]]
    /\ failures = [a \in Accounts |-> NoFailure]
    /\ lastCleanup = -CleanupInterval
    /\ pc = [t \in Tasks |-> "idle"]
    /\ acct \in {[t \in Tasks |-> a] : a \in Accounts}
    /\ load = [t \in Tasks |-> [a \in Accounts |-> NoCred]]
    /\ mem = [t \in Tasks |-> NoCred]
    /\ tnow = [t \in Tasks |-> 0]
    /\ lk = [t \in Tasks |-> 0]
    /\ got = [t \in Tasks |-> NoCred]
    /\ ans = [t \in Tasks |-> "none"]
    /\ dropped = [a \in Accounts |-> FALSE]

CallStep(t) ==
    \/ StoreAccounts(t)
    \/ AnswerDirectly(t)
    \/ CheckBackoff(t)
    \/ DropExpiredRecord(t)
    \/ RecoverFromDb(t)
    \/ RecoveryFails(t)
    \/ TakeLock(t)
    \/ Acquire(t)
    \/ ExchangeKey(t)
    \/ Exchange(t)
    \/ ExchangeRefused(t)
    \/ ExchangeLost(t)
    \/ \E persisted \in BOOLEAN : Complete(t, persisted)

Abort(t) == Cancel(t) \/ CancelDuringGrant(t)

Next ==
    \/ \E t \in Tasks, a \in Accounts : CloneCached(t, a) \/ ReadAccounts(t, a)
    \/ \E t \in Tasks : CallStep(t) \/ Abort(t) \/ Finish(t)
    \/ \E a \in Accounts : ClearAccountState(a)
    \/ Tick

Spec == Init /\ [][Next]_vars

\* Every call makes progress: its own code runs, the exchange is bounded by
\* the 30 s timeout of the provider's HTTP client, and the tokio mutex is
\* granted in FIFO order, so a queued task gets the lock if it is released
\* again and again.
Fairness ==
    \A t \in Tasks : WF_vars(CallStep(t)) /\ SF_vars(Acquire(t))

FairSpec == Spec /\ Fairness

----------------------------------------------------------------------------
(* Properties *)

Typed ==
    /\ clock \in 0..MaxTime
    /\ kind \in [Accounts -> Kinds]
    /\ db \in [Accounts -> Cred]
    /\ cached \in [Accounts -> Cred]
    /\ cachedAt \in (-CacheTTL)..MaxTime
    /\ issued \in [Accounts -> 1..MaxIssued]
    /\ live \in [Accounts -> SUBSET (1..MaxIssued)]
    /\ lockGen \in [Accounts -> Generation]
    /\ owner \in [Accounts -> [Generation -> Tasks \cup {Free}]]
    /\ failures \in [Accounts -> FailureRecord \cup {NoFailure}]
    /\ lastCleanup \in (-CleanupInterval)..MaxTime
    /\ pc \in [Tasks -> PCs]
    /\ acct \in [Tasks -> Accounts]
    /\ load \in [Tasks -> [Accounts -> Cred]]
    /\ mem \in [Tasks -> Cred]
    /\ tnow \in [Tasks -> 0..MaxTime]
    /\ lk \in [Tasks -> Generation]
    /\ got \in [Tasks -> Cred]
    /\ ans \in [Tasks -> Answers]
    /\ dropped \in [Accounts -> BOOLEAN]

\* What a call or a failure record is stamped with lies in the past.
Dated ==
    /\ \A t \in Tasks : tnow[t] <= clock
    /\ \A a \in Accounts : failures[a].ts <= clock

\* State is well typed, and no stamp is ahead of the clock.
TypeOK == Typed /\ Dated

\* Two tasks refresh the tokens of one account at the same time only under
\* different mutexes, that is, only if clear_account_state dropped the mutex of
\* one of them from refresh_locks meanwhile.
RefreshesSerialised ==
    \A t, u \in Tasks :
        Refreshing(t) /\ Refreshing(u) /\ t # u /\ acct[t] = acct[u] =>
            /\ lk[t] # lk[u]
            /\ lk[t] < lockGen[acct[t]] \/ lk[u] < lockGen[acct[u]]

\* The refresh token a row holds is one the provider accepts, unless a task
\* has the replacement in its hands or the replacement was dropped (client
\* gone, response lost, write failed).  A completed refresh never leaves a
\* consumed refresh token behind.
RotationReachesRow ==
    \A a \in OAuthOnly :
        \/ db[a].rt \in live[a]
        \/ dropped[a]
        \/ \E t \in Tasks : acct[t] = a /\ pc[t] = "exchanged"

\* A token handed to the caller is still valid when the request uses it, as
\* long as the call took no longer than the safety window: the window covers
\* the `now` that grew old while the task waited for the mutex.
TokenOutlivesWait ==
    \A t \in Tasks :
        pc[t] = "done" /\ ans[t] = "token" /\ clock - tnow[t] <= SafetyWindow
            => clock < mem[t].exp

\* Rejected requests bump the count of a failure record and never move its
\* timestamp: backoff ends one period after a failed refresh, however many
\* requests run into it.
BackoffNotExtended ==
    [][\A a \in Accounts :
          failures'[a] \notin {NoFailure, failures[a]}
          /\ failures'[a].ts # failures[a].ts
             => \E t \in Tasks : acct[t] = a /\ Refreshing(t) /\ ~Refreshing(t)']_vars

\* While no mutex was dropped from the map, the row of an account never goes
\* back to an earlier token: the exchange and the write are one critical section.
RowNeverRegresses ==
    [][\A a \in OAuthOnly : lockGen[a] = 0 => db[a].at <= db'[a].at]_vars

\* Every call returns or is cancelled: no task waits for ever for a mutex, a
\* provider or a failure record.
EveryCallEnds ==
    \A t \in Tasks : pc[t] # "idle" ~> pc[t] \in {"done", "idle"}
=============================================================================
