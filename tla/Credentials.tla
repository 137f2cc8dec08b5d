---------------------------- MODULE Credentials -----------------------------
(***************************************************************************)
(* Everything that writes the credentials of an account: the token manager *)
(* on behalf of requests (TokenManager), the fire-and-forget status writes *)
(* after the upstream answer (proxy.rs), the usage poller, which refreshes *)
(* tokens without the token manager (usage_polling.rs), the               *)
(* re-authentication flow (oauth.rs), and a restart with its maintenance   *)
(* (server.rs).  They share the row, the provider and the cached rows.     *)
(***************************************************************************)
EXTENDS TokenManager

CONSTANTS
    Regimes       \* the kinds of OAuth accounts considered

ASSUME CredentialsAssumption == Regimes \subseteq {"rotating", "fixed"}

VARIABLES
    blocked,      \* the accounts whose rate_limit_status is the "Auth failed"
                  \* marker
    cachedBlocked,\* the accounts whose cached row has the marker
    loadBlocked,  \* ... and whose row had it when a task read the rows
    late,         \* per task: the status write spawned after its response
    poll,         \* the usage poller
    reauth,       \* the re-authentication flow
    revoked,      \* per account: tokens up to this one were revoked
    starting,     \* startup maintenance has yet to run
    overtaken     \* history: the hands whose row was written by somebody else
                  \* since they got the tokens they hold

statusVars == <<blocked, cachedBlocked, loadBlocked>>
flowVars   == <<poll, reauth, revoked, starting>>
credVars   == <<statusVars, late, flowVars>>
allVars    == <<vars, credVars, overtaken>>

----------------------------------------------------------------------------
(* Data *)

\* A pending UPDATE: "clear" after a response that is no 401/403, "mark" after
\* one that is; ts is the time of the response.
Writes == [what : {"none", "clear", "mark"}, ts : 0..MaxTime]
NoWrite == [what |-> "none", ts |-> 0]

\* rows: the snapshot taken at the start of the cycle, of the accounts still to
\* be polled (todo); cur: the access token in use; rt: the refresh token of the
\* snapshot.
Polls == [pc : {"idle", "pause", "fetch", "persist", "revoked"},
          rows : [Accounts -> Cred], todo : SUBSET Accounts, acct : Accounts,
          cur : Cred, rt : Token]
Unpolled(a) == [pc |-> "idle", rows |-> [b \in Accounts |-> NoCred], todo |-> {},
                acct |-> a, cur |-> NoCred, rt |-> Null]

Reauths == [pc : {"idle", "granted", "stored", "cleared"}, acct : Accounts, got : Cred]

\* Who can hold new tokens that have yet to be written: a task, the poller, the
\* re-authentication.
TaskHand(t) == <<"task", t>>
PollHand    == <<"poll", Free>>
ReauthHand  == <<"reauth", Free>>
Hands == {TaskHand(t) : t \in Tasks} \cup {PollHand, ReauthHand}

\* Hand h holds tokens, of which account, and which.
Full(h) == CASE h[1] = "task"   -> pc[h[2]] = "exchanged"
             [] h[1] = "poll"   -> poll.pc = "persist"
             [] h[1] = "reauth" -> reauth.pc = "granted"
Of(h) == CASE h[1] = "task"   -> acct[h[2]]
           [] h[1] = "poll"   -> poll.acct
           [] h[1] = "reauth" -> reauth.acct
New(h) == CASE h[1] = "task"   -> got[h[2]]
            [] h[1] = "poll"   -> poll.cur
            [] h[1] = "reauth" -> reauth.got

\* Some component holds the tokens of a successful exchange.
Held(a) ==
    \/ \E t \in Tasks : acct[t] = a /\ pc[t] = "exchanged"
    \/ poll.acct = a /\ poll.pc = "persist"

----------------------------------------------------------------------------
(* Requests *)

\* The row is routable: evaluate_account_eligibility blocks auth failures.
CloneRoutable(t, a) ==
    /\ late[t] = NoWrite
    /\ a \notin cachedBlocked
    /\ CloneCached(t, a)
    /\ UNCHANGED credVars

ReadRows(t, a) ==
    /\ late[t] = NoWrite
    /\ ReadAccounts(t, a)
    /\ loadBlocked' = [loadBlocked EXCEPT ![t] = blocked]
    /\ UNCHANGED <<blocked, cachedBlocked, late, flowVars>>

\* The rows are stored; a request whose account turns out blocked goes on
\* without it.
StoreRows(t) ==
    /\ pc[t] = "loading"
    /\ cachedBlocked' = loadBlocked[t]
    /\ loadBlocked' = [loadBlocked EXCEPT ![t] = {}]
    /\ IF acct[t] \notin loadBlocked[t]
       THEN StoreAccounts(t)
       ELSE /\ cached' = load[t]
            /\ cachedAt' = clock
            /\ Vanish(t)
            /\ UNCHANGED <<clock, kind, db, providerVars, lockVars, backoffVars, dropped>>
    /\ UNCHANGED <<blocked, late, flowVars>>

\* The rest of the call is the token manager's.
TokenStep(t) ==
    /\ \/ AnswerDirectly(t)
       \/ CheckBackoff(t)
       \/ DropExpiredRecord(t)
       \/ RecoverFromDb(t)
       \/ RecoveryFails(t)
       \/ TakeLock(t)
       \/ Acquire(t)
       \/ Exchange(t)
       \/ ExchangeRefused(t)
       \/ ExchangeLost(t)
    /\ UNCHANGED credVars

\* ... down to the write of the new tokens.
CompleteRefresh(t, persisted) ==
    /\ Complete(t, persisted)
    /\ UNCHANGED credVars

\* The client is gone; rows it was reading are not stored.
AbortRequest(t) ==
    /\ Abort(t)
    /\ loadBlocked' = [loadBlocked EXCEPT ![t] = {}]
    /\ UNCHANGED <<blocked, cachedBlocked, late, flowVars>>

\* What the upstream API thinks of an access token: the newest one is accepted
\* until it expires or is revoked; an older one may be accepted or not.
Accepted(a, at) == at # Null /\ at > revoked[a]
Verdicts(a, c) ==
    IF ~Accepted(a, c.at) \/ clock >= c.exp THEN {"mark"}
    ELSE IF c.at = issued[a] THEN {"clear"}
    ELSE {"clear", "mark"}

\* The upstream answers and the status write is spawned.  After an error of
\* the token manager the request is sent all the same ("trying with existing
\* token"): with the token of the clone or, if it has none, without.
Respond(t) ==
    /\ pc[t] = "done"
    /\ \E w \in Verdicts(acct[t], mem[t]) :
          late' = [late EXCEPT ![t] = [what |-> w, ts |-> clock]]
    /\ Vanish(t)
    /\ UNCHANGED <<clock, kind, db, providerVars, cacheVars, lockVars, backoffVars,
                   dropped, statusVars, flowVars>>

\* No response: nothing is written.
GiveUp(t) == Finish(t) /\ UNCHANGED credVars

\* Fault: a whole token lifetime is subtracted as well.
MarkedTooEarly(c, w) == [c EXCEPT !.exp = w.ts - 1 - TokenLife]

\* A rejected token counts as expired, whichever token the row has by now.
Marked(c, w) == [c EXCEPT !.exp = w.ts - 1]

WriteStatus(t) ==
    /\ late[t] # NoWrite
    /\ late' = [late EXCEPT ![t] = NoWrite]
    /\ LET a == acct[t]
           w == late[t]
       IN IF w.what = "mark"
          THEN /\ blocked' = blocked \cup {a}
               /\ db' = IF a \in Keyed THEN db ELSE [db EXCEPT ![a] = Marked(@, w)]
          ELSE /\ blocked' = blocked \ {a}
               /\ UNCHANGED db
    /\ UNCHANGED <<clock, kind, providerVars, cacheVars, lockVars, backoffVars,
                   taskVars, dropped, cachedBlocked, loadBlocked, flowVars>>

\* No connection in the pool: the write is skipped.
SkipStatus(t) ==
    /\ late[t] # NoWrite
    /\ late' = [late EXCEPT ![t] = NoWrite]
    /\ UNCHANGED <<vars, statusVars, flowVars>>

----------------------------------------------------------------------------
(* The usage poller *)

\* The poll of an account is over: the cycle pauses for 15 s, or ends.
Rest(a, rows, todo) ==
    [Unpolled(a) EXCEPT !.pc = IF todo = {} THEN "idle" ELSE "pause",
                        !.rows = rows, !.todo = todo]

NextPoll == poll' = Rest(poll.acct, poll.rows, poll.todo)

\* The cycle starts with one snapshot for all accounts (get_pollable_accounts)
\* and goes on with it after each pause.  An account without an access token is
\* skipped.
PollAccount(a) ==
    /\ poll.pc \in {"idle", "pause"}
    /\ LET rows == IF poll.pc = "idle" THEN db ELSE poll.rows
           todo == IF poll.pc = "idle" THEN OAuthOnly ELSE poll.todo
           left == todo \ {a}
           rest == [b \in Accounts |-> IF b \in left THEN rows[b] ELSE NoCred]
       IN /\ a \in todo
          /\ poll' = IF rows[a].at # Null
                     THEN [pc |-> "fetch", rows |-> rest, todo |-> left, acct |-> a,
                           cur |-> rows[a], rt |-> rows[a].rt]
                     ELSE Rest(a, rest, left)
    /\ UNCHANGED <<vars, statusVars, late, reauth, revoked, starting>>

\* The usage endpoint answers, is rate limited or fails; or it rejects the
\* token, and the refresh fails for a passing reason.
FetchUsage ==
    /\ poll.pc = "fetch"
    /\ NextPoll
    /\ UNCHANGED <<vars, statusVars, late, reauth, revoked, starting>>

\* The usage endpoint judges tokens as the rest of the API does.
UsageRejected == poll.pc = "fetch" /\ "mark" \in Verdicts(poll.acct, poll.cur)

\* The usage endpoint rejects the token and refresh_oauth_token gets new ones,
\* for the refresh token of the snapshot in every round of the loop.
PollRefresh ==
    /\ UsageRejected
    /\ Grant(poll.acct, poll.rt)
    /\ poll' = [poll EXCEPT !.pc = "persist", !.cur = Granted(poll.acct, poll.rt)]
    /\ UNCHANGED <<clock, kind, db, cacheVars, lockVars, backoffVars, taskVars,
                   dropped, statusVars, late, reauth, revoked, starting>>

\* ... and the response with the new ones is lost.
PollRefreshLost ==
    /\ UsageRejected
    /\ Grant(poll.acct, poll.rt)
    /\ dropped' = [dropped EXCEPT ![poll.acct] = TRUE]
    /\ NextPoll
    /\ UNCHANGED <<clock, kind, db, cacheVars, lockVars, backoffVars, taskVars,
                   statusVars, late, reauth, revoked, starting>>

\* Fault: any refusal of the token endpoint counts as a revocation.
AnyRefusal(a, r) == TRUE

InvalidGrant(a, r) == r \notin live[a]

\* ... or the provider answers invalid_grant.
PollRevoked ==
    /\ UsageRejected
    /\ poll.rt # Null
    /\ InvalidGrant(poll.acct, poll.rt)
    /\ poll' = [poll EXCEPT !.pc = "revoked", !.cur = NoCred]
    /\ UNCHANGED <<vars, statusVars, late, reauth, revoked, starting>>

\* Fault: the new refresh token is not written.
PolledAccessToken(row, r) == [r EXCEPT !.rt = row.rt]

\* The row after update_tokens.
Polled(row, r) == r

\* persist_refreshed_token, which may find no connection; the loop goes on
\* with the new access token.
PollPersist(persisted) ==
    /\ poll.pc = "persist"
    /\ db' = IF persisted THEN [db EXCEPT ![poll.acct] = Polled(@, poll.cur)] ELSE db
    /\ dropped' = IF persisted THEN dropped ELSE [dropped EXCEPT ![poll.acct] = TRUE]
    /\ poll' = [poll EXCEPT !.pc = "fetch"]
    /\ UNCHANGED <<clock, kind, providerVars, cacheVars, lockVars, backoffVars,
                   taskVars, statusVars, late, reauth, revoked, starting>>

\* mark_token_revoked: the tokens the row has now are wiped.
PollWipe(connected) ==
    /\ poll.pc = "revoked"
    /\ db' = IF connected THEN [db EXCEPT ![poll.acct] = NoCred] ELSE db
    /\ NextPoll
    /\ UNCHANGED <<clock, kind, providerVars, cacheVars, lockVars, backoffVars,
                   taskVars, dropped, statusVars, late, reauth, revoked,
                   starting>>

----------------------------------------------------------------------------
(* Re-authentication: exchange_and_persist *)

\* The code is exchanged: a new session, beside the old one.
ReauthExchange(a) ==
    /\ reauth.pc = "idle"
    /\ issued[a] < MaxIssued
    /\ lockGen[a] < MaxClears
    /\ issued' = [issued EXCEPT ![a] = @ + 1]
    /\ live' = [live EXCEPT ![a] = @ \cup {issued[a] + 1}]
    /\ LET n == issued[a] + 1
       IN reauth' = [pc |-> "granted", acct |-> a,
                     got |-> [at |-> n, exp |-> clock + TokenLife, rt |-> n]]
    /\ UNCHANGED <<clock, kind, db, cacheVars, lockVars, backoffVars, taskVars,
                   dropped, statusVars, late, poll, revoked, starting>>

\* The browser is gone, or no connection is to be had: an error, and nothing
\* was written.
ReauthAbandoned ==
    /\ reauth.pc = "granted"
    /\ reauth' = [reauth EXCEPT !.pc = "idle", !.got = NoCred]
    /\ UNCHANGED <<vars, statusVars, late, poll, revoked, starting>>

\* update_tokens.
ReauthStore ==
    /\ reauth.pc = "granted"
    /\ db' = [db EXCEPT ![reauth.acct] = reauth.got]
    /\ reauth' = [reauth EXCEPT !.pc = "stored", !.got = NoCred]
    /\ UNCHANGED <<clock, kind, providerVars, cacheVars, lockVars, backoffVars,
                   taskVars, dropped, statusVars, late, poll, revoked, starting>>

\* The markers go; an error of the statement is ignored.
ReauthUnmark(written) ==
    /\ reauth.pc = "stored"
    /\ blocked' = IF written THEN blocked \ {reauth.acct} ELSE blocked
    /\ reauth' = [reauth EXCEPT !.pc = "cleared"]
    /\ UNCHANGED <<vars, cachedBlocked, loadBlocked, late, poll, revoked,
                   starting>>

\* clear_account_state.
ReauthReset ==
    /\ reauth.pc = "cleared"
    /\ ClearAccountState(reauth.acct)
    /\ reauth' = [reauth EXCEPT !.pc = "idle"]
    /\ UNCHANGED <<statusVars, late, poll, revoked, starting>>

----------------------------------------------------------------------------
(* The user, the process and the clock *)

\* Bound: revocations and restarts are explored while the provider still makes
\* grants; afterwards nothing new can follow them.
GrantsLeft(a) == issued[a] < MaxIssued

\* Every session of the account is revoked at the provider.
Revoke(a) ==
    /\ live[a] # {}
    /\ GrantsLeft(a)
    /\ live' = [live EXCEPT ![a] = {}]
    /\ revoked' = [revoked EXCEPT ![a] = issued[a]]
    /\ UNCHANGED <<clock, kind, db, issued, cacheVars, lockVars, backoffVars,
                   taskVars, dropped, statusVars, late, poll, reauth,
                   starting>>

\* The process stops, whatever it was doing, and starts again: the rows and the
\* provider keep their state, spawned writes and tokens in hand are lost.
Restart ==
    /\ \E a \in Accounts : GrantsLeft(a)
    /\ starting' = TRUE
    /\ dropped' = [a \in Accounts |-> dropped[a] \/ Held(a)]
    /\ cached' = [a \in Accounts |-> NoCred]
    /\ cachedAt' = -CacheTTL
    /\ lockGen' = [a \in Accounts |-> 0]
    /\ owner' = [a \in Accounts |-> [g \in Generation |-> Free]]
    /\ failures' = [a \in Accounts |-> NoFailure]
    /\ lastCleanup' = -CleanupInterval
    /\ pc' = [t \in Tasks |-> "idle"]
    /\ load' = [t \in Tasks |-> [a \in Accounts |-> NoCred]]
    /\ mem' = [t \in Tasks |-> NoCred]
    /\ tnow' = [t \in Tasks |-> 0]
    /\ lk' = [t \in Tasks |-> 0]
    /\ got' = [t \in Tasks |-> NoCred]
    /\ ans' = [t \in Tasks |-> "none"]
    /\ cachedBlocked' = {}
    /\ loadBlocked' = [t \in Tasks |-> {}]
    /\ late' = [t \in Tasks |-> NoWrite]
    /\ poll' = Unpolled(poll.acct)
    /\ reauth' = [reauth EXCEPT !.pc = "idle", !.got = NoCred]
    /\ UNCHANGED <<clock, kind, db, providerVars, acct, blocked, revoked>>

\* clear_expired_rate_limits: all markers, while requests are already served.
StartupClear ==
    /\ starting
    /\ starting' = FALSE
    /\ blocked' = {}
    /\ UNCHANGED <<vars, cachedBlocked, loadBlocked, late, poll, reauth,
                   revoked>>

Pass == Tick /\ UNCHANGED credVars

----------------------------------------------------------------------------
(* The specification *)

CredInit ==
    /\ Init
    /\ \A a \in Accounts : kind[a] \in Regimes
    /\ blocked = {}
    /\ cachedBlocked = {}
    /\ loadBlocked = [t \in Tasks |-> {}]
    /\ late = [t \in Tasks |-> NoWrite]
    /\ \E a \in Accounts :
          /\ poll = Unpolled(a)
          /\ reauth = [pc |-> "idle", acct |-> a, got |-> NoCred]
    /\ revoked = [a \in Accounts |-> 0]
    /\ starting = FALSE
    /\ overtaken = {}

RequestStep(t) ==
    \/ \E a \in Accounts : CloneRoutable(t, a) \/ ReadRows(t, a)
    \/ StoreRows(t)
    \/ TokenStep(t)
    \/ \E persisted \in BOOLEAN : CompleteRefresh(t, persisted)
    \/ AbortRequest(t)
    \/ Respond(t)
    \/ GiveUp(t)
    \/ WriteStatus(t)
    \/ SkipStatus(t)

PollStep ==
    \/ \E a \in Accounts : PollAccount(a)
    \/ FetchUsage
    \/ PollRefresh
    \/ PollRefreshLost
    \/ PollRevoked
    \/ \E ok \in BOOLEAN : PollPersist(ok) \/ PollWipe(ok)

ReauthStep ==
    \/ \E a \in Accounts : ReauthExchange(a)
    \/ ReauthAbandoned
    \/ ReauthStore
    \/ \E written \in BOOLEAN : ReauthUnmark(written)
    \/ ReauthReset

CredStep ==
    \/ \E t \in Tasks : RequestStep(t)
    \/ PollStep
    \/ ReauthStep
    \/ \E a \in Accounts : Revoke(a)
    \/ Restart
    \/ StartupClear
    \/ Pass

\* The task of hand h and the task that writes the row in this step are under
\* one mutex.
SameMutex(h) ==
    \E t, u \in Tasks :
        /\ h = TaskHand(t) /\ acct[u] = acct[t] /\ lk[u] = lk[t]
        /\ pc[u] = "exchanged" /\ pc'[u] = "done"

\* A hand that keeps its tokens over a step in which the row gets another
\* access token is overtaken, unless its own mutex should have kept the writer
\* out.
Overtaking ==
    overtaken' = {h \in Hands :
                     /\ Full(h) /\ Full(h)'
                     /\ \/ h \in overtaken
                        \/ db'[Of(h)].at # db[Of(h)].at /\ ~SameMutex(h)}

CredNext == CredStep /\ Overtaking

CredSpec == CredInit /\ [][CredNext]_allVars

----------------------------------------------------------------------------
(* Properties *)

CredTypeOK ==
    /\ TypeOK
    /\ blocked \subseteq Accounts
    /\ cachedBlocked \subseteq Accounts
    /\ loadBlocked \in [Tasks -> SUBSET Accounts]
    /\ late \in [Tasks -> Writes]
    /\ poll \in Polls
    /\ reauth \in Reauths
    /\ revoked \in [Accounts -> Token]
    /\ starting \in BOOLEAN
    /\ overtaken \subseteq Hands

\* Four writers share the refresh token of a row.  It is one the provider
\* accepts, unless the user revoked it, the poller wiped it, somebody holds its
\* replacement, or the replacement was dropped.
RowTokenAccounted ==
    \A a \in OAuthOnly :
        \/ db[a].rt \in live[a] \cup {Null}
        \/ db[a].rt <= revoked[a]
        \/ dropped[a]
        \/ Held(a)

\* The poller destroys a refresh token the provider accepts only if the row was
\* rewritten after the snapshot of its cycle: an outage never costs the tokens.
WipeOnlyIfStale ==
    [][\A a \in Accounts :
          poll.pc = "revoked" /\ poll'.pc # "revoked" /\ db[a].rt \in live[a]
          /\ db'[a].rt = Null /\ db[a].rt # Null
             => db[a].rt # poll.rt]_allVars

\* A row falls back to older tokens in two ways only: the poller wipes it after
\* an invalid_grant, or somebody delivers the tokens of a grant after another
\* had overtaken it.  Nothing writes a token back from a clone, a snapshot or a
\* late answer, and of two refreshes under one mutex neither overtakes.
RegressionExplained ==
    [][\A a \in Accounts :
          db'[a].at < db[a].at =>
              \/ poll.pc = "revoked" /\ poll.acct = a /\ db'[a] = NoCred
              \/ \E h \in overtaken : Of(h) = a /\ db'[a] = New(h)]_allVars

\* mark_token_revoked is for a refresh token that "has been permanently revoked
\* (`invalid_grant`)": what it wipes is no longer accepted.
WipeOnlyRevoked ==
    [][\A a \in Accounts :
          poll.pc = "revoked" /\ poll'.pc # "revoked" /\ db'[a].rt # db[a].rt
             => db[a].rt \notin live[a]]_allVars
=============================================================================
