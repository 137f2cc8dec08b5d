------------------------- MODULE Credentials_proofs -------------------------
(* Theorems of TokenManager and of Credentials, which extends it, for every  *)
(* number of accounts, tasks, grants, restarts and revocations and every     *)
(* value of the time constants.  The first part is about the token manager   *)
(* alone: types, the mutex of a refresh, backoff, the tokens handed out and  *)
(* the rows.  The second is about the row and its four writers together.     *)
EXTENDS Credentials, TLAPS

(*****************************************************************************)
(* Part 1: TokenManager                                                      *)
(*****************************************************************************)

\* The constants as the solvers want them.
LEMMA Constants ==
    /\ SafetyWindow \in Nat /\ Backoff \in Nat /\ CleanupInterval \in Nat
    /\ FailureTTL \in Nat /\ MaxTime \in Nat /\ MaxClears \in Nat
    /\ MaxRetries \in Nat /\ CacheTTL \in Nat /\ TokenLife \in Nat /\ MaxIssued \in Nat
    /\ MaxRetries > 0 /\ CacheTTL > 0 /\ TokenLife > 0 /\ MaxIssued > 0
    /\ SafetyWindow < TokenLife
    /\ Free \notin Tasks
BY ConstantsAssumption

\* NULL credentials are a row's credentials.
LEMMA NoCredType == NoCred \in Cred
BY Constants DEF NoCred, Cred, Token, Time, Null

\* What the clean-up keeps of the failure map is a failure map.
LEMMA CleanedFailuresType ==
    ASSUME TypeOK
    PROVE  CleanedFailures \in [Accounts -> FailureRecord \cup {NoFailure}]
BY DEF TypeOK, Typed, CleanedFailures

\* Bumping the count of a failure record gives a failure record.
LEMMA BumpedType ==
    ASSUME NEW rec \in FailureRecord
    PROVE  Bumped(rec) \in FailureRecord
BY Constants DEF Bumped, FailureRecord

\* A grant is a credential, and the provider's state stays well typed.
LEMMA GrantType ==
    ASSUME TypeOK, NEW a \in Accounts, NEW r \in Token, Grant(a, r)
    PROVE  /\ Granted(a, r) \in Cred
           /\ issued' \in [Accounts -> 1..MaxIssued]
           /\ live' \in [Accounts -> SUBSET (1..MaxIssued)]
<1>1. issued[a] \in 1..MaxIssued /\ issued[a] < MaxIssued /\ clock \in 0..MaxTime
  BY DEF TypeOK, Typed, Grant
<1>2. issued[a] + 1 \in 1..MaxIssued
  BY <1>1, Constants
<1>3. issued[a] + 1 \in Token /\ clock + TokenLife \in Time
  BY <1>1, <1>2, Constants DEF Token, Time
<1>4. Granted(a, r) \in Cred
  BY <1>3 DEF Granted, Cred
<1>5. issued' \in [Accounts -> 1..MaxIssued]
  BY <1>2 DEF TypeOK, Typed, Grant
<1>6. live' \in [Accounts -> SUBSET (1..MaxIssued)]
  <2>1. live' = [live EXCEPT ![a] =
                   IF kind[a] = "rotating" THEN (live[a] \ {r}) \cup {issued[a] + 1} ELSE live[a]]
    BY DEF Grant
  <2>2. (live[a] \ {r}) \cup {issued[a] + 1} \in SUBSET (1..MaxIssued)
    BY <1>2 DEF TypeOK, Typed
  <2> QED BY <2>1, <2>2 DEF TypeOK, Typed
<1> QED BY <1>4, <1>5, <1>6

\* A task's part of the type invariant.
TasksOK ==
    /\ pc \in [Tasks -> PCs]
    /\ acct \in [Tasks -> Accounts]
    /\ load \in [Tasks -> [Accounts -> Cred]]
    /\ mem \in [Tasks -> Cred]
    /\ tnow \in [Tasks -> 0..MaxTime]
    /\ lk \in [Tasks -> Generation]
    /\ got \in [Tasks -> Cred]
    /\ ans \in [Tasks -> Answers]

\* The four ways an action moves a task keep it well typed.
LEMMA GotoType ==
    ASSUME TasksOK, NEW t \in Tasks, NEW p \in PCs, Goto(t, p)
    PROVE  TasksOK'
BY DEF TasksOK, Goto

LEMMA AnswerType ==
    ASSUME TasksOK, NEW t \in Tasks, NEW c \in Cred, NEW r \in Answers, Answer(t, c, r)
    PROVE  TasksOK'
BY NoCredType DEF TasksOK, Answer, PCs

LEMMA VanishType ==
    ASSUME TasksOK, NEW t \in Tasks, Vanish(t)
    PROVE  TasksOK'
BY NoCredType, Constants DEF TasksOK, Vanish, PCs, Generation, Answers

LEMMA ReleaseType ==
    ASSUME TypeOK, NEW t \in Tasks, Release(t)
    PROVE  owner' \in [Accounts -> [Generation -> Tasks \cup {Free}]]
BY DEF TypeOK, Typed, Release

LEMMA LockType ==
    ASSUME TypeOK, NEW t \in Tasks, Lock(t)
    PROVE  owner' \in [Accounts -> [Generation -> Tasks \cup {Free}]]
BY DEF TypeOK, Typed, Lock

LEMMA ForgetType ==
    ASSUME TypeOK, NEW a \in Accounts, Forget(a)
    PROVE  failures' \in [Accounts -> FailureRecord \cup {NoFailure}]
BY DEF TypeOK, Typed, Forget

----------------------------------------------------------------------------
(* Type correctness *)

LEMMA InitType == Init => TypeOK
<1> SUFFICES ASSUME Init PROVE TypeOK
  OBVIOUS
<1>1. 1 \in Token /\ Null \in Token /\ 0 \in Time /\ TokenLife \in Time
  BY Constants DEF Token, Time, Null
<1>2. db \in [Accounts -> Cred]
  BY <1>1 DEF Init, Cred
<1>3. TasksOK
  BY NoCredType, Constants DEF Init, TasksOK, PCs, Generation, Answers
<1>4. clock \in 0..MaxTime /\ cachedAt \in (-CacheTTL)..MaxTime
      /\ lastCleanup \in (-CleanupInterval)..MaxTime
  BY Constants DEF Init
<1>5. /\ issued \in [Accounts -> 1..MaxIssued]
      /\ live \in [Accounts -> SUBSET (1..MaxIssued)]
  BY Constants DEF Init
<1>6. lockGen \in [Accounts -> Generation]
  BY Constants DEF Init, Generation
<1>7. owner \in [Accounts -> [Generation -> Tasks \cup {Free}]]
  BY DEF Init
<1> QED BY <1>2, <1>3, <1>4, <1>5, <1>6, <1>7, NoCredType
         DEF Init, TypeOK, Typed, Dated, NoFailure, TasksOK

\* One step per action; each action's own obligations are the few variables it
\* assigns.
LEMMA NextTyped == TypeOK /\ [Next]_vars => Typed'
<1> SUFFICES ASSUME TypeOK, [Next]_vars PROVE Typed'
  OBVIOUS
<1> USE DEF providerVars, cacheVars, lockVars, backoffVars
<1>0. TasksOK
  BY DEF TypeOK, Typed, TasksOK
<1>1. ASSUME NEW t \in Tasks, NEW a \in Accounts, CloneCached(t, a) PROVE Typed'
  BY <1>1 DEF TypeOK, Typed, CloneCached, PCs
<1>2. ASSUME NEW t \in Tasks, NEW a \in Accounts, ReadAccounts(t, a) PROVE Typed'
  BY <1>2 DEF TypeOK, Typed, ReadAccounts, PCs
<1>3. ASSUME NEW t \in Tasks, StoreAccounts(t) PROVE Typed'
  <2>1. cachedAt' \in (-CacheTTL)..MaxTime
    BY <1>3, Constants DEF TypeOK, Typed, StoreAccounts
  <2>2. TasksOK'
    BY <1>3, <1>0, NoCredType DEF StoreAccounts, TasksOK, PCs
  <2> QED BY <1>3, <2>1, <2>2 DEF TypeOK, Typed, TasksOK, StoreAccounts
<1>4. ASSUME NEW t \in Tasks, AnswerDirectly(t) PROVE Typed'
  <2>1. DirectAnswer(acct[t], mem[t], clock) \in Answers
    BY DEF DirectAnswer, Answers
  <2> QED BY <1>4, <2>1 DEF TypeOK, Typed, AnswerDirectly, PCs
<1>5. ASSUME NEW t \in Tasks, CheckBackoff(t) PROVE Typed'
  <2>1. acct[t] \in Accounts
    BY DEF TypeOK, Typed
  <2>2. CleanedFailures[acct[t]] \in FailureRecord \cup {NoFailure}
    BY <2>1, CleanedFailuresType
  <2>3. InBackoff(CleanedFailures[acct[t]])
          => Bumped(CleanedFailures[acct[t]]) \in FailureRecord
    BY <2>2, BumpedType DEF InBackoff
  <2>4. failures' \in [Accounts -> FailureRecord \cup {NoFailure}]
    BY <1>5, <2>1, <2>3, CleanedFailuresType DEF CheckBackoff
  <2>5. TasksOK'
    BY <1>5, <1>0 DEF CheckBackoff, TasksOK, TypeOK, Typed, PCs, Answers
  <2>6. lastCleanup' \in (-CleanupInterval)..MaxTime
    BY <1>5, Constants DEF CheckBackoff, TypeOK, Typed
  <2> QED BY <1>5, <2>4, <2>5, <2>6 DEF CheckBackoff, TypeOK, Typed, TasksOK
<1>6. ASSUME NEW t \in Tasks, DropExpiredRecord(t) PROVE Typed'
  <2>1. TasksOK'
    BY <1>6, <1>0, GotoType DEF DropExpiredRecord, PCs
  <2>2. failures' \in [Accounts -> FailureRecord \cup {NoFailure}]
    BY <1>6, ForgetType DEF DropExpiredRecord, TypeOK, Typed
  <2> QED BY <1>6, <2>1, <2>2 DEF DropExpiredRecord, TypeOK, Typed, TasksOK
<1>7. ASSUME NEW t \in Tasks, RecoverFromDb(t) PROVE Typed'
  <2>1. db[acct[t]] \in Cred /\ mem[t] \in Cred
    BY DEF TypeOK, Typed
  <2>2. [db[acct[t]] EXCEPT !.rt = IF db[acct[t]].rt # Null THEN db[acct[t]].rt
                                   ELSE mem[t].rt] \in Cred
    BY <2>1 DEF Cred
  <2>3. TasksOK'
    BY <1>7, <1>0, <2>2, AnswerType DEF RecoverFromDb, Answers
  <2>4. failures' \in [Accounts -> FailureRecord \cup {NoFailure}]
    BY <1>7, ForgetType DEF RecoverFromDb, TypeOK, Typed
  <2> QED BY <1>7, <2>3, <2>4 DEF RecoverFromDb, TypeOK, Typed, TasksOK
<1>8. ASSUME NEW t \in Tasks, RecoveryFails(t) PROVE Typed'
  <2>1. TasksOK'
    BY <1>8, <1>0, AnswerType DEF RecoveryFails, TypeOK, Typed, Answers
  <2> QED BY <1>8, <2>1 DEF RecoveryFails, TypeOK, Typed, TasksOK
<1>9. ASSUME NEW t \in Tasks, TakeLock(t) PROVE Typed'
  BY <1>9 DEF TypeOK, Typed, TakeLock, PCs
<1>10. ASSUME NEW t \in Tasks, Acquire(t) PROVE Typed'
  <2>1. CASE Usable(mem[t], tnow[t])
    <3>1. TasksOK'
      BY <1>10, <2>1, <1>0, AnswerType DEF Acquire, TypeOK, Typed, Answers
    <3> QED BY <1>10, <2>1, <3>1 DEF Acquire, TypeOK, Typed, TasksOK
  <2>2. CASE ~Usable(mem[t], tnow[t])
    <3>1. TasksOK'
      BY <1>10, <2>2, <1>0, GotoType DEF Acquire, PCs
    <3>2. owner' \in [Accounts -> [Generation -> Tasks \cup {Free}]]
      BY <1>10, <2>2, LockType DEF Acquire
    <3> QED BY <1>10, <2>2, <3>1, <3>2 DEF Acquire, TypeOK, Typed, TasksOK
  <2> QED BY <2>1, <2>2
<1>11. ASSUME NEW t \in Tasks, ExchangeKey(t) PROVE Typed'
  <2>1. [at |-> 1, exp |-> clock + TokenLife, rt |-> Null] \in Cred
    BY Constants DEF TypeOK, Typed, Cred, Token, Time, Null
  <2>2. TasksOK'
    BY <1>11, <1>0, <2>1 DEF ExchangeKey, TasksOK, PCs
  <2> QED BY <1>11, <2>2 DEF ExchangeKey, TypeOK, Typed, TasksOK
<1>12. ASSUME NEW t \in Tasks, Exchange(t) PROVE Typed'
  <2>1. acct[t] \in Accounts /\ mem[t].rt \in Token
    BY DEF TypeOK, Typed, Cred
  <2>2. /\ Granted(acct[t], mem[t].rt) \in Cred
        /\ issued' \in [Accounts -> 1..MaxIssued]
        /\ live' \in [Accounts -> SUBSET (1..MaxIssued)]
    BY <1>12, <2>1, GrantType DEF Exchange
  <2>3. TasksOK'
    BY <1>12, <1>0, <2>2 DEF Exchange, TasksOK, PCs
  <2> QED BY <1>12, <2>2, <2>3 DEF Exchange, TypeOK, Typed, TasksOK
<1>13. ASSUME NEW t \in Tasks, RefreshFails(t)
       PROVE  /\ failures' \in [Accounts -> FailureRecord \cup {NoFailure}]
              /\ owner' \in [Accounts -> [Generation -> Tasks \cup {Free}]]
              /\ TasksOK'
  <2>1. [ts |-> tnow[t], count |-> 0] \in FailureRecord
    BY Constants DEF TypeOK, Typed, FailureRecord
  <2>2. failures' \in [Accounts -> FailureRecord \cup {NoFailure}]
    BY <1>13, <2>1 DEF RefreshFails, TypeOK, Typed
  <2>3. TasksOK'
    BY <1>13, <1>0, AnswerType DEF RefreshFails, TypeOK, Typed, Answers
  <2> QED BY <1>13, <2>2, <2>3, ReleaseType DEF RefreshFails
<1>14. ASSUME NEW t \in Tasks, ExchangeRefused(t) PROVE Typed'
  BY <1>14, <1>13 DEF ExchangeRefused, RefreshFails, TypeOK, Typed, TasksOK
<1>15. ASSUME NEW t \in Tasks, ExchangeLost(t) PROVE Typed'
  <2>1. acct[t] \in Accounts /\ mem[t].rt \in Token
    BY DEF TypeOK, Typed, Cred
  <2>2. /\ issued' \in [Accounts -> 1..MaxIssued]
        /\ live' \in [Accounts -> SUBSET (1..MaxIssued)]
    BY <1>15, <2>1, GrantType DEF ExchangeLost
  <2> QED BY <1>15, <1>13, <2>2 DEF ExchangeLost, RefreshFails, TypeOK, Typed, TasksOK
<1>16. ASSUME NEW t \in Tasks, NEW persisted \in BOOLEAN, Complete(t, persisted)
       PROVE  Typed'
  <2>1. acct[t] \in Accounts /\ got[t] \in Cred /\ mem[t] \in Cred
    BY DEF TypeOK, Typed
  <2>2. [got[t] EXCEPT !.rt = IF got[t].rt # Null THEN got[t].rt ELSE mem[t].rt] \in Cred
    BY <2>1 DEF Cred
  <2>3. TasksOK'
    BY <1>16, <1>0, <2>2, AnswerType DEF Complete, Answers
  <2>4. failures' \in [Accounts -> FailureRecord \cup {NoFailure}]
    BY <1>16, <2>1, ForgetType DEF Complete
  <2>5. owner' \in [Accounts -> [Generation -> Tasks \cup {Free}]]
    BY <1>16, ReleaseType DEF Complete
  <2>6. db' \in [Accounts -> Cred] /\ dropped' \in [Accounts -> BOOLEAN]
    BY <1>16, <2>1 DEF Complete, Stored, TypeOK, Typed
  <2> QED BY <1>16, <2>3, <2>4, <2>5, <2>6 DEF Complete, TypeOK, Typed, TasksOK
<1>17. ASSUME NEW t \in Tasks, Cancel(t) PROVE Typed'
  <2>1. TasksOK'
    BY <1>17, <1>0, VanishType DEF Cancel
  <2>2. owner' \in [Accounts -> [Generation -> Tasks \cup {Free}]]
    BY <1>17 DEF Cancel, TypeOK, Typed
  <2> QED BY <1>17, <2>1, <2>2 DEF Cancel, TypeOK, Typed, TasksOK
<1>18. ASSUME NEW t \in Tasks, CancelDuringGrant(t) PROVE Typed'
  <2>1. acct[t] \in Accounts /\ mem[t].rt \in Token
    BY DEF TypeOK, Typed, Cred
  <2>2. /\ issued' \in [Accounts -> 1..MaxIssued]
        /\ live' \in [Accounts -> SUBSET (1..MaxIssued)]
    BY <1>18, <2>1, GrantType DEF CancelDuringGrant
  <2>3. TasksOK'
    BY <1>18, <1>0, VanishType DEF CancelDuringGrant
  <2>4. owner' \in [Accounts -> [Generation -> Tasks \cup {Free}]]
    BY <1>18, ReleaseType DEF CancelDuringGrant
  <2> QED BY <1>18, <2>2, <2>3, <2>4 DEF CancelDuringGrant, TypeOK, Typed, TasksOK
<1>19. ASSUME NEW t \in Tasks, Finish(t) PROVE Typed'
  <2>1. TasksOK'
    BY <1>19, <1>0, VanishType DEF Finish
  <2> QED BY <1>19, <2>1 DEF Finish, TypeOK, Typed, TasksOK
<1>20. ASSUME NEW a \in Accounts, ClearAccountState(a) PROVE Typed'
  <2>1. lockGen' \in [Accounts -> Generation]
    BY <1>20, Constants DEF ClearAccountState, TypeOK, Typed, Generation
  <2> QED BY <1>20, <2>1, ForgetType DEF ClearAccountState, TypeOK, Typed, taskVars
<1>21. CASE Tick
  <2>1. clock' \in 0..MaxTime
    BY <1>21, Constants DEF Tick, TypeOK, Typed
  <2> QED BY <1>21, <2>1 DEF Tick, TypeOK, Typed, taskVars
<1>22. CASE UNCHANGED vars
  BY <1>22 DEF vars, taskVars, TypeOK, Typed
<1> QED
  BY <1>1, <1>2, <1>3, <1>4, <1>5, <1>6, <1>7, <1>8, <1>9, <1>10, <1>11, <1>12, <1>14,
     <1>15, <1>16, <1>17, <1>18, <1>19, <1>20, <1>21, <1>22 DEF Next, CallStep, Abort

\* Stamps stay in the past: a call is stamped with the clock, a failure record
\* with the stamp of its call, and the clock only advances.
LEMMA DatesFrame ==
    ASSUME TypeOK, clock' \in {clock, clock + 1},
           \A t \in Tasks : tnow'[t] \in {tnow[t], 0, clock},
           \A a \in Accounts : \/ failures'[a].ts \in {failures[a].ts, -1}
                              \/ \E t \in Tasks : failures'[a].ts = tnow[t]
    PROVE  Dated'
<1>1. clock \in Int /\ 0 <= clock /\ clock <= clock'
  BY Constants DEF TypeOK, Typed
<1>2. ASSUME NEW t \in Tasks PROVE tnow'[t] <= clock'
  <2>1. tnow[t] \in Int /\ tnow[t] <= clock /\ clock' \in Int
    BY <1>1, Constants DEF TypeOK, Typed, Dated
  <2> QED BY <1>1, <2>1
<1>3. ASSUME NEW a \in Accounts PROVE failures'[a].ts <= clock'
  <2>1. failures[a] \in FailureRecord \cup {NoFailure}
    BY DEF TypeOK, Typed
  <2>2. failures[a].ts \in Int /\ failures[a].ts <= clock
    BY <2>1, Constants DEF TypeOK, Dated, FailureRecord, NoFailure
  <2>3. \A t \in Tasks : tnow[t] \in Int /\ tnow[t] <= clock
    BY Constants DEF TypeOK, Typed, Dated
  <2> QED BY <1>1, <2>2, <2>3
<1> QED BY <1>2, <1>3 DEF Dated

LEMMA DatesNext == TypeOK /\ [Next]_vars => Dated'
<1> SUFFICES ASSUME TypeOK, [Next]_vars PROVE Dated'
  OBVIOUS
<1> USE DEF backoffVars
<1>0. /\ tnow \in [Tasks -> 0..MaxTime] /\ acct \in [Tasks -> Accounts]
      /\ failures \in [Accounts -> FailureRecord \cup {NoFailure}]
  BY DEF TypeOK, Typed
<1>1. ASSUME NEW t \in Tasks, CallStep(t) \/ Abort(t) \/ Finish(t) PROVE Dated'
  <2>1. clock' = clock
    BY <1>1 DEF CallStep, StoreAccounts, AnswerDirectly, CheckBackoff, DropExpiredRecord,
       RecoverFromDb, RecoveryFails, TakeLock, Acquire, ExchangeKey, Exchange, ExchangeRefused,
       ExchangeLost, RefreshFails, Complete, Abort, Cancel, CancelDuringGrant, Finish
  <2>2. tnow' \in {tnow, [tnow EXCEPT ![t] = 0], [tnow EXCEPT ![t] = clock]}
    BY <1>1 DEF CallStep, StoreAccounts, AnswerDirectly, CheckBackoff, DropExpiredRecord,
       RecoverFromDb, RecoveryFails, TakeLock, Acquire, ExchangeKey, Exchange, ExchangeRefused,
       ExchangeLost, RefreshFails, Complete, Abort, Cancel, CancelDuringGrant, Finish,
       Answer, Goto, Vanish
  <2>3. ASSUME NEW a \in Accounts
        PROVE  \/ failures'[a].ts \in {failures[a].ts, -1}
               \/ \E u \in Tasks : failures'[a].ts = tnow[u]
    <3>1. CASE CheckBackoff(t)
      <4>1. CleanedFailures \in [Accounts -> FailureRecord \cup {NoFailure}]
        BY CleanedFailuresType
      <4>2. CleanedFailures[a] \in {failures[a], NoFailure}
        BY <1>0 DEF CleanedFailures
      <4>3. failures'[a] \in {CleanedFailures[a], Bumped(CleanedFailures[a])}
        BY <3>1, <1>0, <4>1 DEF CheckBackoff
      <4>4. Bumped(CleanedFailures[a]).ts = CleanedFailures[a].ts
        BY <4>1 DEF Bumped, FailureRecord, NoFailure
      <4> QED BY <4>2, <4>3, <4>4 DEF NoFailure
    <3>2. CASE DropExpiredRecord(t) \/ RecoverFromDb(t)
                 \/ \E persisted \in BOOLEAN : Complete(t, persisted)
      <4>1. failures' = [failures EXCEPT ![acct[t]] = NoFailure]
        BY <3>2 DEF DropExpiredRecord, RecoverFromDb, Complete, Forget
      <4> QED BY <1>0, <4>1 DEF NoFailure
    <3>3. CASE ExchangeRefused(t) \/ ExchangeLost(t)
      <4>1. failures' = [failures EXCEPT ![acct[t]] = [ts |-> tnow[t], count |-> 0]]
        BY <3>3 DEF ExchangeRefused, ExchangeLost, RefreshFails
      <4>2. failures'[a] \in {failures[a], [ts |-> tnow[t], count |-> 0]}
        BY <1>0, <4>1
      <4> QED BY <4>2
    <3>4. CASE failures' = failures
      BY <3>4
    <3> QED
      BY <1>1, <3>1, <3>2, <3>3, <3>4 DEF CallStep, StoreAccounts, AnswerDirectly,
         RecoveryFails, TakeLock, Acquire, ExchangeKey, Exchange, Abort, Cancel,
         CancelDuringGrant, Finish
  <2>4. \A u \in Tasks : tnow'[u] \in {tnow[u], 0, clock}
    BY <1>0, <2>2
  <2> QED BY <2>1, <2>3, <2>4, DatesFrame
<1>2. ASSUME NEW t \in Tasks, NEW a \in Accounts, CloneCached(t, a) \/ ReadAccounts(t, a)
      PROVE  Dated'
  BY <1>2, DatesFrame DEF CloneCached, ReadAccounts
<1>3. ASSUME NEW a \in Accounts, ClearAccountState(a) PROVE Dated'
  <2>1. /\ clock' = clock /\ tnow' = tnow
        /\ failures' = [failures EXCEPT ![a] = NoFailure]
    BY <1>3 DEF ClearAccountState, Forget, taskVars
  <2>2. \A b \in Accounts : failures'[b].ts \in {failures[b].ts, -1}
    BY <1>0, <2>1 DEF NoFailure
  <2> QED BY <2>1, <2>2, DatesFrame
<1>4. CASE Tick \/ UNCHANGED vars
  BY <1>4, DatesFrame DEF Tick, taskVars, vars
<1> QED BY <1>1, <1>2, <1>3, <1>4 DEF Next

LEMMA NextType == TypeOK /\ [Next]_vars => TypeOK'
BY NextTyped, DatesNext DEF TypeOK

\* Every reachable state is well typed; in particular the tokens handed out,
\* stored or consumed are grants of the provider, and no failure record is
\* stamped with a time to come, which would outlast its back-off.
THEOREM TypeCorrect == Spec => []TypeOK
BY InitType, NextType, PTL DEF Spec

----------------------------------------------------------------------------
(* Mutual exclusion of refreshes *)

\* A task inside the critical section holds the mutex it cloned out of the map,
\* and the map never handed out a mutex it has yet to create.
LockInv ==
    \A t \in Tasks :
        /\ Refreshing(t) => owner[acct[t]][lk[t]] = t
        /\ pc[t] = "queued" \/ Refreshing(t) => lk[t] <= lockGen[acct[t]]

LEMMA LockInvInit == Init => LockInv
BY DEF Init, LockInv, Refreshing

LEMMA LockInvNext == TypeOK /\ LockInv /\ [Next]_vars => LockInv'
<1> SUFFICES ASSUME TypeOK, LockInv, [Next]_vars PROVE LockInv'
  OBVIOUS
<1> USE DEF lockVars, LockInv, Refreshing
<1>0. /\ pc \in [Tasks -> PCs] /\ acct \in [Tasks -> Accounts]
      /\ lk \in [Tasks -> Generation] /\ lockGen \in [Accounts -> Generation]
      /\ owner \in [Accounts -> [Generation -> Tasks \cup {Free}]]
      /\ Generation \subseteq Int /\ Free \notin Tasks
  BY Constants DEF TypeOK, Typed, Generation
<1>1. ASSUME NEW t \in Tasks, NEW a \in Accounts, CloneCached(t, a) PROVE LockInv'
  BY <1>0, <1>1 DEF CloneCached
<1>2. ASSUME NEW t \in Tasks, NEW a \in Accounts, ReadAccounts(t, a) PROVE LockInv'
  BY <1>0, <1>2 DEF ReadAccounts
<1>3. ASSUME NEW t \in Tasks, StoreAccounts(t) PROVE LockInv'
  BY <1>0, <1>3 DEF StoreAccounts
<1>4. ASSUME NEW t \in Tasks, AnswerDirectly(t) PROVE LockInv'
  BY <1>0, <1>4 DEF AnswerDirectly
<1>5. ASSUME NEW t \in Tasks, CheckBackoff(t) PROVE LockInv'
  BY <1>0, <1>5 DEF CheckBackoff
<1>6. ASSUME NEW t \in Tasks, DropExpiredRecord(t) PROVE LockInv'
  BY <1>0, <1>6 DEF DropExpiredRecord, Goto
<1>7. ASSUME NEW t \in Tasks, RecoverFromDb(t) PROVE LockInv'
  BY <1>0, <1>7 DEF RecoverFromDb, Answer
<1>8. ASSUME NEW t \in Tasks, RecoveryFails(t) PROVE LockInv'
  BY <1>0, <1>8 DEF RecoveryFails, Answer
<1>9. ASSUME NEW t \in Tasks, TakeLock(t) PROVE LockInv'
  <2>1. lockGen[acct[t]] \in Int
    BY <1>0
  <2>2. lk' = [lk EXCEPT ![t] = lockGen[acct[t]]] /\ pc' = [pc EXCEPT ![t] = "queued"]
        /\ UNCHANGED <<acct, lockGen, owner>>
    BY <1>9 DEF TakeLock
  <2>3. lk'[t] <= lockGen'[acct'[t]]
    BY <1>0, <2>1, <2>2
  <2>4. ASSUME NEW u \in Tasks, u # t
        PROVE  pc'[u] = pc[u] /\ lk'[u] = lk[u] /\ acct'[u] = acct[u]
    BY <1>0, <2>2, <2>4
  <2> QED BY <1>0, <2>2, <2>3, <2>4
<1>10. ASSUME NEW t \in Tasks, Acquire(t) PROVE LockInv'
  <2>1. CASE Usable(mem[t], tnow[t])
    BY <1>0, <1>10, <2>1 DEF Acquire, Answer
  <2>2. CASE ~Usable(mem[t], tnow[t])
    <3>1. /\ pc[t] = "queued" /\ owner[acct[t]][lk[t]] = Free
          /\ pc' = [pc EXCEPT ![t] = "calling"]
          /\ owner' = [owner EXCEPT ![acct[t]][lk[t]] = t]
          /\ UNCHANGED <<acct, lk, lockGen>>
      BY <1>10, <2>2 DEF Acquire, Goto, Lock
    <3>2. ASSUME NEW u \in Tasks, u # t, Refreshing(u)
          PROVE  owner'[acct[u]][lk[u]] = u
      BY <1>0, <3>1, <3>2
    <3> QED BY <1>0, <3>1, <3>2
  <2> QED BY <2>1, <2>2
<1>11. ASSUME NEW t \in Tasks, ExchangeKey(t) PROVE LockInv'
  BY <1>0, <1>11 DEF ExchangeKey
<1>12. ASSUME NEW t \in Tasks, Exchange(t) PROVE LockInv'
  BY <1>0, <1>12 DEF Exchange
\* Leaving the critical section frees the task's own mutex only.
<1>13. ASSUME NEW t \in Tasks, Refreshing(t), Release(t), pc'[t] \in {"done", "idle"},
              pc' = [pc EXCEPT ![t] = pc'[t]],
              UNCHANGED <<acct, lockGen>>, \A u \in Tasks \ {t} : lk'[u] = lk[u]
       PROVE  LockInv'
  <2>1. ASSUME NEW u \in Tasks, u # t, Refreshing(u)
        PROVE  owner'[acct[u]][lk[u]] = u
    BY <1>0, <1>13, <2>1 DEF Release
  <2> QED BY <1>0, <1>13, <2>1
<1>14. ASSUME NEW t \in Tasks, ExchangeRefused(t) PROVE LockInv'
  BY <1>0, <1>13, <1>14 DEF ExchangeRefused, RefreshFails, Answer
<1>15. ASSUME NEW t \in Tasks, ExchangeLost(t) PROVE LockInv'
  BY <1>0, <1>13, <1>15 DEF ExchangeLost, RefreshFails, Answer
<1>16. ASSUME NEW t \in Tasks, NEW persisted \in BOOLEAN, Complete(t, persisted)
       PROVE  LockInv'
  BY <1>0, <1>13, <1>16 DEF Complete, Answer
<1>17. ASSUME NEW t \in Tasks, Cancel(t) PROVE LockInv'
  <2>1. CASE Refreshing(t)
    BY <1>0, <1>13, <1>17, <2>1 DEF Cancel, Vanish, Release
  <2>2. CASE ~Refreshing(t)
    BY <1>0, <1>17, <2>2 DEF Cancel, Vanish
  <2> QED BY <2>1, <2>2
<1>18. ASSUME NEW t \in Tasks, CancelDuringGrant(t) PROVE LockInv'
  BY <1>0, <1>13, <1>18 DEF CancelDuringGrant, Vanish
<1>19. ASSUME NEW t \in Tasks, Finish(t) PROVE LockInv'
  BY <1>0, <1>19 DEF Finish, Vanish
<1>20. ASSUME NEW a \in Accounts, ClearAccountState(a) PROVE LockInv'
  <2>1. \A b \in Accounts : lockGen[b] <= lockGen'[b] /\ lockGen'[b] \in Int
    <3>1. \A b \in Accounts : lockGen[b] \in Int
      BY <1>0
    <3>2. lockGen' = [lockGen EXCEPT ![a] = lockGen[a] + 1]
      BY <1>20 DEF ClearAccountState
    <3> QED BY <1>0, <3>1, <3>2
  <2>2. \A t \in Tasks : acct[t] \in Accounts /\ lk[t] \in Int /\ lockGen[acct[t]] \in Int
    BY <1>0
  <2> QED BY <1>20, <2>1, <2>2 DEF ClearAccountState, taskVars
<1>21. CASE Tick
  BY <1>0, <1>21 DEF Tick, taskVars
<1>22. CASE UNCHANGED vars
  BY <1>0, <1>22 DEF vars, taskVars
<1> QED
  BY <1>1, <1>2, <1>3, <1>4, <1>5, <1>6, <1>7, <1>8, <1>9, <1>10, <1>11, <1>12, <1>14,
     <1>15, <1>16, <1>17, <1>18, <1>19, <1>20, <1>21, <1>22 DEF Next, CallStep, Abort

LEMMA LockInvSerialises == TypeOK /\ LockInv => RefreshesSerialised
<1> SUFFICES ASSUME TypeOK, LockInv,
                    NEW t \in Tasks, NEW u \in Tasks,
                    Refreshing(t), Refreshing(u), t # u, acct[t] = acct[u]
             PROVE  /\ lk[t] # lk[u]
                    /\ lk[t] < lockGen[acct[t]] \/ lk[u] < lockGen[acct[u]]
  BY DEF RefreshesSerialised
<1>1. lk[t] \in Nat /\ lk[u] \in Nat /\ lockGen[acct[t]] \in Nat
  BY Constants DEF TypeOK, Typed, Generation
<1>2. owner[acct[t]][lk[t]] = t /\ owner[acct[u]][lk[u]] = u
  BY DEF LockInv
<1>3. lk[t] <= lockGen[acct[t]] /\ lk[u] <= lockGen[acct[u]]
  BY DEF LockInv
<1> QED BY <1>1, <1>2, <1>3

\* At most one task per mutex is between the call of the provider and the end
\* of the write; two at once need a mutex that clear_account_state dropped.
THEOREM MutualExclusion == Spec => []RefreshesSerialised
<1>1. Init => LockInv
  BY LockInvInit
<1> QED BY <1>1, LockInvNext, LockInvSerialises, TypeCorrect, PTL DEF Spec

----------------------------------------------------------------------------
(* Backoff *)

\* Only CheckBackoff and the failure of a refresh put a record into the map;
\* the former never changes a timestamp.
LEMMA BackoffStep ==
    ASSUME TypeOK, [Next]_vars,
           NEW a \in Accounts,
           failures'[a] \notin {NoFailure, failures[a]},
           failures'[a].ts # failures[a].ts
    PROVE  \E t \in Tasks : acct[t] = a /\ Refreshing(t) /\ ~Refreshing(t)'
<1> USE DEF backoffVars
<1>0. /\ failures \in [Accounts -> FailureRecord \cup {NoFailure}]
      /\ acct \in [Tasks -> Accounts] /\ pc \in [Tasks -> PCs]
  BY DEF TypeOK, Typed
<1>1. ASSUME NEW t \in Tasks, CheckBackoff(t) PROVE FALSE
  <2>1. CleanedFailures \in [Accounts -> FailureRecord \cup {NoFailure}]
    BY CleanedFailuresType
  <2>2. CleanedFailures[a] \in {NoFailure, failures[a]}
    BY <1>0 DEF CleanedFailures
  <2>3. failures'[a] \in {CleanedFailures[a], Bumped(CleanedFailures[a])}
    BY <1>0, <1>1, <2>1 DEF CheckBackoff
  <2>4. CASE InBackoff(CleanedFailures[acct[t]]) /\ acct[t] = a
    <3>1. CleanedFailures[a] = failures[a] /\ failures[a] \in FailureRecord
      BY <1>0, <2>2, <2>4 DEF InBackoff
    <3>2. Bumped(failures[a]).ts = failures[a].ts
      BY <3>1 DEF Bumped, FailureRecord
    <3> QED BY <2>3, <3>1, <3>2
  <2>5. CASE ~(InBackoff(CleanedFailures[acct[t]]) /\ acct[t] = a)
    <3>1. failures'[a] = CleanedFailures[a]
      BY <1>0, <1>1, <2>1, <2>5 DEF CheckBackoff
    <3> QED BY <2>2, <3>1
  <2> QED BY <2>4, <2>5
<1>2. ASSUME NEW b \in Accounts, Forget(b) PROVE FALSE
  BY <1>0, <1>2 DEF Forget
<1>3. ASSUME NEW t \in Tasks, RefreshFails(t), pc[t] = "calling"
      PROVE  \E u \in Tasks : acct[u] = a /\ Refreshing(u) /\ ~Refreshing(u)'
  <2>1. acct[t] = a
    BY <1>0, <1>3 DEF RefreshFails
  <2>2. pc'[t] = "done"
    BY <1>0, <1>3 DEF RefreshFails, Answer
  <2> QED BY <1>3, <2>1, <2>2 DEF Refreshing
<1>4. failures' # failures
  OBVIOUS
<1>5. CASE \E t \in Tasks : ExchangeRefused(t) \/ ExchangeLost(t)
  BY <1>3, <1>5 DEF ExchangeRefused, ExchangeLost
<1>6. CASE \E t \in Tasks : \/ DropExpiredRecord(t) \/ RecoverFromDb(t)
                            \/ \E persisted \in BOOLEAN : Complete(t, persisted)
  BY <1>0, <1>2, <1>6 DEF DropExpiredRecord, RecoverFromDb, Complete
<1>7. CASE \E b \in Accounts : ClearAccountState(b)
  BY <1>2, <1>7 DEF ClearAccountState
<1>8. ASSUME NEW t \in Tasks,
             \/ \E b \in Accounts : CloneCached(t, b) \/ ReadAccounts(t, b)
             \/ StoreAccounts(t) \/ AnswerDirectly(t) \/ RecoveryFails(t)
             \/ TakeLock(t) \/ Acquire(t) \/ ExchangeKey(t) \/ Exchange(t)
             \/ Cancel(t) \/ CancelDuringGrant(t) \/ Finish(t)
      PROVE  UNCHANGED failures
  BY <1>8 DEF CloneCached, ReadAccounts, StoreAccounts, AnswerDirectly, RecoveryFails,
              TakeLock, Acquire, ExchangeKey, Exchange, Cancel, CancelDuringGrant, Finish
<1>9. CASE Tick \/ UNCHANGED vars
  BY <1>4, <1>9 DEF Tick, vars
<1> QED
  BY <1>1, <1>4, <1>5, <1>6, <1>7, <1>8, <1>9 DEF Next, CallStep, Abort

\* A rejected request never moves the timestamp of a failure record: backoff
\* ends one period after the failure of a refresh.
THEOREM BackoffEnds == Spec => BackoffNotExtended
<1>1. TypeOK /\ [Next]_vars =>
        [\A a \in Accounts :
            failures'[a] \notin {NoFailure, failures[a]}
            /\ failures'[a].ts # failures[a].ts
               => \E t \in Tasks : acct[t] = a /\ Refreshing(t) /\ ~Refreshing(t)']_vars
  BY BackoffStep
<1> QED BY <1>1, TypeCorrect, PTL DEF Spec, BackoffNotExtended

----------------------------------------------------------------------------
(* The lifetime of a token handed out *)

\* A credential outlasts the safety window, seen from instant n.
Outlasts(c, n) == c.exp - n > SafetyWindow

\* A task's `now` is never ahead of the clock, and what it got from the provider
\* or hands to its caller outlasts the window that starts there.
WindowInv ==
    \A t \in Tasks :
        /\ tnow[t] <= clock
        /\ pc[t] = "exchanged" => Outlasts(got[t], tnow[t])
        /\ pc[t] = "done" /\ ans[t] = "token" => Outlasts(mem[t], tnow[t])

LEMMA WindowInvInit == Init => WindowInv
BY DEF Init, WindowInv

\* An action of task t leaves the others' part alone: what is left to show is
\* the part of t.
LEMMA WindowInvFrame ==
    ASSUME TypeOK, WindowInv, NEW t \in Tasks, clock' = clock,
           \A u \in Tasks \ {t} :
              /\ pc'[u] = pc[u] /\ tnow'[u] = tnow[u] /\ got'[u] = got[u]
              /\ ans'[u] = ans[u] /\ mem'[u] = mem[u],
           tnow'[t] <= clock,
           pc'[t] = "exchanged" => Outlasts(got'[t], tnow'[t]),
           pc'[t] = "done" /\ ans'[t] = "token" => Outlasts(mem'[t], tnow'[t])
    PROVE  WindowInv'
BY DEF WindowInv, Outlasts

LEMMA WindowInvNext == TypeOK /\ WindowInv /\ [Next]_vars => WindowInv'
<1> SUFFICES ASSUME TypeOK, WindowInv, [Next]_vars PROVE WindowInv'
  OBVIOUS
<1>0. /\ pc \in [Tasks -> PCs] /\ tnow \in [Tasks -> 0..MaxTime] /\ mem \in [Tasks -> Cred]
      /\ got \in [Tasks -> Cred] /\ ans \in [Tasks -> Answers] /\ clock \in 0..MaxTime
      /\ db \in [Accounts -> Cred] /\ acct \in [Tasks -> Accounts]
  BY DEF TypeOK, Typed
<1>a. \A t \in Tasks :
        /\ tnow[t] <= clock
        /\ pc[t] = "exchanged" => Outlasts(got[t], tnow[t])
        /\ pc[t] = "done" /\ ans[t] = "token" => Outlasts(mem[t], tnow[t])
  BY DEF WindowInv
<1>n. clock \in Int /\ SafetyWindow \in Int /\ TokenLife \in Int
      /\ \A t \in Tasks : tnow[t] \in Int
  BY <1>0, Constants
<1>1. ASSUME NEW t \in Tasks, NEW a \in Accounts, CloneCached(t, a) PROVE WindowInv'
  BY <1>0, <1>a, <1>1, WindowInvFrame DEF CloneCached
<1>2. ASSUME NEW t \in Tasks, NEW a \in Accounts, ReadAccounts(t, a) PROVE WindowInv'
  BY <1>0, <1>a, <1>2, WindowInvFrame DEF ReadAccounts
<1>3. ASSUME NEW t \in Tasks, StoreAccounts(t) PROVE WindowInv'
  BY <1>0, <1>a, <1>3, WindowInvFrame DEF StoreAccounts
<1>4. ASSUME NEW t \in Tasks, AnswerDirectly(t) PROVE WindowInv'
  <2>1. DirectAnswer(acct[t], mem[t], clock) = "token" => Outlasts(mem[t], clock)
    BY DEF DirectAnswer, Usable, Outlasts
  <2> QED BY <1>0, <1>4, <1>n, <2>1, WindowInvFrame DEF AnswerDirectly
<1>5. ASSUME NEW t \in Tasks, CheckBackoff(t) PROVE WindowInv'
  <2>1. pc'[t] # "exchanged" /\ ans'[t] # "token" /\ tnow'[t] = clock
    BY <1>0, <1>5 DEF CheckBackoff
  <2>2. \A u \in Tasks \ {t} : /\ pc'[u] = pc[u] /\ tnow'[u] = tnow[u] /\ got'[u] = got[u]
                              /\ ans'[u] = ans[u] /\ mem'[u] = mem[u]
    BY <1>0, <1>5 DEF CheckBackoff
  <2>3. clock' = clock
    BY <1>5 DEF CheckBackoff
  <2> QED BY <1>n, <2>1, <2>2, <2>3, WindowInvFrame
<1>6. ASSUME NEW t \in Tasks, DropExpiredRecord(t) PROVE WindowInv'
  BY <1>0, <1>a, <1>6, WindowInvFrame DEF DropExpiredRecord, Goto
<1>7. ASSUME NEW t \in Tasks, RecoverFromDb(t) PROVE WindowInv'
  <2>1. db[acct[t]] \in Cred /\ Outlasts(db[acct[t]], tnow[t])
    BY <1>0, <1>7 DEF RecoverFromDb, Recoverable, Usable, Outlasts
  <2>2. mem'[t].exp = db[acct[t]].exp
    BY <1>0, <1>7, <2>1 DEF RecoverFromDb, Answer, Cred
  <2> QED BY <1>0, <1>a, <1>7, <2>1, <2>2, WindowInvFrame DEF RecoverFromDb, Answer, Outlasts
<1>8. ASSUME NEW t \in Tasks, RecoveryFails(t) PROVE WindowInv'
  BY <1>0, <1>a, <1>8, WindowInvFrame DEF RecoveryFails, Answer
<1>9. ASSUME NEW t \in Tasks, TakeLock(t) PROVE WindowInv'
  BY <1>0, <1>a, <1>9, WindowInvFrame DEF TakeLock
<1>10. ASSUME NEW t \in Tasks, Acquire(t) PROVE WindowInv'
  <2>1. CASE Usable(mem[t], tnow[t])
    <3>1. Outlasts(mem[t], tnow[t])
      BY <2>1 DEF Usable, Outlasts
    <3> QED BY <1>0, <1>a, <1>10, <2>1, <3>1, WindowInvFrame DEF Acquire, Answer
  <2>2. CASE ~Usable(mem[t], tnow[t])
    BY <1>0, <1>a, <1>10, <2>2, WindowInvFrame DEF Acquire, Goto
  <2> QED BY <2>1, <2>2
\* A token that was just issued lives longer than the window.
<1>11. ASSUME NEW t \in Tasks, NEW c \in Cred, c.exp = clock + TokenLife
       PROVE  Outlasts(c, tnow[t])
  BY <1>a, <1>n, <1>11, Constants DEF Outlasts
<1>12. ASSUME NEW t \in Tasks, ExchangeKey(t) PROVE WindowInv'
  <2>1. [at |-> 1, exp |-> clock + TokenLife, rt |-> Null] \in Cred
    BY <1>0, Constants DEF Cred, Token, Time, Null
  <2>2. Outlasts([at |-> 1, exp |-> clock + TokenLife, rt |-> Null], tnow[t])
    BY <1>11, <2>1
  <2> QED BY <1>0, <1>a, <1>12, <2>2, WindowInvFrame DEF ExchangeKey
<1>13. ASSUME NEW t \in Tasks, Exchange(t) PROVE WindowInv'
  <2>1. Granted(acct[t], mem[t].rt) \in Cred
    BY <1>0, <1>13, GrantType DEF Exchange, Cred
  <2>2. Outlasts(Granted(acct[t], mem[t].rt), tnow[t])
    BY <1>11, <2>1 DEF Granted
  <2> QED BY <1>0, <1>a, <1>13, <2>2, WindowInvFrame DEF Exchange
<1>14. ASSUME NEW t \in Tasks, ExchangeRefused(t) \/ ExchangeLost(t) PROVE WindowInv'
  BY <1>0, <1>a, <1>14, WindowInvFrame DEF ExchangeRefused, ExchangeLost, RefreshFails, Answer
<1>15. ASSUME NEW t \in Tasks, NEW persisted \in BOOLEAN, Complete(t, persisted)
       PROVE  WindowInv'
  <2>1. got[t] \in Cred /\ Outlasts(got[t], tnow[t])
    BY <1>0, <1>a, <1>15 DEF Complete
  <2>2. mem'[t].exp = got[t].exp
    BY <1>0, <1>15, <2>1 DEF Complete, Answer, Cred
  <2> QED BY <1>0, <1>a, <1>15, <2>1, <2>2, WindowInvFrame DEF Complete, Answer, Outlasts
<1>16. ASSUME NEW t \in Tasks, Cancel(t) \/ CancelDuringGrant(t) \/ Finish(t)
       PROVE  WindowInv'
  BY <1>0, <1>16, <1>n, WindowInvFrame DEF Cancel, CancelDuringGrant, Finish, Vanish
<1>17. CASE \E a \in Accounts : ClearAccountState(a)
  BY <1>17 DEF ClearAccountState, taskVars, WindowInv, Outlasts
<1>18. CASE Tick
  BY <1>18, <1>n DEF Tick, taskVars, WindowInv, Outlasts
<1>19. CASE UNCHANGED vars
  BY <1>19 DEF vars, taskVars, WindowInv, Outlasts
<1> QED
  BY <1>1, <1>2, <1>3, <1>4, <1>5, <1>6, <1>7, <1>8, <1>9, <1>10, <1>12, <1>13, <1>14,
     <1>15, <1>16, <1>17, <1>18, <1>19 DEF Next, CallStep, Abort

\* A token the caller gets is valid for the safety window from the instant the
\* decision was taken: waiting for the mutex or the provider up to that long
\* does not make the answer an expired token.
THEOREM WindowCoversWait == Spec => []TokenOutlivesWait
<1>1. TypeOK /\ WindowInv => TokenOutlivesWait
  <2> SUFFICES ASSUME TypeOK, WindowInv, NEW t \in Tasks,
                      pc[t] = "done", ans[t] = "token", clock - tnow[t] <= SafetyWindow
               PROVE  clock < mem[t].exp
    BY DEF TokenOutlivesWait
  <2>1. clock \in Int /\ tnow[t] \in Int /\ mem[t].exp \in Int /\ SafetyWindow \in Int
    BY Constants DEF TypeOK, Typed, Cred, Time
  <2>2. mem[t].exp - tnow[t] > SafetyWindow
    BY DEF WindowInv, Outlasts
  <2> QED BY <2>1, <2>2
<1> QED BY <1>1, WindowInvInit, WindowInvNext, TypeCorrect, PTL DEF Spec

----------------------------------------------------------------------------
(* The rows: tokens never go back, a consumed refresh token does not stay *)

\* The refresh tokens of account a that a row, a cached or a loaded row, or the
\* clone of a task holds.
Known(a) ==
    {r \in Token : \/ r = db[a].rt
                   \/ r = cached[a].rt
                   \/ \E u \in Tasks : r = load[u][a].rt
                   \/ \E u \in Tasks : acct[u] = a /\ r = mem[u].rt}

\* A task holds tokens only while it works on them.
HandsInv ==
    \A t \in Tasks :
        /\ pc[t] \in {"idle", "loading"} => mem[t] = NoCred
        /\ pc[t] # "exchanged" => got[t] = NoCred

\* Every token is one of the grants made so far.
IssuedInv ==
    /\ \A a \in Accounts : db[a].at <= issued[a] /\ \A r \in Known(a) : r <= issued[a]
    /\ \A t \in Tasks : got[t].at <= issued[acct[t]] /\ got[t].rt <= issued[acct[t]]

\* The refresh token a task has just been granted is accepted by the provider
\* and, if it rotated, known to that task alone.
GrantInv ==
    \A t \in Tasks :
        pc[t] = "exchanged" /\ acct[t] \in OAuthOnly =>
            /\ got[t].rt \in live[acct[t]]
            /\ kind[acct[t]] = "rotating" =>
                  /\ got[t].rt \notin Known(acct[t])
                  /\ \A u \in Tasks \ {t} : acct[u] = acct[t] => got[u].rt # got[t].rt

\* Without a dropped mutex a task's grant is newer than the row.
NewerInv ==
    \A t \in Tasks :
        pc[t] = "exchanged" /\ acct[t] \in OAuthOnly /\ lockGen[acct[t]] = 0
            => db[acct[t]].at <= got[t].at

RowInv == HandsInv /\ IssuedInv /\ GrantInv /\ NewerInv /\ RotationReachesRow

\* The types RowInv is about.
LEMMA RowTypes ==
    ASSUME TypeOK
    PROVE  /\ db \in [Accounts -> Cred] /\ cached \in [Accounts -> Cred]
           /\ load \in [Tasks -> [Accounts -> Cred]]
           /\ mem \in [Tasks -> Cred] /\ got \in [Tasks -> Cred]
           /\ acct \in [Tasks -> Accounts] /\ pc \in [Tasks -> PCs]
           /\ issued \in [Accounts -> 1..MaxIssued]
           /\ live \in [Accounts -> SUBSET (1..MaxIssued)]
           /\ kind \in [Accounts -> Kinds]
           /\ dropped \in [Accounts -> BOOLEAN]
           /\ lockGen \in [Accounts -> Generation] /\ lk \in [Tasks -> Generation]
BY DEF TypeOK, Typed

LEMMA RowInvInit == Init => RowInv
<1> SUFFICES ASSUME Init PROVE RowInv
  OBVIOUS
<1>1. HandsInv /\ GrantInv /\ NewerInv
  BY DEF Init, HandsInv, GrantInv, NewerInv
<1>2. IssuedInv
  BY DEF Init, IssuedInv, Known, NoCred, Null
<1>3. RotationReachesRow
  BY DEF Init, RotationReachesRow, OAuthOnly
<1> QED BY <1>1, <1>2, <1>3 DEF RowInv

----------------------------------------------------------------------------
(* The effects a step can have on rows and tokens *)

\* No row is written and no task gets new tokens.  A refresh token that is
\* consumed, or in the hands of a task that gives up, is lost, and `dropped`
\* says so.
Quiet ==
    /\ UNCHANGED <<kind, db>>
    /\ \A a \in Accounts :
          /\ Known(a)' \subseteq Known(a) \cup {Null}
          /\ lockGen'[a] = 0 => lockGen[a] = 0
          /\ dropped[a] => dropped'[a]
          /\ issued[a] <= issued'[a]
          /\ \A r \in live[a] \ live'[a] :
                r \in Known(a) /\ dropped'[a] /\ kind[a] = "rotating"
          /\ \A r \in live'[a] \ live[a] : issued[a] < r /\ r <= issued'[a]
    /\ \A t \in Tasks :
          /\ pc'[t] \in {"idle", "loading"} => mem'[t] = NoCred
          /\ \/ /\ pc[t] = "exchanged" /\ pc'[t] = "exchanged"
                /\ got'[t] = got[t] /\ acct'[t] = acct[t] /\ lk'[t] = lk[t]
             \/ pc'[t] # "exchanged" /\ got'[t] = NoCred
          /\ pc[t] = "exchanged" /\ pc'[t] # "exchanged" => dropped'[acct[t]]

LEMMA QuietKeepsRowInv ==
    ASSUME TypeOK, TypeOK', RowInv, Quiet
    PROVE  RowInv'
<1>0. \A a \in Accounts : issued[a] \in Nat /\ issued'[a] \in Nat /\ issued[a] >= 1
  BY RowTypes, Constants DEF TypeOK, Typed
<1>1. HandsInv'
  BY DEF Quiet, HandsInv
<1>2. IssuedInv'
  <2>1. ASSUME NEW a \in Accounts
        PROVE  db'[a].at <= issued'[a] /\ \A r \in Known(a)' : r <= issued'[a]
    <3>1. db[a].at \in Nat /\ Known(a) \subseteq Nat
      BY RowTypes, Constants DEF Known, Cred, Token
    <3>2. db[a].at <= issued[a] /\ \A r \in Known(a) : r <= issued[a]
      BY DEF RowInv, IssuedInv
    <3>3. db'[a] = db[a] /\ issued[a] <= issued'[a] /\ Known(a)' \subseteq Known(a) \cup {Null}
      BY DEF Quiet
    <3>4. \A r \in Known(a)' : r \in Nat /\ (r = 0 \/ r <= issued[a])
      BY <3>1, <3>2, <3>3 DEF Null
    <3> QED BY <1>0, <3>1, <3>2, <3>3, <3>4
  <2>2. ASSUME NEW t \in Tasks
        PROVE  got'[t].at <= issued'[acct'[t]] /\ got'[t].rt <= issued'[acct'[t]]
    <3>1. acct'[t] \in Accounts /\ acct[t] \in Accounts
      BY RowTypes DEF TypeOK, Typed
    <3>2. CASE got'[t] = got[t] /\ acct'[t] = acct[t]
      <4>1. got[t].at \in Nat /\ got[t].rt \in Nat
        BY RowTypes, Constants DEF Cred, Token
      <4>2. got[t].at <= issued[acct[t]] /\ got[t].rt <= issued[acct[t]]
        BY DEF RowInv, IssuedInv
      <4>3. issued[acct[t]] <= issued'[acct[t]]
        BY <3>1 DEF Quiet
      <4> QED BY <1>0, <3>1, <3>2, <4>1, <4>2, <4>3
    <3>3. CASE got'[t] = NoCred
      BY <1>0, <3>1, <3>3 DEF NoCred, Null
    <3> QED BY <3>2, <3>3 DEF Quiet
  <2> QED BY <2>1, <2>2 DEF IssuedInv
<1>3. ASSUME NEW t \in Tasks, pc'[t] = "exchanged", acct'[t] \in OAuthOnly'
      PROVE  /\ pc[t] = "exchanged" /\ acct[t] \in OAuthOnly
             /\ got'[t] = got[t] /\ acct'[t] = acct[t]
  BY <1>3 DEF Quiet, OAuthOnly
<1>4. GrantInv'
  <2> SUFFICES ASSUME NEW t \in Tasks, pc'[t] = "exchanged", acct'[t] \in OAuthOnly'
               PROVE  /\ got'[t].rt \in live'[acct'[t]]
                      /\ kind'[acct'[t]] = "rotating" =>
                            /\ got'[t].rt \notin Known(acct[t])'
                            /\ \A u \in Tasks \ {t} :
                                  acct'[u] = acct'[t] => got'[u].rt # got'[t].rt
    BY <1>3 DEF GrantInv, Known
  <2>1. /\ got'[t] = got[t] /\ acct'[t] = acct[t] /\ acct[t] \in Accounts
        /\ got[t].rt \in live[acct[t]]
        /\ kind[acct[t]] = "rotating" =>
              /\ got[t].rt \notin Known(acct[t])
              /\ \A u \in Tasks \ {t} : acct[u] = acct[t] => got[u].rt # got[t].rt
    BY <1>3, RowTypes DEF RowInv, GrantInv
  <2>2. got[t].rt \in live'[acct[t]]
    BY <2>1 DEF Quiet
  <2>3. got[t].rt # Null
    BY <2>1, RowTypes, Constants DEF Null
  <2>4. ASSUME kind'[acct'[t]] = "rotating"
        PROVE  /\ got'[t].rt \notin Known(acct[t])'
               /\ \A u \in Tasks \ {t} : acct'[u] = acct'[t] => got'[u].rt # got'[t].rt
    <3>1. kind[acct[t]] = "rotating"
      BY <2>1, <2>4 DEF Quiet
    <3>2. got'[t].rt \notin Known(acct[t])'
      BY <2>1, <2>3, <3>1 DEF Quiet
    <3>3. ASSUME NEW u \in Tasks \ {t}, acct'[u] = acct'[t] PROVE got'[u].rt # got'[t].rt
      BY <2>1, <2>3, <3>1, <3>3 DEF Quiet, NoCred
    <3> QED BY <3>2, <3>3
  <2> QED BY <2>1, <2>2, <2>4
<1>5. NewerInv'
  BY <1>3, RowTypes DEF Quiet, RowInv, NewerInv
<1>6. RotationReachesRow'
  <2> SUFFICES ASSUME NEW a \in OAuthOnly
               PROVE  \/ db'[a].rt \in live'[a]
                      \/ dropped'[a]
                      \/ \E t \in Tasks : acct'[t] = a /\ pc'[t] = "exchanged"
    BY DEF RotationReachesRow, Quiet, OAuthOnly
  <2>1. a \in Accounts
    BY DEF OAuthOnly
  <2>2. CASE db[a].rt \in live[a]
    BY <2>1, <2>2 DEF Quiet
  <2>3. CASE dropped[a]
    BY <2>1, <2>3 DEF Quiet
  <2>4. CASE \E t \in Tasks : acct[t] = a /\ pc[t] = "exchanged"
    BY <2>1, <2>4 DEF Quiet
  <2> QED BY <2>2, <2>3, <2>4 DEF RowInv, RotationReachesRow
<1> QED BY <1>1, <1>2, <1>4, <1>5, <1>6 DEF RowInv


\* The provider made a grant and task t has it: its refresh token is one nobody
\* knew.
LEMMA ExchangeKeepsRowInv ==
    ASSUME TypeOK, TypeOK', RowInv, NEW t \in Tasks, Exchange(t)
    PROVE  RowInv'
<1> DEFINE a == acct[t]
           r == mem[t].rt
<1>0. /\ a \in Accounts /\ a \notin Keyed /\ pc[t] = "calling" /\ Grant(a, r)
      /\ pc' = [pc EXCEPT ![t] = "exchanged"]
      /\ got' = [got EXCEPT ![t] = Granted(a, r)]
      /\ UNCHANGED <<kind, db, cached, load, mem, acct, lockGen, dropped>>
  BY RowTypes DEF Exchange, cacheVars, lockVars
<1>1. /\ issued[a] \in Nat /\ issued[a] >= 1 /\ issued' = [issued EXCEPT ![a] = issued[a] + 1]
      /\ \A b \in Accounts : issued[b] \in Nat /\ issued'[b] \in Nat /\ issued[b] <= issued'[b]
      /\ r \in live[a]
      /\ live' = [live EXCEPT ![a] =
                    IF kind[a] = "rotating" THEN (live[a] \ {r}) \cup {issued[a] + 1}
                    ELSE live[a]]
  BY <1>0, RowTypes, Constants DEF Grant
<1>2. \A b \in Accounts : Known(b)' = Known(b) /\ Known(b) \subseteq Nat
  BY <1>0, Constants DEF Known, Token
<1>3. r \in Known(a)
  BY <1>0, RowTypes DEF Known, Cred
<1>4. /\ got'[t] = Granted(a, r) /\ pc'[t] = "exchanged"
      /\ \A u \in Tasks \ {t} : got'[u] = got[u] /\ pc'[u] = pc[u]
  BY <1>0, RowTypes
<1>5. HandsInv'
  BY <1>0, <1>4 DEF RowInv, HandsInv
<1>6. r <= issued[a] /\ r \in Nat
  BY <1>0, <1>2, <1>3 DEF RowInv, IssuedInv
<1>7. IssuedInv'
  <2>1. ASSUME NEW b \in Accounts
        PROVE  db'[b].at <= issued'[b] /\ \A k \in Known(b)' : k <= issued'[b]
    <3>1. db[b].at \in Nat
      BY RowTypes, Constants DEF Cred, Token
    <3> QED BY <1>0, <1>1, <1>2, <3>1 DEF RowInv, IssuedInv
  <2>2. ASSUME NEW u \in Tasks
        PROVE  got'[u].at <= issued'[acct'[u]] /\ got'[u].rt <= issued'[acct'[u]]
    <3>1. acct[u] \in Accounts /\ got[u].at \in Nat /\ got[u].rt \in Nat
      BY RowTypes, Constants DEF Cred, Token
    <3>2. CASE u = t
      <4>1. issued'[a] = issued[a] + 1
        BY <1>0, <1>1, RowTypes
      <4>2. got'[t].at = issued[a] + 1 /\ got'[t].rt \in {issued[a] + 1, r}
        BY <1>4 DEF Granted
      <4> QED BY <1>0, <1>1, <1>6, <3>2, <4>1, <4>2
    <3>3. CASE u # t
      BY <1>0, <1>1, <1>4, <3>1, <3>3 DEF RowInv, IssuedInv
    <3> QED BY <3>2, <3>3
  <2> QED BY <2>1, <2>2 DEF IssuedInv
<1>8. GrantInv'
  <2> SUFFICES ASSUME NEW u \in Tasks, pc'[u] = "exchanged", acct[u] \in OAuthOnly
               PROVE  /\ got'[u].rt \in live'[acct[u]]
                      /\ kind[acct[u]] = "rotating" =>
                            /\ got'[u].rt \notin Known(acct[u])
                            /\ \A v \in Tasks \ {u} :
                                  acct[v] = acct[u] => got'[v].rt # got'[u].rt
    BY <1>0, <1>2, RowTypes DEF GrantInv, OAuthOnly, Known
  <2>1. CASE u = t
    <3>1. CASE kind[a] = "rotating"
      <4>1. got'[t].rt = issued[a] + 1
        BY <1>4, <3>1 DEF Granted
      <4>2. issued[a] + 1 \in live'[a]
        BY <1>0, <1>1, <3>1, RowTypes
      <4>3. issued[a] + 1 \notin Known(a)
        BY <1>0, <1>1, <1>2 DEF RowInv, IssuedInv
      <4>4. ASSUME NEW v \in Tasks \ {t}, acct[v] = a PROVE got'[v].rt # issued[a] + 1
        <5>1. got[v].rt \in Nat /\ got[v].rt <= issued[a]
          BY <4>4, RowTypes, Constants DEF RowInv, IssuedInv, Cred, Token
        <5> QED BY <1>1, <1>4, <5>1
      <4> QED BY <2>1, <4>1, <4>2, <4>3, <4>4
    <3>2. CASE kind[a] # "rotating"
      BY <1>0, <1>1, <1>4, <2>1, <3>2, RowTypes DEF Granted
    <3> QED BY <3>1, <3>2
  <2>2. CASE u # t
    <3>1. /\ got'[u] = got[u] /\ acct[u] \in Accounts /\ got[u].rt \in live[acct[u]]
          /\ kind[acct[u]] = "rotating" =>
                /\ got[u].rt \notin Known(acct[u])
                /\ \A v \in Tasks \ {u} : acct[v] = acct[u] => got[v].rt # got[u].rt
      BY <1>4, <2>2, RowTypes DEF RowInv, GrantInv
    <3>2. got[u].rt \in live'[acct[u]]
      BY <1>0, <1>1, <1>3, <3>1, RowTypes
    <3>3. ASSUME kind[acct[u]] = "rotating", NEW v \in Tasks \ {u}, acct[v] = acct[u]
          PROVE  got'[v].rt # got'[u].rt
      <4>1. CASE v # t
        BY <1>4, <3>1, <3>3, <4>1
      <4>2. CASE v = t
        <5>1. got'[t].rt = issued[a] + 1
          BY <1>4, <3>3, <4>2 DEF Granted
        <5>2. got[u].rt \in Nat /\ got[u].rt <= issued[a]
          BY <3>3, <4>2, RowTypes, Constants DEF RowInv, IssuedInv, Cred, Token
        <5> QED BY <1>1, <3>1, <4>2, <5>1, <5>2
      <4> QED BY <4>1, <4>2
    <3> QED BY <3>1, <3>2, <3>3
  <2> QED BY <2>1, <2>2
<1>9. NewerInv'
  <2> SUFFICES ASSUME NEW u \in Tasks, pc'[u] = "exchanged", acct[u] \in OAuthOnly,
                      lockGen[acct[u]] = 0
               PROVE  db[acct[u]].at <= got'[u].at
    BY <1>0 DEF NewerInv, OAuthOnly
  <2>1. CASE u = t
    <3>1. db[a].at \in Nat /\ db[a].at <= issued[a]
      BY <1>0, RowTypes, Constants DEF RowInv, IssuedInv, Cred, Token
    <3> QED BY <1>1, <1>4, <2>1, <3>1 DEF Granted
  <2>2. CASE u # t
    BY <1>4, <2>2 DEF RowInv, NewerInv
  <2> QED BY <2>1, <2>2
<1>10. RotationReachesRow'
  <2> SUFFICES ASSUME NEW b \in OAuthOnly
               PROVE  \/ db[b].rt \in live'[b]
                      \/ dropped[b]
                      \/ \E u \in Tasks : acct[u] = b /\ pc'[u] = "exchanged"
    BY <1>0 DEF RotationReachesRow, OAuthOnly
  <2>1. CASE b = a
    BY <1>4, <2>1
  <2>2. CASE b # a
    <3>1. b \in Accounts /\ live'[b] = live[b]
      BY <1>1, <2>2, RowTypes DEF OAuthOnly
    <3> QED BY <1>4, <3>1 DEF RowInv, RotationReachesRow
  <2> QED BY <2>1, <2>2
<1> QED BY <1>5, <1>7, <1>8, <1>9, <1>10 DEF RowInv


\* A keyed account gets its key: not an account the invariant is about.
LEMMA ExchangeKeyKeepsRowInv ==
    ASSUME TypeOK, TypeOK', RowInv, NEW t \in Tasks, ExchangeKey(t)
    PROVE  RowInv'
<1>0. /\ acct[t] \in Keyed /\ acct[t] \in Accounts /\ pc[t] = "calling"
      /\ pc' = [pc EXCEPT ![t] = "exchanged"]
      /\ got' = [got EXCEPT ![t] = [at |-> 1, exp |-> clock + TokenLife, rt |-> Null]]
      /\ UNCHANGED <<kind, db, cached, load, mem, acct, lockGen, dropped, issued, live>>
  BY RowTypes DEF ExchangeKey, cacheVars, lockVars, providerVars
<1>1. acct[t] \notin OAuthOnly
  BY <1>0 DEF Keyed, OAuthOnly
<1>2. /\ got'[t].at = 1 /\ got'[t].rt = 0 /\ pc'[t] = "exchanged"
      /\ \A u \in Tasks \ {t} : got'[u] = got[u] /\ pc'[u] = pc[u]
  BY <1>0, RowTypes DEF Null
<1>3. \A b \in Accounts : Known(b)' = Known(b)
  BY <1>0 DEF Known
<1>4. OAuthOnly' = OAuthOnly
  BY <1>0 DEF OAuthOnly
<1>5. HandsInv'
  BY <1>0, <1>2 DEF RowInv, HandsInv
<1>6. IssuedInv'
  <2>1. issued[acct[t]] \in Nat /\ issued[acct[t]] >= 1
    BY <1>0, RowTypes, Constants
  <2> QED BY <1>0, <1>2, <1>3, <2>1 DEF RowInv, IssuedInv
<1>7. GrantInv'
  <2> SUFFICES ASSUME NEW u \in Tasks, pc'[u] = "exchanged", acct[u] \in OAuthOnly
               PROVE  /\ got'[u].rt \in live[acct[u]]
                      /\ kind[acct[u]] = "rotating" =>
                            /\ got'[u].rt \notin Known(acct[u])
                            /\ \A v \in Tasks \ {u} :
                                  acct[v] = acct[u] => got'[v].rt # got'[u].rt
    BY <1>0, <1>3, <1>4, RowTypes DEF GrantInv, Known
  <2>1. u # t /\ \A v \in Tasks : acct[v] = acct[u] => v # t
    BY <1>1
  <2> QED BY <1>2, <2>1 DEF RowInv, GrantInv
<1>8. NewerInv'
  BY <1>0, <1>1, <1>2, <1>4 DEF RowInv, NewerInv
<1>9. RotationReachesRow'
  BY <1>0, <1>2, <1>4 DEF RowInv, RotationReachesRow
<1> QED BY <1>5, <1>6, <1>7, <1>8, <1>9 DEF RowInv

\* Task t writes its tokens to the row, or drops them.
LEMMA CompleteKeepsRowInv ==
    ASSUME TypeOK, TypeOK', RefreshesSerialised, RowInv,
           NEW t \in Tasks, NEW persisted \in BOOLEAN, Complete(t, persisted)
    PROVE  RowInv'
<1> DEFINE a == acct[t]
<1>0. /\ a \in Accounts /\ pc[t] = "exchanged" /\ pc' = [pc EXCEPT ![t] = "done"]
      /\ got' = [got EXCEPT ![t] = NoCred]
      /\ UNCHANGED <<kind, cached, load, acct, lockGen, issued, live>>
      /\ db' = IF persisted THEN [db EXCEPT ![a] = got[t]] ELSE db
      /\ dropped' = IF persisted THEN dropped ELSE [dropped EXCEPT ![a] = TRUE]
      /\ mem' = [mem EXCEPT ![t] =
                    [got[t] EXCEPT !.rt = IF got[t].rt # Null THEN got[t].rt
                                          ELSE mem[t].rt]]
  BY RowTypes DEF Complete, Answer, Stored, cacheVars, providerVars
<1>1. /\ got'[t] = NoCred /\ pc'[t] = "done"
      /\ \A u \in Tasks \ {t} : got'[u] = got[u] /\ pc'[u] = pc[u] /\ mem'[u] = mem[u]
  BY <1>0, RowTypes
<1>2. /\ db'[a] \in {db[a], got[t]}
      /\ persisted => db'[a] = got[t]
      /\ \A b \in Accounts \ {a} : db'[b] = db[b]
  BY <1>0, RowTypes
<1>3. /\ persisted \/ dropped'[a]
      /\ \A b \in Accounts : dropped[b] => dropped'[b]
  BY <1>0, RowTypes
<1>4. got[t] \in Cred /\ mem[t] \in Cred /\ mem'[t].rt \in {got[t].rt, mem[t].rt}
  <2>1. got[t] \in Cred /\ mem[t] \in Cred
    BY RowTypes
  <2>2. mem'[t] = [got[t] EXCEPT !.rt = IF got[t].rt # Null THEN got[t].rt ELSE mem[t].rt]
    BY <1>0, RowTypes
  <2> QED BY <2>1, <2>2 DEF Cred
<1>5. ASSUME NEW b \in Accounts, b = a
      PROVE  Known(b)' \subseteq Known(b) \cup {got[t].rt}
  <2> SUFFICES ASSUME NEW r \in Token,
                      \/ r = db'[b].rt \/ r = cached[b].rt
                      \/ \E u \in Tasks : r = load[u][b].rt
                      \/ \E u \in Tasks : acct[u] = b /\ r = mem'[u].rt,
                      r # got[t].rt
               PROVE  r \in Known(b)
    BY <1>0 DEF Known
  <2>1. CASE \E u \in Tasks : acct[u] = b /\ r = mem'[u].rt
    <3>1. \A u \in Tasks : mem'[u].rt \in {mem[u].rt, got[t].rt}
      BY <1>1, <1>4
    <3> QED BY <2>1, <3>1 DEF Known
  <2>2. CASE r = db'[b].rt
    <3>1. db'[b] = db[b] \/ db'[b] = got[t]
      BY <1>2, <1>5
    <3>2. r = db[b].rt
      BY <2>2, <3>1
    <3> QED BY <3>2 DEF Known
  <2> QED BY <2>1, <2>2 DEF Known
<1>6. \A b \in Accounts \ {a} : Known(b)' \subseteq Known(b)
  <2> SUFFICES ASSUME NEW b \in Accounts \ {a}, NEW r \in Token,
                      \/ r = db[b].rt \/ r = cached[b].rt
                      \/ \E u \in Tasks : r = load[u][b].rt
                      \/ \E u \in Tasks : acct[u] = b /\ r = mem'[u].rt
               PROVE  r \in Known(b)
    BY <1>0, <1>2 DEF Known
  <2> QED BY <1>1 DEF Known
<1>7. OAuthOnly' = OAuthOnly
  BY <1>0 DEF OAuthOnly
<1>8. HandsInv'
  BY <1>0, <1>1 DEF RowInv, HandsInv
<1>9. got[t].at <= issued[a] /\ got[t].rt <= issued[a]
  BY DEF RowInv, IssuedInv
<1>10. IssuedInv'
  <2>1. \A b \in Accounts : issued[b] \in Nat
    BY RowTypes, Constants
  <2>2. ASSUME NEW b \in Accounts
        PROVE  db'[b].at <= issued[b] /\ \A r \in Known(b)' : r <= issued[b]
    <3>1. db[b].at <= issued[b] /\ \A r \in Known(b) : r <= issued[b]
      BY DEF RowInv, IssuedInv
    <3>2. CASE b = a
      <4>1. db'[b].at <= issued[b]
        BY <1>2, <1>9, <3>1, <3>2
      <4>2. \A r \in Known(b)' : r \in Known(b) \/ r = got[t].rt
        BY <1>5, <3>2
      <4> QED BY <1>9, <3>1, <3>2, <4>1, <4>2
    <3>3. CASE b # a
      BY <1>2, <1>6, <3>1, <3>3
    <3> QED BY <3>2, <3>3
  <2>3. ASSUME NEW u \in Tasks
        PROVE  got'[u].at <= issued[acct[u]] /\ got'[u].rt <= issued[acct[u]]
    BY <1>0, <1>1, <2>1 DEF RowInv, IssuedInv, NoCred, Null
  <2> QED BY <1>0, <2>2, <2>3 DEF IssuedInv
<1>11. GrantInv'
  <2> SUFFICES ASSUME NEW u \in Tasks, pc'[u] = "exchanged", acct[u] \in OAuthOnly,
                      NEW b \in Accounts, b = acct[u]
               PROVE  /\ got'[u].rt \in live[acct[u]]
                      /\ kind[acct[u]] = "rotating" =>
                            /\ got'[u].rt \notin Known(b)'
                            /\ \A v \in Tasks \ {u} :
                                  acct[v] = acct[u] => got'[v].rt # got'[u].rt
    BY <1>0, <1>7, RowTypes DEF GrantInv, Known
  <2>1. /\ u # t /\ pc[u] = "exchanged" /\ got'[u] = got[u] /\ acct[u] \in Accounts
        /\ got[u].rt \in live[acct[u]] /\ got[u].rt # Null
        /\ kind[acct[u]] = "rotating" =>
              /\ got[u].rt \notin Known(acct[u])
              /\ \A v \in Tasks \ {u} : acct[v] = acct[u] => got[v].rt # got[u].rt
    BY <1>1, RowTypes, Constants DEF RowInv, GrantInv, Null
  <2>2. ASSUME kind[acct[u]] = "rotating" PROVE got'[u].rt \notin Known(b)'
    <3>1. got[u].rt \notin Known(b)
      BY <2>1, <2>2
    <3>2. CASE b = a
      <4>1. got[u].rt # got[t].rt
        BY <2>1, <2>2, <3>2
      <4> QED BY <1>5, <2>1, <3>1, <3>2, <4>1
    <3>3. CASE b # a
      BY <1>6, <2>1, <3>1, <3>3
    <3> QED BY <3>2, <3>3
  <2>3. ASSUME kind[acct[u]] = "rotating", NEW v \in Tasks \ {u}, acct[v] = acct[u]
        PROVE  got'[v].rt # got'[u].rt
    BY <1>1, <2>1, <2>3 DEF NoCred
  <2> QED BY <2>1, <2>2, <2>3
<1>12. NewerInv'
  <2> SUFFICES ASSUME NEW u \in Tasks, pc'[u] = "exchanged", acct[u] \in OAuthOnly,
                      lockGen[acct[u]] = 0
               PROVE  db'[acct[u]].at <= got'[u].at
    BY <1>0, <1>7 DEF NewerInv
  <2>1. u # t /\ pc[u] = "exchanged" /\ got'[u] = got[u]
    BY <1>1
  \* Two tasks in the critical section need a dropped mutex.
  <2>2. acct[u] # a
    <3>1. SUFFICES ASSUME acct[u] = a PROVE FALSE
      OBVIOUS
    <3>2. lk[t] < lockGen[a] \/ lk[u] < lockGen[a]
      BY <1>0, <2>1, <3>1 DEF RefreshesSerialised, Refreshing
    <3>3. lk[t] \in Nat /\ lk[u] \in Nat
      BY RowTypes, Constants DEF Generation
    <3> QED BY <3>1, <3>2, <3>3
  <2> QED BY <1>2, <2>1, <2>2, RowTypes DEF RowInv, NewerInv
<1>13. RotationReachesRow'
  <2> SUFFICES ASSUME NEW b \in OAuthOnly
               PROVE  \/ db'[b].rt \in live[b]
                      \/ dropped'[b]
                      \/ \E u \in Tasks : acct[u] = b /\ pc'[u] = "exchanged"
    BY <1>0, <1>7 DEF RotationReachesRow
  <2>1. CASE b = a
    BY <1>0, <1>2, <1>3, <2>1 DEF RowInv, GrantInv
  <2>2. CASE b # a
    BY <1>1, <1>2, <1>3, <2>2 DEF RowInv, RotationReachesRow, OAuthOnly
  <2> QED BY <2>1, <2>2
<1> QED BY <1>8, <1>10, <1>11, <1>12, <1>13 DEF RowInv


----------------------------------------------------------------------------
(* The steps that are quiet *)

\* The refresh tokens of rows and clones are known ones.
LEMMA InKnown ==
    ASSUME TypeOK
    PROVE  /\ \A a \in Accounts : /\ db[a].rt \in Known(a) /\ cached[a].rt \in Known(a)
                                  /\ \A u \in Tasks : load[u][a].rt \in Known(a)
           /\ \A u \in Tasks : mem[u].rt \in Known(acct[u])
BY RowTypes DEF Known, Cred

\* A step of task t is quiet if t ends up with no grant, what it clones is
\* known, and a grant it had or caused is given up for lost.
LEMMA QuietStep ==
    ASSUME TypeOK, TypeOK', HandsInv, NEW t \in Tasks,
           UNCHANGED <<kind, db, lockGen>>,
           \/ UNCHANGED <<issued, live>>
           \/ Grant(acct[t], mem[t].rt) /\ dropped'[acct[t]],
           \A u \in Tasks \ {t} :
              /\ pc'[u] = pc[u] /\ got'[u] = got[u] /\ acct'[u] = acct[u] /\ lk'[u] = lk[u]
              /\ mem'[u] = mem[u] /\ load'[u] = load[u],
           \A b \in Accounts : cached'[b].rt \in Known(b) \cup {Null},
           \A b \in Accounts : load'[t][b].rt \in Known(b) \cup {Null},
           mem'[t].rt \in Known(acct'[t]) \cup {Null},
           pc[t] # "exchanged" \/ dropped'[acct[t]],
           \A b \in Accounts : dropped[b] => dropped'[b],
           pc'[t] # "exchanged", got'[t] = NoCred,
           pc'[t] \in {"idle", "loading"} => mem'[t] = NoCred
    PROVE  Quiet
<1>1. ASSUME NEW b \in Accounts PROVE Known(b)' \subseteq Known(b) \cup {Null}
  <2> SUFFICES ASSUME NEW r \in Token,
                      \/ r = db[b].rt \/ r = cached'[b].rt
                      \/ \E u \in Tasks : r = load'[u][b].rt
                      \/ \E u \in Tasks : acct'[u] = b /\ r = mem'[u].rt
               PROVE  r \in Known(b) \cup {Null}
    BY DEF Known
  <2>1. CASE r = db[b].rt \/ r = cached'[b].rt
    BY <2>1, InKnown
  <2>2. CASE \E u \in Tasks : r = load'[u][b].rt
    <3>1. PICK u \in Tasks : r = load'[u][b].rt
      BY <2>2
    <3>2. load'[u][b].rt \in Known(b) \cup {Null}
      BY InKnown
    <3> QED BY <3>1, <3>2
  <2>3. CASE \E u \in Tasks : acct'[u] = b /\ r = mem'[u].rt
    <3>1. PICK u \in Tasks : acct'[u] = b /\ r = mem'[u].rt
      BY <2>3
    <3>2. mem'[u].rt \in Known(acct'[u]) \cup {Null}
      BY InKnown
    <3> QED BY <3>1, <3>2
  <2> QED BY <2>1, <2>2, <2>3
<1>2. ASSUME NEW b \in Accounts
      PROVE  /\ issued[b] <= issued'[b]
             /\ \A r \in live[b] \ live'[b] :
                   r \in Known(b) /\ dropped'[b] /\ kind[b] = "rotating"
             /\ \A r \in live'[b] \ live[b] : issued[b] < r /\ r <= issued'[b]
  <2>1. issued[b] \in Int /\ acct[t] \in Accounts
    BY RowTypes, Constants
  <2>2. CASE UNCHANGED <<issued, live>>
    BY <2>1, <2>2
  <2>3. CASE Grant(acct[t], mem[t].rt) /\ dropped'[acct[t]]
    <3>1. /\ issued' = [issued EXCEPT ![acct[t]] = issued[acct[t]] + 1]
          /\ live' = [live EXCEPT ![acct[t]] =
                        IF kind[acct[t]] = "rotating"
                        THEN (live[acct[t]] \ {mem[t].rt}) \cup {issued[acct[t]] + 1}
                        ELSE live[acct[t]]]
      BY <2>3 DEF Grant
    <3>2. CASE b = acct[t]
      <4>1. issued[b] <= issued'[b]
        BY <2>1, <3>1, <3>2, RowTypes
      <4>2. \A r \in live[b] \ live'[b] : r = mem[t].rt /\ kind[b] = "rotating"
        BY <2>1, <3>1, <3>2, RowTypes
      <4>3. issued'[b] = issued[b] + 1 /\ \A r \in live'[b] \ live[b] : r = issued[b] + 1
        BY <2>1, <3>1, <3>2, RowTypes
      <4> QED BY <2>1, <2>3, <3>2, <4>1, <4>2, <4>3, InKnown
    <3>3. CASE b # acct[t]
      BY <2>1, <3>1, <3>3, RowTypes
    <3> QED BY <3>2, <3>3
  <2> QED BY <2>2, <2>3
<1>3. ASSUME NEW u \in Tasks
      PROVE  /\ pc'[u] \in {"idle", "loading"} => mem'[u] = NoCred
             /\ \/ /\ pc[u] = "exchanged" /\ pc'[u] = "exchanged"
                   /\ got'[u] = got[u] /\ acct'[u] = acct[u] /\ lk'[u] = lk[u]
                \/ pc'[u] # "exchanged" /\ got'[u] = NoCred
             /\ pc[u] = "exchanged" /\ pc'[u] # "exchanged" => dropped'[acct[u]]
  <2>1. CASE u = t
    BY <2>1
  <2>2. CASE u # t
    BY <2>2 DEF HandsInv
  <2> QED BY <2>1, <2>2
<1> QED BY <1>1, <1>2, <1>3 DEF Quiet

\* The actions of a task that make or write no grant of its own are quiet.
QuietAction(t) ==
    \/ \E a \in Accounts : CloneCached(t, a) \/ ReadAccounts(t, a)
    \/ StoreAccounts(t) \/ AnswerDirectly(t) \/ CheckBackoff(t)
    \/ DropExpiredRecord(t) \/ RecoverFromDb(t) \/ RecoveryFails(t)
    \/ TakeLock(t) \/ Acquire(t) \/ ExchangeRefused(t) \/ ExchangeLost(t)
    \/ Cancel(t) \/ CancelDuringGrant(t) \/ Finish(t)

LEMMA QuietActions ==
    ASSUME TypeOK, TypeOK', HandsInv, NEW t \in Tasks, QuietAction(t)
    PROVE  Quiet
<1> USE DEF providerVars, cacheVars, lockVars, backoffVars
<1>0. /\ db \in [Accounts -> Cred] /\ cached \in [Accounts -> Cred]
      /\ load \in [Tasks -> [Accounts -> Cred]]
      /\ mem \in [Tasks -> Cred] /\ got \in [Tasks -> Cred]
      /\ acct \in [Tasks -> Accounts] /\ pc \in [Tasks -> PCs]
      /\ dropped \in [Accounts -> BOOLEAN] /\ lk \in [Tasks -> Generation]
  BY RowTypes
<1>k. /\ \A a \in Accounts : /\ db[a].rt \in Known(a) /\ cached[a].rt \in Known(a)
                             /\ \A u \in Tasks : load[u][a].rt \in Known(a)
      /\ \A u \in Tasks : mem[u].rt \in Known(acct[u])
  BY InKnown
<1>h. /\ \A u \in Tasks : pc[u] # "exchanged" => got[u] = NoCred
      /\ \A u \in Tasks : pc[u] \in {"idle", "loading"} => mem[u] = NoCred
      /\ NoCred.rt = Null
  BY DEF HandsInv, NoCred
<1>1. ASSUME NEW a \in Accounts, CloneCached(t, a) PROVE Quiet
  BY <1>0, <1>k, <1>h, <1>1, QuietStep DEF CloneCached
<1>2. ASSUME NEW a \in Accounts, ReadAccounts(t, a) PROVE Quiet
  BY <1>0, <1>k, <1>h, <1>2, QuietStep DEF ReadAccounts
<1>3. ASSUME StoreAccounts(t) PROVE Quiet
  BY <1>0, <1>k, <1>h, <1>3, QuietStep DEF StoreAccounts
<1>4. ASSUME AnswerDirectly(t) PROVE Quiet
  BY <1>0, <1>k, <1>h, <1>4, QuietStep DEF AnswerDirectly
<1>5. ASSUME CheckBackoff(t) PROVE Quiet
  <2>1. /\ pc[t] = "cloned" /\ pc'[t] \in {"locking", "expired", "recovering", "done"}
        /\ \A u \in Tasks \ {t} : pc'[u] = pc[u]
        /\ UNCHANGED <<kind, db, issued, live, cached, load, mem, got, acct, lk, dropped,
                       lockGen>>
    BY <1>0, <1>5 DEF CheckBackoff
  <2> QED BY <1>0, <1>k, <1>h, <2>1, QuietStep
<1>6. ASSUME DropExpiredRecord(t) PROVE Quiet
  BY <1>0, <1>k, <1>h, <1>6, QuietStep DEF DropExpiredRecord, Goto
<1>7. ASSUME RecoverFromDb(t) PROVE Quiet
  <2>1. /\ db[acct[t]] \in Cred /\ pc[t] = "recovering" /\ pc'[t] = "done" /\ got'[t] = NoCred
        /\ mem'[t] = [db[acct[t]] EXCEPT !.rt = IF db[acct[t]].rt # Null
                                              THEN db[acct[t]].rt ELSE mem[t].rt]
    BY <1>0, <1>7 DEF RecoverFromDb, Answer
  <2>2. mem'[t].rt \in {db[acct[t]].rt, mem[t].rt}
    BY <2>1 DEF Cred
  <2>3. mem'[t].rt \in Known(acct[t]) /\ acct'[t] = acct[t]
    BY <1>0, <1>k, <1>7, <2>2 DEF RecoverFromDb, Answer
  <2> QED BY <1>0, <1>k, <1>h, <1>7, <2>1, <2>3, QuietStep DEF RecoverFromDb, Answer
<1>8. ASSUME RecoveryFails(t) PROVE Quiet
  BY <1>0, <1>k, <1>h, <1>8, QuietStep DEF RecoveryFails, Answer
<1>9. ASSUME TakeLock(t) PROVE Quiet
  BY <1>0, <1>k, <1>h, <1>9, QuietStep DEF TakeLock
<1>10. ASSUME Acquire(t) PROVE Quiet
  BY <1>0, <1>k, <1>h, <1>10, QuietStep DEF Acquire, Answer, Goto
<1>11. ASSUME ExchangeRefused(t) PROVE Quiet
  BY <1>0, <1>k, <1>h, <1>11, QuietStep DEF ExchangeRefused, RefreshFails, Answer
<1>12. ASSUME ExchangeLost(t) PROVE Quiet
  <2>1. dropped'[acct[t]] /\ \A b \in Accounts : dropped[b] => dropped'[b]
    BY <1>0, <1>12 DEF ExchangeLost
  <2> QED BY <1>0, <1>k, <1>h, <1>12, <2>1, QuietStep DEF ExchangeLost, RefreshFails, Answer
<1>13. ASSUME Cancel(t) PROVE Quiet
  <2>1. /\ pc[t] = "exchanged" => dropped'[acct[t]]
        /\ \A b \in Accounts : dropped[b] => dropped'[b]
    BY <1>0, <1>13 DEF Cancel
  <2> QED BY <1>0, <1>k, <1>h, <1>13, <2>1, QuietStep DEF Cancel, Vanish
<1>14. ASSUME CancelDuringGrant(t) PROVE Quiet
  <2>1. dropped'[acct[t]] /\ \A b \in Accounts : dropped[b] => dropped'[b]
    BY <1>0, <1>14 DEF CancelDuringGrant
  <2> QED BY <1>0, <1>k, <1>h, <1>14, <2>1, QuietStep DEF CancelDuringGrant, Vanish
<1>15. ASSUME Finish(t) PROVE Quiet
  BY <1>0, <1>k, <1>h, <1>15, QuietStep DEF Finish, Vanish
<1> QED
  BY <1>1, <1>2, <1>3, <1>4, <1>5, <1>6, <1>7, <1>8, <1>9, <1>10, <1>11, <1>12,
     <1>13, <1>14, <1>15 DEF QuietAction

\* A step that leaves tokens, rows and tasks alone.
LEMMA Untouched ==
    ASSUME TypeOK, TypeOK', RowInv,
           UNCHANGED <<kind, db, issued, live, cached, load, mem, got, acct, lk, pc, dropped>>,
           \A a \in Accounts : lockGen'[a] = 0 => lockGen[a] = 0
    PROVE  RowInv'
<1>1. \A a \in Accounts : Known(a)' = Known(a) /\ issued[a] <= issued'[a]
  BY RowTypes, Constants DEF Known
<1>2. Quiet
  BY <1>1 DEF Quiet, RowInv, HandsInv
<1> QED BY <1>2, QuietKeepsRowInv

LEMMA RowInvNext == TypeOK /\ TypeOK' /\ RefreshesSerialised /\ RowInv /\ [Next]_vars => RowInv'
<1> SUFFICES ASSUME TypeOK, TypeOK', RefreshesSerialised, RowInv, [Next]_vars PROVE RowInv'
  OBVIOUS
<1>1. ASSUME NEW t \in Tasks, QuietAction(t) PROVE RowInv'
  BY <1>1, QuietActions, QuietKeepsRowInv DEF RowInv
<1>2. ASSUME NEW t \in Tasks, ExchangeKey(t) PROVE RowInv'
  BY <1>2, ExchangeKeyKeepsRowInv
<1>3. ASSUME NEW t \in Tasks, Exchange(t) PROVE RowInv'
  BY <1>3, ExchangeKeepsRowInv
<1>4. ASSUME NEW t \in Tasks, NEW persisted \in BOOLEAN, Complete(t, persisted)
      PROVE  RowInv'
  BY <1>4, CompleteKeepsRowInv
<1>5. ASSUME NEW a \in Accounts, ClearAccountState(a) PROVE RowInv'
  <2>1. \A b \in Accounts : lockGen[b] \in Nat /\ lockGen'[b] \in {lockGen[b], lockGen[b] + 1}
    BY <1>5, RowTypes, Constants DEF ClearAccountState, Generation
  <2>2. \A b \in Accounts : lockGen'[b] = 0 => lockGen[b] = 0
    BY <2>1
  <2> QED BY <1>5, <2>2, Untouched DEF ClearAccountState, taskVars, providerVars, cacheVars
<1>6. CASE Tick
  BY <1>6, Untouched DEF Tick, taskVars, providerVars, cacheVars, lockVars
<1>7. CASE UNCHANGED vars
  BY <1>7, Untouched DEF vars, taskVars, providerVars, cacheVars, lockVars
<1> QED
  BY <1>1, <1>2, <1>3, <1>4, <1>5, <1>6, <1>7 DEF Next, CallStep, Abort, QuietAction

----------------------------------------------------------------------------
(* The theorems *)

LEMMA RowInvHolds == Spec => []RowInv
BY RowInvInit, RowInvNext, TypeCorrect, MutualExclusion, PTL DEF Spec

\* A completed refresh never leaves a consumed refresh token in the row: it is
\* accepted by the provider, or a task still holds its replacement, or the
\* replacement was dropped.
THEOREM RotationSafe == Spec => []RotationReachesRow
<1>1. RowInv => RotationReachesRow
  BY DEF RowInv
<1> QED BY <1>1, RowInvHolds, PTL

\* The mutex makes exchange and write one critical section: as long as
\* clear_account_state does not drop it, rows only get newer tokens.
THEOREM RowsAdvance == Spec => RowNeverRegresses
<1>1. TypeOK /\ RowInv /\ [Next]_vars =>
        [\A a \in OAuthOnly : lockGen[a] = 0 => db[a].at <= db'[a].at]_vars
  <2> SUFFICES ASSUME TypeOK, RowInv, [Next]_vars,
                      NEW a \in OAuthOnly, lockGen[a] = 0
               PROVE  db[a].at <= db'[a].at
    OBVIOUS
  <2>0. a \in Accounts /\ db[a].at \in Nat
    BY RowTypes, Constants DEF OAuthOnly, Cred, Token
  <2>1. CASE \E t \in Tasks, persisted \in BOOLEAN : Complete(t, persisted)
    <3>1. PICK t \in Tasks, persisted \in BOOLEAN : Complete(t, persisted)
      BY <2>1
    <3>2. \/ db'[a] = db[a]
          \/ acct[t] = a /\ db'[a] = got[t] /\ pc[t] = "exchanged"
      BY <2>0, <3>1, RowTypes DEF Complete, Stored
    <3> QED BY <2>0, <3>2 DEF RowInv, NewerInv
  <2>2. CASE ~\E t \in Tasks, persisted \in BOOLEAN : Complete(t, persisted)
    <3>1. UNCHANGED db
      BY <2>2 DEF Next, CallStep, Abort, vars, CloneCached, ReadAccounts, StoreAccounts,
                  AnswerDirectly, CheckBackoff, DropExpiredRecord, RecoverFromDb,
                  RecoveryFails, TakeLock, Acquire, ExchangeKey, Exchange,
                  ExchangeRefused, ExchangeLost, RefreshFails, Cancel,
                  CancelDuringGrant, Finish, ClearAccountState, Tick
    <3> QED BY <2>0, <3>1
  <2> QED BY <2>1, <2>2
<1> QED BY <1>1, RowInvHolds, TypeCorrect, PTL DEF Spec, RowNeverRegresses

(*****************************************************************************)
(* Part 2: Credentials                                                       *)
(*****************************************************************************)

(* Type correctness *)

\* The types of the variables that come on top of the token manager's.
FlowsOK ==
    /\ blocked \subseteq Accounts
    /\ cachedBlocked \subseteq Accounts
    /\ loadBlocked \in [Tasks -> SUBSET Accounts]
    /\ late \in [Tasks -> Writes]
    /\ poll \in Polls
    /\ reauth \in Reauths
    /\ revoked \in [Accounts -> Token]
    /\ starting \in BOOLEAN

\* The part of TypeOK that a step outside the token manager can disturb.
LEMMA FrameType ==
    ASSUME TypeOK, UNCHANGED vars
    PROVE  TypeOK'
BY NextType

\* An account that is not being polled, and the rest of a cycle.
LEMMA UnpolledType ==
    ASSUME NEW a \in Accounts
    PROVE  Unpolled(a) \in Polls
BY NoCredType, Constants DEF Unpolled, Polls, Token, Null

LEMMA RestType ==
    ASSUME NEW a \in Accounts, NEW rows \in [Accounts -> Cred], NEW todo \in SUBSET Accounts
    PROVE  Rest(a, rows, todo) \in Polls
<1>1. Unpolled(a) \in Polls
  BY UnpolledType
<1> QED BY <1>1 DEF Rest, Polls

LEMMA NextPollType ==
    ASSUME poll \in Polls, NextPoll
    PROVE  poll' \in Polls
<1>1. poll.acct \in Accounts /\ poll.rows \in [Accounts -> Cred] /\ poll.todo \in SUBSET Accounts
  BY DEF Polls
<1> QED BY <1>1, RestType DEF NextPoll

LEMMA PollFields ==
    ASSUME CredTypeOK
    PROVE  /\ poll \in Polls /\ poll.acct \in Accounts /\ poll.rows \in [Accounts -> Cred]
           /\ poll.todo \in SUBSET Accounts /\ poll.cur \in Cred /\ poll.rt \in Token
           /\ reauth \in Reauths /\ reauth.acct \in Accounts /\ reauth.got \in Cred
           /\ revoked \in [Accounts -> Token]
BY DEF CredTypeOK, Polls, Reauths

LEMMA CredInitType == CredInit => CredTypeOK
<1> SUFFICES ASSUME CredInit PROVE CredTypeOK
  OBVIOUS
<1>1. TypeOK
  BY InitType DEF CredInit
<1>2. poll \in Polls /\ reauth \in Reauths
  BY UnpolledType, NoCredType DEF CredInit, Reauths
<1>3. late \in [Tasks -> Writes] /\ revoked \in [Accounts -> Token]
  BY Constants DEF CredInit, Writes, NoWrite, Token
<1> QED BY <1>1, <1>2, <1>3 DEF CredInit, CredTypeOK

\* The actions of a request that are the token manager's are its steps.
LEMMA TokenManagerSteps ==
    ASSUME NEW t \in Tasks,
           \/ QuietAction(t) \/ ExchangeKey(t) \/ Exchange(t)
           \/ \E persisted \in BOOLEAN : Complete(t, persisted)
    PROVE  Next
BY DEF QuietAction, Next, CallStep, Abort

\* The other writers of the row leave the stamps alone; a restart forgets them.
LEMMA CredDatesNext == CredTypeOK /\ [CredNext]_allVars => Dated'
<1> SUFFICES ASSUME CredTypeOK, [CredNext]_allVars PROVE Dated'
  OBVIOUS
<1> USE DEF statusVars, flowVars, credVars, backoffVars, taskVars
<1>0. TypeOK /\ tnow \in [Tasks -> 0..MaxTime]
  BY DEF CredTypeOK, TypeOK, Typed
<1>k. UNCHANGED <<clock, tnow, failures>> => Dated'
  BY <1>0, DatesFrame
<1>n. Next => Dated'
  BY <1>0, DatesNext
<1>v. ASSUME NEW t \in Tasks, Vanish(t), UNCHANGED <<clock, failures>> PROVE Dated'
  BY <1>0, <1>v, DatesFrame DEF Vanish
<1>1. ASSUME NEW t \in Tasks, RequestStep(t) PROVE Dated'
  <2>1. CASE \/ \E a \in Accounts : CloneRoutable(t, a) \/ ReadRows(t, a)
             \/ TokenStep(t) \/ AbortRequest(t) \/ GiveUp(t)
             \/ \E persisted \in BOOLEAN : CompleteRefresh(t, persisted)
    <3>1. Next
      BY <2>1 DEF CloneRoutable, ReadRows, TokenStep, AbortRequest, GiveUp, CompleteRefresh,
         Next, CallStep
    <3> QED BY <1>n, <3>1
  <2>2. CASE StoreRows(t)
    <3>1. StoreAccounts(t) => Next
      BY DEF Next, CallStep
    <3> QED BY <1>n, <1>v, <2>2, <3>1 DEF StoreRows
  <2>3. CASE Respond(t)
    BY <1>v, <2>3 DEF Respond
  <2>4. CASE WriteStatus(t) \/ SkipStatus(t)
    BY <1>k, <2>4 DEF WriteStatus, SkipStatus, vars
  <2> QED BY <1>1, <2>1, <2>2, <2>3, <2>4 DEF RequestStep
<1>2. CASE PollStep
  BY <1>2, <1>k DEF PollStep, PollAccount, FetchUsage, PollRefresh, PollRefreshLost,
     PollRevoked, PollPersist, PollWipe, vars
<1>3. CASE ReauthStep /\ ~ReauthReset
  BY <1>3, <1>k DEF ReauthStep, ReauthExchange, ReauthAbandoned, ReauthStore, ReauthUnmark, vars
<1>4. CASE ReauthReset
  <2>1. Next
    BY <1>4, PollFields DEF ReauthReset, Next
  <2> QED BY <1>n, <2>1
<1>5. CASE Restart
  <2>1. /\ clock' = clock /\ \A t \in Tasks : tnow'[t] = 0
        /\ \A a \in Accounts : failures'[a].ts = -1
    BY <1>5 DEF Restart, NoFailure
  <2> QED BY <1>0, <2>1, DatesFrame
<1>6. CASE Pass
  BY <1>6, <1>n DEF Pass, Next
<1>7. CASE (\E a \in Accounts : Revoke(a)) \/ StartupClear \/ UNCHANGED allVars
  BY <1>7, <1>k DEF Revoke, StartupClear, allVars, vars
<1> QED BY <1>1, <1>2, <1>3, <1>4, <1>5, <1>6, <1>7 DEF CredNext, CredStep

LEMMA CredNextType == CredTypeOK /\ [CredNext]_allVars => CredTypeOK'
<1> SUFFICES ASSUME CredTypeOK, [CredNext]_allVars PROVE CredTypeOK'
  OBVIOUS
<1> USE DEF statusVars, flowVars, credVars
<1>0. TypeOK /\ FlowsOK /\ NoCred \in Cred
  BY NoCredType DEF CredTypeOK, FlowsOK
<1>d. Dated'
  BY CredDatesNext
<1>p. /\ poll.acct \in Accounts /\ poll.rows \in [Accounts -> Cred]
      /\ poll.todo \in SUBSET Accounts /\ poll.cur \in Cred /\ poll.rt \in Token
      /\ reauth.acct \in Accounts /\ reauth.got \in Cred
  BY PollFields
<1>o. overtaken' \subseteq Hands
  BY DEF CredNext, Overtaking, allVars, CredTypeOK, Hands
<1>t. ASSUME TypeOK', FlowsOK' PROVE CredTypeOK'
  BY <1>o, <1>t DEF CredTypeOK, FlowsOK, Hands
<1>f. TasksOK
  BY <1>0 DEF TypeOK, Typed, TasksOK
<1>1. ASSUME NEW t \in Tasks, NEW a \in Accounts, CloneRoutable(t, a) PROVE CredTypeOK'
  <2>1. TypeOK'
    BY <1>0, <1>1, NextType, TokenManagerSteps DEF CloneRoutable, QuietAction
  <2> QED BY <1>0, <1>1, <1>t, <2>1 DEF CloneRoutable, FlowsOK
<1>2. ASSUME NEW t \in Tasks, NEW a \in Accounts, ReadRows(t, a) PROVE CredTypeOK'
  <2>1. TypeOK'
    BY <1>0, <1>2, NextType, TokenManagerSteps DEF ReadRows, QuietAction
  <2> QED BY <1>0, <1>2, <1>t, <2>1 DEF ReadRows, FlowsOK
<1>3. ASSUME NEW t \in Tasks, StoreRows(t) PROVE CredTypeOK'
  <2>1. TypeOK'
    <3>1. StoreAccounts(t) => TypeOK'
      BY <1>0, NextType, TokenManagerSteps DEF QuietAction
    <3>2. ~StoreAccounts(t) => TypeOK'
      <4> SUFFICES ASSUME ~StoreAccounts(t) PROVE TypeOK'
        OBVIOUS
      <4>1. /\ cached' = load[t] /\ cachedAt' = clock /\ Vanish(t)
            /\ UNCHANGED <<clock, kind, db, providerVars, lockVars, backoffVars, dropped>>
        BY <1>3 DEF StoreRows
      <4>2. TasksOK'
        BY <1>f, <4>1, VanishType
      <4>3. cachedAt' \in (-CacheTTL)..MaxTime /\ cached' \in [Accounts -> Cred]
        BY <1>0, <4>1, Constants DEF TypeOK, Typed
      <4> QED BY <1>0, <1>d, <4>1, <4>2, <4>3
              DEF TypeOK, Typed, TasksOK, providerVars, lockVars, backoffVars
    <3> QED BY <3>1, <3>2
  <2>2. cachedBlocked' \subseteq Accounts /\ loadBlocked' \in [Tasks -> SUBSET Accounts]
    BY <1>0, <1>3 DEF StoreRows, FlowsOK
  <2> QED BY <1>0, <1>3, <1>t, <2>1, <2>2 DEF StoreRows, FlowsOK
<1>4. ASSUME NEW t \in Tasks, TokenStep(t) PROVE CredTypeOK'
  <2>1. TypeOK'
    BY <1>0, <1>4, NextType, TokenManagerSteps DEF TokenStep, QuietAction
  <2> QED BY <1>0, <1>4, <1>t, <2>1 DEF TokenStep, FlowsOK
<1>5. ASSUME NEW t \in Tasks, NEW persisted \in BOOLEAN, CompleteRefresh(t, persisted)
      PROVE  CredTypeOK'
  <2>1. TypeOK'
    BY <1>0, <1>5, NextType, TokenManagerSteps DEF CompleteRefresh
  <2> QED BY <1>0, <1>5, <1>t, <2>1 DEF CompleteRefresh, FlowsOK
<1>6. ASSUME NEW t \in Tasks, AbortRequest(t) PROVE CredTypeOK'
  <2>1. TypeOK'
    BY <1>0, <1>6, NextType, TokenManagerSteps DEF AbortRequest, Abort, QuietAction
  <2> QED BY <1>0, <1>6, <1>t, <2>1 DEF AbortRequest, FlowsOK
<1>7. ASSUME NEW t \in Tasks, Respond(t) PROVE CredTypeOK'
  <2>1. TasksOK'
    BY <1>f, <1>7, VanishType DEF Respond
  <2>2. TypeOK'
    BY <1>0, <1>d, <1>7, <2>1 DEF Respond, TypeOK, Typed, TasksOK, providerVars, cacheVars, lockVars,
                            backoffVars
  <2>3. \A w \in {"mark", "clear"} : [what |-> w, ts |-> clock] \in Writes
    BY <1>0 DEF TypeOK, Typed, Writes
  <2>4. late' \in [Tasks -> Writes]
    BY <1>0, <1>7, <2>3 DEF Respond, Verdicts, FlowsOK
  <2> QED BY <1>0, <1>7, <1>t, <2>2, <2>4 DEF Respond, FlowsOK
<1>8. ASSUME NEW t \in Tasks, GiveUp(t) PROVE CredTypeOK'
  <2>1. TypeOK'
    BY <1>0, <1>8, NextType, TokenManagerSteps DEF GiveUp, QuietAction
  <2> QED BY <1>0, <1>8, <1>t, <2>1 DEF GiveUp, FlowsOK
<1>9. ASSUME NEW t \in Tasks, WriteStatus(t) PROVE CredTypeOK'
  <2>1. acct[t] \in Accounts /\ db[acct[t]] \in Cred /\ late[t] \in Writes
    BY <1>0 DEF TypeOK, Typed, FlowsOK
  <2>2. Marked(db[acct[t]], late[t]) \in Cred
    BY <2>1, Constants DEF Marked, Cred, Writes, Time
  <2>3. db' \in [Accounts -> Cred]
    BY <1>0, <1>9, <2>1, <2>2 DEF WriteStatus, TypeOK, Typed
  <2>4. TypeOK'
    BY <1>0, <1>d, <1>9, <2>3 DEF WriteStatus, TypeOK, Typed, providerVars, cacheVars, lockVars,
                            backoffVars, taskVars
  <2>5. late' \in [Tasks -> Writes] /\ blocked' \subseteq Accounts
    BY <1>0, <1>9, <2>1, Constants DEF WriteStatus, FlowsOK, NoWrite, Writes
  <2> QED BY <1>0, <1>9, <1>t, <2>4, <2>5 DEF WriteStatus, FlowsOK
<1>10. ASSUME NEW t \in Tasks, SkipStatus(t) PROVE CredTypeOK'
  <2>1. late' \in [Tasks -> Writes]
    BY <1>0, <1>10, Constants DEF SkipStatus, FlowsOK, NoWrite, Writes
  <2> QED BY <1>0, <1>10, <1>t, <2>1, FrameType DEF SkipStatus, FlowsOK
<1>11. ASSUME NEW a \in Accounts, PollAccount(a) PROVE CredTypeOK'
  <2> DEFINE rows == IF poll.pc = "idle" THEN db ELSE poll.rows
             todo == IF poll.pc = "idle" THEN OAuthOnly ELSE poll.todo
             left == todo \ {a}
             rest == [b \in Accounts |-> IF b \in left THEN rows[b] ELSE NoCred]
  <2>1. rows \in [Accounts -> Cred] /\ left \in SUBSET Accounts
    BY <1>0, <1>p DEF TypeOK, Typed, OAuthOnly
  <2>2. rest \in [Accounts -> Cred] /\ rows[a] \in Cred /\ rows[a].rt \in Token
    BY <1>0, <2>1 DEF Cred
  <2>3. poll' = IF rows[a].at # Null
                THEN [pc |-> "fetch", rows |-> rest, todo |-> left, acct |-> a,
                      cur |-> rows[a], rt |-> rows[a].rt]
                ELSE Rest(a, rest, left)
    BY <1>11 DEF PollAccount
  <2> HIDE DEF rows, todo, left, rest
  <2>4. poll' \in Polls
    BY <2>1, <2>2, <2>3, RestType DEF Polls
  <2> QED BY <1>0, <1>11, <1>t, <2>4, FrameType DEF PollAccount, FlowsOK
<1>12. CASE FetchUsage
  <2>1. poll' \in Polls
    BY <1>0, <1>12, NextPollType DEF FetchUsage, FlowsOK
  <2> QED BY <1>0, <1>12, <1>t, <2>1, FrameType DEF FetchUsage, FlowsOK
<1>13. CASE PollRefresh
  <2>1. /\ Granted(poll.acct, poll.rt) \in Cred
        /\ issued' \in [Accounts -> 1..MaxIssued]
        /\ live' \in [Accounts -> SUBSET (1..MaxIssued)]
    BY <1>0, <1>p, <1>13, GrantType DEF PollRefresh
  <2>2. TypeOK'
    BY <1>0, <1>d, <1>13, <2>1 DEF PollRefresh, TypeOK, Typed, cacheVars, lockVars, backoffVars, taskVars
  <2>3. poll' \in Polls
    BY <1>0, <1>13, <2>1 DEF PollRefresh, FlowsOK, Polls
  <2> QED BY <1>0, <1>13, <1>t, <2>2, <2>3 DEF PollRefresh, FlowsOK
<1>14. CASE PollRefreshLost
  <2>1. /\ issued' \in [Accounts -> 1..MaxIssued]
        /\ live' \in [Accounts -> SUBSET (1..MaxIssued)]
    BY <1>0, <1>p, <1>14, GrantType DEF PollRefreshLost
  <2>2. TypeOK'
    BY <1>0, <1>d, <1>14, <2>1 DEF PollRefreshLost, TypeOK, Typed, cacheVars, lockVars, backoffVars,
                             taskVars
  <2>3. poll' \in Polls
    BY <1>0, <1>14, NextPollType DEF PollRefreshLost, FlowsOK
  <2> QED BY <1>0, <1>14, <1>t, <2>2, <2>3 DEF PollRefreshLost, FlowsOK
<1>15. CASE PollRevoked
  <2>1. poll' \in Polls
    BY <1>0, <1>15 DEF PollRevoked, FlowsOK, Polls
  <2> QED BY <1>0, <1>15, <1>t, <2>1, FrameType DEF PollRevoked, FlowsOK
<1>16. ASSUME NEW ok \in BOOLEAN, PollPersist(ok) PROVE CredTypeOK'
  <2>1. db' \in [Accounts -> Cred] /\ dropped' \in [Accounts -> BOOLEAN]
    BY <1>0, <1>p, <1>16 DEF PollPersist, Polled, TypeOK, Typed
  <2>2. TypeOK'
    BY <1>0, <1>d, <1>16, <2>1 DEF PollPersist, TypeOK, Typed, providerVars, cacheVars, lockVars,
                             backoffVars, taskVars
  <2>3. poll' \in Polls
    BY <1>0, <1>16 DEF PollPersist, FlowsOK, Polls
  <2> QED BY <1>0, <1>16, <1>t, <2>2, <2>3 DEF PollPersist, FlowsOK
<1>17. ASSUME NEW ok \in BOOLEAN, PollWipe(ok) PROVE CredTypeOK'
  <2>1. db' \in [Accounts -> Cred]
    BY <1>0, <1>17 DEF PollWipe, TypeOK, Typed
  <2>2. TypeOK'
    BY <1>0, <1>d, <1>17, <2>1 DEF PollWipe, TypeOK, Typed, providerVars, cacheVars, lockVars,
                             backoffVars, taskVars
  <2>3. poll' \in Polls
    BY <1>0, <1>17, NextPollType DEF PollWipe, FlowsOK
  <2> QED BY <1>0, <1>17, <1>t, <2>2, <2>3 DEF PollWipe, FlowsOK
<1>18. ASSUME NEW a \in Accounts, ReauthExchange(a) PROVE CredTypeOK'
  <2>1. issued[a] \in 1..MaxIssued /\ issued[a] < MaxIssued /\ clock \in 0..MaxTime
    BY <1>0, <1>18 DEF TypeOK, Typed, ReauthExchange
  <2>2. issued[a] + 1 \in 1..MaxIssued /\ issued[a] + 1 \in Token /\ clock + TokenLife \in Time
    BY <2>1, Constants DEF Token, Time
  <2>3. TypeOK'
    BY <1>0, <1>d, <1>18, <2>2 DEF ReauthExchange, TypeOK, Typed, cacheVars, lockVars, backoffVars, taskVars
  <2>4. reauth' \in Reauths
    BY <1>18, <2>2 DEF ReauthExchange, Reauths, Cred
  <2> QED BY <1>0, <1>18, <1>t, <2>3, <2>4 DEF ReauthExchange, FlowsOK
<1>19. CASE ReauthAbandoned
  <2>1. reauth' \in Reauths
    BY <1>0, <1>19 DEF ReauthAbandoned, FlowsOK, Reauths
  <2> QED BY <1>0, <1>19, <1>t, <2>1, FrameType DEF ReauthAbandoned, FlowsOK
<1>20. CASE ReauthStore
  <2>1. TypeOK'
    BY <1>0, <1>d, <1>p, <1>20 DEF ReauthStore, TypeOK, Typed, providerVars, cacheVars, lockVars,
                             backoffVars, taskVars
  <2>2. reauth' \in Reauths
    BY <1>0, <1>20 DEF ReauthStore, FlowsOK, Reauths
  <2> QED BY <1>0, <1>20, <1>t, <2>1, <2>2 DEF ReauthStore, FlowsOK
<1>21. ASSUME NEW written \in BOOLEAN, ReauthUnmark(written) PROVE CredTypeOK'
  <2>1. reauth' \in Reauths
    BY <1>0, <1>21 DEF ReauthUnmark, FlowsOK, Reauths
  <2> QED BY <1>0, <1>21, <1>t, <2>1, FrameType DEF ReauthUnmark, FlowsOK
<1>22. CASE ReauthReset
  <2>1. TypeOK'
    BY <1>0, <1>p, <1>22, NextType DEF ReauthReset, Next
  <2>2. reauth' \in Reauths
    BY <1>0, <1>22 DEF ReauthReset, FlowsOK, Reauths
  <2> QED BY <1>0, <1>22, <1>t, <2>1, <2>2 DEF ReauthReset, FlowsOK
<1>23. ASSUME NEW a \in Accounts, Revoke(a) PROVE CredTypeOK'
  <2>1. TypeOK'
    BY <1>0, <1>d, <1>23 DEF Revoke, TypeOK, Typed, cacheVars, lockVars, backoffVars, taskVars
  <2>2. issued[a] \in Token
    BY <1>0, Constants DEF TypeOK, Typed, Token
  <2> QED BY <1>0, <1>23, <1>t, <2>1, <2>2 DEF Revoke, FlowsOK
<1>24. CASE Restart
  <2>1. TasksOK'
    BY <1>0, <1>24, Constants DEF Restart, TasksOK, TypeOK, Typed, PCs, Generation, Answers
  <2>2. dropped' \in [Accounts -> BOOLEAN] /\ cached' \in [Accounts -> Cred]
    BY <1>0, <1>24 DEF Restart
  <2>3. /\ cachedAt' \in (-CacheTTL)..MaxTime /\ lastCleanup' \in (-CleanupInterval)..MaxTime
        /\ lockGen' \in [Accounts -> Generation]
    BY <1>24, Constants DEF Restart, Generation
  <2>4. /\ owner' \in [Accounts -> [Generation -> Tasks \cup {Free}]]
        /\ failures' \in [Accounts -> FailureRecord \cup {NoFailure}]
    BY <1>24 DEF Restart
  <2>5. TypeOK'
    BY <1>0, <1>d, <1>24, <2>1, <2>2, <2>3, <2>4 DEF Restart, TypeOK, Typed, TasksOK, providerVars
  <2>6. poll' \in Polls /\ reauth' \in Reauths
    BY <1>0, <1>p, <1>24, UnpolledType DEF Restart, FlowsOK, Reauths
  <2>7. late' \in [Tasks -> Writes] /\ loadBlocked' \in [Tasks -> SUBSET Accounts]
    BY <1>24, Constants DEF Restart, NoWrite, Writes
  <2> QED BY <1>0, <1>24, <1>t, <2>5, <2>6, <2>7 DEF Restart, FlowsOK
<1>25. CASE StartupClear
  BY <1>0, <1>25, <1>t, FrameType DEF StartupClear, FlowsOK
<1>26. CASE Pass
  <2>1. TypeOK'
    BY <1>0, <1>26, NextType DEF Pass, Next
  <2> QED BY <1>0, <1>26, <1>t, <2>1 DEF Pass, FlowsOK
<1>27. CASE UNCHANGED allVars
  BY <1>0, <1>27, <1>t, FrameType DEF allVars, FlowsOK
<1> QED
  BY <1>1, <1>2, <1>3, <1>4, <1>5, <1>6, <1>7, <1>8, <1>9, <1>10, <1>11, <1>12, <1>13,
     <1>14, <1>15, <1>16, <1>17, <1>18, <1>19, <1>20, <1>21, <1>22, <1>23, <1>24, <1>25,
     <1>26, <1>27 DEF CredNext, CredStep, RequestStep, PollStep, ReauthStep

\* Every reachable state is well typed: all tokens, in rows, snapshots and the
\* hands of four writers, are grants of the provider.
THEOREM CredTypeCorrect == CredSpec => []CredTypeOK
BY CredInitType, CredNextType, PTL DEF CredSpec

----------------------------------------------------------------------------
(* The invariant *)

\* The refresh tokens of account a that a row, a copy of it, or the poller has.
Seen(a) == Known(a) \cup {poll.rows[a].rt} \cup (IF poll.acct = a THEN {poll.rt} ELSE {})

\* Every token is one of the grants made so far.
GrantsInv ==
    \A a \in Accounts : /\ db[a].at <= issued[a] /\ revoked[a] <= issued[a]
                        /\ \A r \in Seen(a) \cup live[a] : r <= issued[a]

\* A refresh token in hand is accepted by the provider unless it was revoked;
\* if it rotated, nobody else has it.
InHandInv ==
    \A h \in Hands :
        Full(h) =>
          /\ New(h).at <= issued[Of(h)] /\ New(h).rt <= issued[Of(h)]
          /\ New(h).rt \in live[Of(h)] \/ New(h).rt <= revoked[Of(h)]
          /\ kind[Of(h)] = "rotating" =>
               /\ New(h).rt # Null /\ New(h).rt \notin Seen(Of(h))
               /\ \A g \in Hands \ {h} : Full(g) /\ Of(g) = Of(h) => New(g).rt # New(h).rt

\* Tokens in hand are newer than the row's, unless their hand was overtaken.
AheadInv == \A h \in Hands : Full(h) /\ h \notin overtaken => db[Of(h)].at < New(h).at

\* What the poller takes for revoked is never accepted again.
RevokedInv == poll.pc = "revoked" => poll.rt \notin live[poll.acct]

OAuthInv == \A a \in Accounts : kind[a] \in Regimes

CredInv ==
    /\ OAuthInv /\ HandsInv /\ LockInv
    /\ GrantsInv /\ InHandInv /\ AheadInv /\ RevokedInv
    /\ RowTokenAccounted

\* The hands, one by one; primed as well.
LEMMA HandNames ==
    /\ \A t \in Tasks : /\ TaskHand(t) \in Hands
                        /\ TaskHand(t) # PollHand /\ TaskHand(t) # ReauthHand
                        /\ Full(TaskHand(t)) <=> pc[t] = "exchanged"
                        /\ Of(TaskHand(t)) = acct[t] /\ New(TaskHand(t)) = got[t]
                        /\ Full(TaskHand(t))' <=> pc'[t] = "exchanged"
                        /\ Of(TaskHand(t))' = acct'[t] /\ New(TaskHand(t))' = got'[t]
    /\ \A t, u \in Tasks : TaskHand(t) = TaskHand(u) => t = u
    /\ PollHand \in Hands /\ ReauthHand \in Hands /\ PollHand # ReauthHand
    /\ Full(PollHand) <=> poll.pc = "persist"
    /\ Full(PollHand)' <=> poll'.pc = "persist"
    /\ Of(PollHand) = poll.acct /\ New(PollHand) = poll.cur
    /\ Of(PollHand)' = poll'.acct /\ New(PollHand)' = poll'.cur
    /\ Full(ReauthHand) <=> reauth.pc = "granted"
    /\ Full(ReauthHand)' <=> reauth'.pc = "granted"
    /\ Of(ReauthHand) = reauth.acct /\ New(ReauthHand) = reauth.got
    /\ Of(ReauthHand)' = reauth'.acct /\ New(ReauthHand)' = reauth'.got
    /\ \A h \in Hands : (\E t \in Tasks : h = TaskHand(t)) \/ h = PollHand \/ h = ReauthHand
BY DEF Hands, TaskHand, PollHand, ReauthHand, Full, Of, New

\* Held names the hands but for the re-authentication's, whose session does not
\* replace one of the row.
LEMMA HeldByHand ==
    /\ \A a \in Accounts : Held(a) <=> \E h \in Hands \ {ReauthHand} : Full(h) /\ Of(h) = a
    /\ \A a \in Accounts :
          Held(a)' <=> \E h \in Hands \ {ReauthHand} : Full(h)' /\ Of(h)' = a
<1>1. ASSUME NEW a \in Accounts
      PROVE  Held(a) <=> \E h \in Hands \ {ReauthHand} : Full(h) /\ Of(h) = a
  <2>1. ASSUME Held(a) PROVE \E h \in Hands \ {ReauthHand} : Full(h) /\ Of(h) = a
    <3>1. CASE \E t \in Tasks : acct[t] = a /\ pc[t] = "exchanged"
      BY <3>1, HandNames
    <3>2. CASE poll.acct = a /\ poll.pc = "persist"
      BY <3>2, HandNames
    <3> QED BY <2>1, <3>1, <3>2 DEF Held
  <2>2. ASSUME NEW h \in Hands \ {ReauthHand}, Full(h), Of(h) = a PROVE Held(a)
    BY <2>2, HandNames DEF Held
  <2> QED BY <2>1, <2>2
<1>2. ASSUME NEW a \in Accounts
      PROVE  Held(a)' <=> \E h \in Hands \ {ReauthHand} : Full(h)' /\ Of(h)' = a
  <2>1. ASSUME Held(a)' PROVE \E h \in Hands \ {ReauthHand} : Full(h)' /\ Of(h)' = a
    <3>1. CASE \E t \in Tasks : acct'[t] = a /\ pc'[t] = "exchanged"
      BY <3>1, HandNames
    <3>2. CASE poll'.acct = a /\ poll'.pc = "persist"
      BY <3>2, HandNames
    <3> QED BY <2>1, <3>1, <3>2 DEF Held
  <2>2. ASSUME NEW h \in Hands \ {ReauthHand}, Full(h)', Of(h)' = a PROVE Held(a)'
    BY <2>2, HandNames DEF Held
  <2> QED BY <2>1, <2>2
<1> QED BY <1>1, <1>2

LEMMA HandTypes ==
    ASSUME CredTypeOK, NEW h \in Hands
    PROVE  Of(h) \in Accounts /\ New(h) \in Cred
           /\ New(h).at \in Nat /\ New(h).rt \in Nat
<1>0. /\ acct \in [Tasks -> Accounts] /\ got \in [Tasks -> Cred]
      /\ poll.acct \in Accounts /\ poll.cur \in Cred
      /\ reauth.acct \in Accounts /\ reauth.got \in Cred
  BY PollFields, RowTypes DEF CredTypeOK
<1>1. Of(h) \in Accounts /\ New(h) \in Cred
  <2>1. CASE \E t \in Tasks : h = TaskHand(t)
    BY <1>0, <2>1, HandNames
  <2>2. CASE h = PollHand \/ h = ReauthHand
    BY <1>0, <2>2, HandNames
  <2> QED BY <2>1, <2>2, HandNames
<1> QED BY <1>1, Constants DEF Cred, Token

LEMMA NumberTypes ==
    ASSUME CredTypeOK, NEW a \in Accounts
    PROVE  /\ issued[a] \in Nat /\ revoked[a] \in Nat /\ db[a].at \in Nat /\ db[a].rt \in Nat
           /\ Seen(a) \subseteq Nat /\ live[a] \subseteq Nat /\ 0 \notin live[a]
           /\ issued[a] >= 1
<1>1. /\ issued[a] \in 1..MaxIssued /\ live[a] \subseteq 1..MaxIssued
      /\ revoked[a] \in Token /\ db[a] \in Cred
  BY PollFields, RowTypes DEF CredTypeOK
<1>2. Known(a) \subseteq Nat /\ poll.rows[a].rt \in Nat /\ poll.rt \in Nat
  BY PollFields, Constants DEF Known, Token, Cred
<1> QED BY <1>1, <1>2, Constants DEF Seen, Token, Cred

LEMMA CredInvInit == CredInit => CredInv
<1> SUFFICES ASSUME CredInit PROVE CredInv
  OBVIOUS
<1>0. Init
  BY DEF CredInit
<1>1. HandsInv /\ LockInv
  BY <1>0, RowInvInit, LockInvInit DEF RowInv
<1>r. RowTokenAccounted
  BY <1>0 DEF RowTokenAccounted, Init, OAuthOnly
<1>2. \A a \in Accounts : Seen(a) \subseteq {0, 1} /\ live[a] = {1} /\ issued[a] = 1
                          /\ db[a].at = 1
  <2> SUFFICES ASSUME NEW a \in Accounts
               PROVE  Seen(a) \subseteq {0, 1} /\ live[a] = {1} /\ issued[a] = 1 /\ db[a].at = 1
    OBVIOUS
  <2>1. Known(a) \subseteq {0, 1}
    BY <1>0 DEF Init, Known, NoCred, Null
  <2>2. poll.rows[a].rt = 0 /\ poll.rt = 0
    BY DEF CredInit, Unpolled, NoCred, Null
  <2> QED BY <1>0, <2>1, <2>2 DEF Seen, Init
<1>3. GrantsInv
  BY <1>2 DEF GrantsInv, CredInit
<1>4. poll.pc = "idle" /\ reauth.pc = "idle" /\ \A t \in Tasks : pc[t] = "idle"
  BY DEF CredInit, Init, Unpolled
<1>5. InHandInv
  BY <1>4, HandNames DEF InHandInv
<1>6. AheadInv /\ RevokedInv /\ OAuthInv
  BY <1>4, HandNames DEF CredInit, AheadInv, RevokedInv, OAuthInv
<1> QED BY <1>1, <1>r, <1>3, <1>5, <1>6 DEF CredInv

----------------------------------------------------------------------------
(* The effects a step can have on rows and tokens *)

\* No row gets new tokens and no hand either: at most a row is wiped, tokens in
\* hand are given up, or refresh tokens consumed or revoked.
Calm ==
    /\ UNCHANGED kind
    /\ \A a \in Accounts :
          /\ \/ db'[a].at = db[a].at /\ db'[a].rt = db[a].rt
             \/ db'[a] = NoCred /\ poll.pc = "revoked" /\ poll.acct = a
          /\ Seen(a)' \subseteq Seen(a) \cup {Null}
          /\ issued[a] <= issued'[a] /\ revoked'[a] \in {revoked[a], issued[a]}
          /\ dropped[a] => dropped'[a]
          /\ \A r \in live[a] \ live'[a] :
                \/ r <= revoked'[a]
                \/ r \in Seen(a) /\ dropped'[a] /\ kind[a] = "rotating"
          /\ \A r \in live'[a] \ live[a] : issued[a] < r /\ r <= issued'[a]
    /\ \A h \in Hands :
          /\ Full(h)' => Full(h) /\ Of(h)' = Of(h) /\ New(h)' = New(h)
          /\ Full(h) /\ ~Full(h)' => h = ReauthHand \/ dropped'[Of(h)]
    /\ poll'.pc = "revoked" =>
          \/ poll.pc = "revoked" /\ poll'.rt = poll.rt /\ poll'.acct = poll.acct
          \/ poll'.rt \notin live'[poll'.acct]

\* What the four kinds of steps have to preserve; the rest of CredInv is not
\* about rows.
TokensInv == GrantsInv /\ InHandInv /\ RevokedInv /\ RowTokenAccounted

LEMMA CalmKeepsTokens ==
    ASSUME CredTypeOK, CredTypeOK', TokensInv, Calm
    PROVE  TokensInv'
<1>0. ASSUME NEW a \in Accounts
      PROVE  /\ issued[a] \in Nat /\ revoked[a] \in Nat /\ db[a].at \in Nat /\ db[a].rt \in Nat
             /\ Seen(a) \subseteq Nat /\ live[a] \subseteq Nat /\ 0 \notin live[a]
             /\ issued'[a] \in Nat /\ revoked'[a] \in Nat
             /\ live'[a] \subseteq Nat /\ 0 \notin live'[a]
  <2>1. issued'[a] \in 1..MaxIssued /\ revoked'[a] \in Token /\ live'[a] \subseteq 1..MaxIssued
    BY DEF CredTypeOK, TypeOK, Typed
  <2> QED BY <2>1, NumberTypes, Constants DEF Token
<1>r. \A a \in Accounts : revoked[a] <= revoked'[a] /\ revoked'[a] <= issued'[a]
  <2> SUFFICES ASSUME NEW a \in Accounts
               PROVE  revoked[a] <= revoked'[a] /\ revoked'[a] <= issued'[a]
    OBVIOUS
  <2>1. revoked[a] <= issued[a] /\ issued[a] <= issued'[a] /\ revoked'[a] \in {revoked[a], issued[a]}
    BY DEF TokensInv, GrantsInv, Calm
  <2> QED BY <1>0, <2>1
<1>1. GrantsInv'
  <2> SUFFICES ASSUME NEW a \in Accounts
               PROVE  db'[a].at <= issued'[a] /\ \A r \in Seen(a)' \cup live'[a] : r <= issued'[a]
    BY <1>r DEF GrantsInv
  <2>1. db[a].at <= issued[a] /\ \A r \in Seen(a) \cup live[a] : r <= issued[a]
    BY DEF TokensInv, GrantsInv
  <2>2. issued[a] <= issued'[a] /\ (db'[a].at = db[a].at \/ db'[a].at = 0)
    BY DEF Calm, NoCred, Null
  <2>3. \A r \in live'[a] : r \in live[a] \/ r <= issued'[a]
    BY DEF Calm
  <2>4. \A r \in Seen(a)' : r = 0 \/ r \in Seen(a)
    BY DEF Calm, Null
  <2> QED BY <1>0, <2>1, <2>2, <2>3, <2>4
<1>2. InHandInv'
  <2> SUFFICES ASSUME NEW h \in Hands, Full(h)', NEW a \in Accounts, a = Of(h), NEW c, c = New(h)
               PROVE  /\ c.at <= issued'[a] /\ c.rt <= issued'[a]
                      /\ c.rt \in live'[a] \/ c.rt <= revoked'[a]
                      /\ kind'[a] = "rotating" =>
                            /\ c.rt # Null /\ c.rt \notin Seen(a)'
                            /\ \A g \in Hands \ {h} : Full(g)' /\ Of(g)' = a => New(g)'.rt # c.rt
    <3>1. ASSUME NEW h \in Hands, Full(h)'
          PROVE  Of(h) \in Accounts /\ Of(h)' = Of(h) /\ New(h)' = New(h)
      BY <3>1, HandTypes DEF Calm
    <3> QED BY <3>1 DEF InHandInv, Seen, Known
  <2>1. /\ c.at <= issued[a] /\ c.rt <= issued[a] /\ c.at \in Nat /\ c.rt \in Nat
        /\ c.rt \in live[a] \/ c.rt <= revoked[a]
        /\ kind[a] = "rotating" =>
              /\ c.rt # Null /\ c.rt \notin Seen(a)
              /\ \A g \in Hands \ {h} : Full(g) /\ Of(g) = a => New(g).rt # c.rt
    BY HandTypes DEF Calm, TokensInv, InHandInv
  <2>2. c.at <= issued'[a] /\ c.rt <= issued'[a]
    <3>1. issued[a] <= issued'[a]
      BY DEF Calm
    <3> QED BY <1>0, <2>1, <3>1
  <2>3. c.rt \in live'[a] \/ c.rt <= revoked'[a]
    <3>1. revoked[a] <= revoked'[a]
      BY <1>r
    <3>2. c.rt \in live[a] \ live'[a] => c.rt <= revoked'[a] \/ (c.rt \in Seen(a) /\ kind[a] = "rotating")
      BY DEF Calm
    <3> QED BY <1>0, <2>1, <3>1, <3>2
  <2>4. ASSUME kind'[a] = "rotating"
        PROVE  /\ c.rt # Null /\ c.rt \notin Seen(a)'
               /\ \A g \in Hands \ {h} : Full(g)' /\ Of(g)' = a => New(g)'.rt # c.rt
    BY <2>1, <2>4 DEF Calm
  <2> QED BY <2>2, <2>3, <2>4
<1>4. RevokedInv'
  <2> SUFFICES ASSUME poll'.pc = "revoked" PROVE poll'.rt \notin live'[poll'.acct]
    BY DEF RevokedInv
  <2>1. CASE poll.pc = "revoked" /\ poll'.rt = poll.rt /\ poll'.acct = poll.acct
    <3>1. poll.acct \in Accounts /\ poll.rt \notin live[poll.acct]
      BY <2>1, PollFields DEF TokensInv, RevokedInv
    <3>2. poll.rt \in Nat /\ poll.rt <= issued[poll.acct]
      BY <3>1, NumberTypes DEF TokensInv, GrantsInv, Seen
    <3>3. \A r \in live'[poll.acct] \ live[poll.acct] : issued[poll.acct] < r
      BY <3>1 DEF Calm
    <3> QED BY <1>0, <2>1, <3>1, <3>2, <3>3
  <2> QED BY <2>1 DEF Calm
<1>5. RowTokenAccounted'
  <2> SUFFICES ASSUME NEW a \in Accounts, a \in OAuthOnly
               PROVE  \/ db'[a].rt \in live'[a] \cup {Null}
                      \/ db'[a].rt <= revoked'[a]
                      \/ dropped'[a]
                      \/ Held(a)'
    BY DEF RowTokenAccounted, Calm, OAuthOnly
  <2>1. CASE db'[a] = NoCred
    BY <2>1 DEF NoCred
  <2>2. CASE db'[a].rt = db[a].rt
    <3>1. CASE db[a].rt \in live[a] \cup {Null}
      BY <2>2, <3>1 DEF Calm
    <3>2. CASE db[a].rt <= revoked[a]
      <4>1. revoked[a] <= revoked'[a]
        BY <1>r
      <4> QED BY <1>0, <2>2, <3>2, <4>1
    <3>3. CASE dropped[a]
      BY <3>3 DEF Calm
    <3>4. CASE Held(a)
      <4>1. PICK h \in Hands \ {ReauthHand} : Full(h) /\ Of(h) = a
        BY <3>4, HeldByHand
      <4>2. Full(h)' \/ dropped'[a]
        BY <4>1 DEF Calm
      <4>3. Full(h)' => Of(h)' = a
        BY <4>1 DEF Calm
      <4> QED BY <4>1, <4>2, <4>3, HeldByHand
    <3> QED BY <3>1, <3>2, <3>3, <3>4 DEF TokensInv, RowTokenAccounted
  <2> QED BY <2>1, <2>2 DEF Calm
<1> QED BY <1>1, <1>2, <1>4, <1>5 DEF TokensInv

\* The provider makes a grant for an account and hand h has it.
Obtains(h) ==
    LET a == Of(h)'
    IN /\ UNCHANGED <<kind, db, dropped, revoked>>
       /\ a \in Accounts /\ ~Full(h) /\ Full(h)'
       /\ \A g \in Hands \ {h} : (Full(g)' <=> Full(g)) /\ Of(g)' = Of(g) /\ New(g)' = New(g)
       /\ \A b \in Accounts : Seen(b)' = Seen(b)
       /\ \A b \in Accounts \ {a} : issued'[b] = issued[b] /\ live'[b] = live[b]
       /\ issued'[a] = issued[a] + 1
       /\ live'[a] \subseteq live[a] \cup {issued'[a]}
       /\ \A r \in live[a] \ live'[a] :
             r \in Seen(a) /\ kind[a] = "rotating" /\ h # ReauthHand
       /\ New(h)'.at = issued'[a]
       /\ New(h)'.rt \in live'[a]
       /\ New(h)'.rt = issued'[a] \/ kind[a] # "rotating"
       /\ poll'.pc = "revoked" =>
             poll.pc = "revoked" /\ poll'.rt = poll.rt /\ poll'.acct = poll.acct

LEMMA ObtainsKeepsTokens ==
    ASSUME CredTypeOK, CredTypeOK', TokensInv, NEW h \in Hands, Obtains(h)
    PROVE  TokensInv'
<1> DEFINE a == Of(h)'
<1>0. ASSUME NEW b \in Accounts
      PROVE  /\ issued[b] \in Nat /\ revoked[b] \in Nat /\ db[b].at \in Nat /\ db[b].rt \in Nat
             /\ Seen(b) \subseteq Nat /\ live[b] \subseteq Nat
             /\ issued'[b] \in Nat /\ issued[b] <= issued'[b]
             /\ db[b].at <= issued[b] /\ \A r \in Seen(b) \cup live[b] : r <= issued[b]
  <2>1. issued[b] \in Nat
    BY NumberTypes
  <2>2. issued'[b] \in {issued[b], issued[b] + 1}
    BY DEF Obtains
  <2> QED BY <2>1, <2>2, NumberTypes DEF TokensInv, GrantsInv
<1>a. /\ a \in Accounts /\ issued'[a] = issued[a] + 1 /\ UNCHANGED <<kind, db, revoked>>
      /\ New(h)'.at = issued[a] + 1 /\ New(h)'.rt \in live'[a]
      /\ New(h)'.rt = issued[a] + 1 \/ kind[a] # "rotating"
  BY DEF Obtains
<1>l. \A b \in Accounts : \A r \in live'[b] : r \in live[b] \/ (b = a /\ r = issued[a] + 1)
  BY DEF Obtains
<1>1. GrantsInv'
  <2> SUFFICES ASSUME NEW b \in Accounts
               PROVE  /\ db'[b].at <= issued'[b] /\ revoked'[b] <= issued'[b]
                      /\ \A r \in Seen(b)' \cup live'[b] : r <= issued'[b]
    BY DEF GrantsInv
  <2>1. db'[b] = db[b] /\ Seen(b)' = Seen(b) /\ revoked'[b] = revoked[b] /\ revoked[b] <= issued[b]
    BY DEF Obtains, TokensInv, GrantsInv
  <2>2. \A r \in live'[b] : r <= issued'[b]
    BY <1>0, <1>a, <1>l
  <2> QED BY <1>0, <2>1, <2>2
<1>2. InHandInv'
  <2> SUFFICES ASSUME NEW g \in Hands, Full(g)', NEW b \in Accounts, b = Of(g)', NEW c, c = New(g)'
               PROVE  /\ c.at <= issued'[b] /\ c.rt <= issued'[b]
                      /\ c.rt \in live'[b] \/ c.rt <= revoked'[b]
                      /\ kind'[b] = "rotating" =>
                            /\ c.rt # Null /\ c.rt \notin Seen(b)'
                            /\ \A k \in Hands \ {g} : Full(k)' /\ Of(k)' = b => New(k)'.rt # c.rt
    <3>1. ASSUME NEW g \in Hands, Full(g)' PROVE Of(g)' \in Accounts
      BY <1>a, <3>1, HandTypes DEF Obtains
    <3> QED BY <3>1 DEF InHandInv, Seen, Known
  <2>1. CASE g = h
    <3>1. /\ b = a /\ c.at = issued[a] + 1 /\ c.rt \in live'[a]
          /\ c.rt = issued[a] + 1 \/ kind[a] # "rotating"
      BY <1>a, <2>1
    <3>2. c.at <= issued'[b] /\ c.rt <= issued'[b]
      BY <1>0, <1>1, <1>a, <3>1 DEF GrantsInv
    <3>3. ASSUME kind'[b] = "rotating"
          PROVE  /\ c.rt # Null /\ c.rt \notin Seen(b)'
                 /\ \A k \in Hands \ {g} : Full(k)' /\ Of(k)' = b => New(k)'.rt # c.rt
      <4>1. c.rt = issued[a] + 1
        BY <1>a, <3>1, <3>3
      <4>2. Seen(b)' = Seen(b)
        BY DEF Obtains
      <4>3. ASSUME NEW k \in Hands \ {g}, Full(k)', Of(k)' = b
            PROVE  New(k)'.rt # c.rt
        <5>1. Full(k) /\ Of(k) = a /\ New(k)' = New(k)
          BY <2>1, <3>1, <4>3 DEF Obtains
        <5>2. New(k).rt \in Nat /\ New(k).rt <= issued[a]
          BY <5>1, HandTypes DEF TokensInv, InHandInv
        <5> QED BY <1>0, <1>a, <4>1, <5>1, <5>2
      <4> QED BY <1>0, <1>a, <3>1, <4>1, <4>2, <4>3 DEF Null
    <3> QED BY <3>1, <3>2, <3>3
  <2>2. CASE g # h
    <3>1. Full(g) /\ b = Of(g) /\ c = New(g)
      BY <2>2 DEF Obtains
    <3>2. /\ c.at <= issued[b] /\ c.rt <= issued[b] /\ c.at \in Nat /\ c.rt \in Nat
          /\ c.rt \in live[b] \/ c.rt <= revoked[b]
          /\ kind[b] = "rotating" =>
                /\ c.rt # Null /\ c.rt \notin Seen(b)
                /\ \A k \in Hands \ {g} : Full(k) /\ Of(k) = b => New(k).rt # c.rt
      BY <3>1, HandTypes DEF TokensInv, InHandInv
    <3>3. c.at <= issued'[b] /\ c.rt <= issued'[b]
      BY <1>0, <3>2
    <3>4. c.rt \in live[b] => c.rt \in live'[b]
      BY <3>2 DEF Obtains
    <3>5. ASSUME kind[b] = "rotating", NEW k \in Hands \ {g}, Full(k)', Of(k)' = b
          PROVE  New(k)'.rt # c.rt
      <4>1. CASE k # h
        BY <3>2, <3>5, <4>1 DEF Obtains
      <4>2. CASE k = h
        BY <1>0, <1>a, <3>2, <3>5, <4>2
      <4> QED BY <4>1, <4>2
    <3> QED BY <1>a, <3>2, <3>3, <3>4, <3>5 DEF Obtains
  <2> QED BY <2>1, <2>2
<1>4. RevokedInv'
  <2> SUFFICES ASSUME poll'.pc = "revoked" PROVE poll'.rt \notin live'[poll'.acct]
    BY DEF RevokedInv
  <2>1. poll.pc = "revoked" /\ poll'.rt = poll.rt /\ poll'.acct = poll.acct
    BY DEF Obtains
  <2>2. poll.acct \in Accounts /\ poll.rt \notin live[poll.acct] /\ poll.rt \in Seen(poll.acct)
    BY <2>1, PollFields DEF TokensInv, RevokedInv, Seen
  <2> QED BY <1>0, <1>l, <2>1, <2>2
<1>5. RowTokenAccounted'
  <2> SUFFICES ASSUME NEW b \in Accounts, b \in OAuthOnly
               PROVE  \/ db[b].rt \in live'[b] \cup {Null}
                      \/ db[b].rt <= revoked[b]
                      \/ dropped[b]
                      \/ Held(b)'
    BY DEF RowTokenAccounted, Obtains, OAuthOnly
  <2>1. CASE db[b].rt \in live[b]
    <3>1. CASE h # ReauthHand /\ b = a
      BY <3>1, HeldByHand DEF Obtains
    <3>2. CASE ~(h # ReauthHand /\ b = a)
      BY <2>1, <3>2 DEF Obtains
    <3> QED BY <3>1, <3>2
  <2>2. CASE Held(b)
    <3>1. PICK g \in Hands \ {ReauthHand} : Full(g) /\ Of(g) = b
      BY <2>2, HeldByHand
    <3>2. Full(g)' /\ Of(g)' = b
      BY <3>1 DEF Obtains
    <3> QED BY <3>1, <3>2, HeldByHand
  <2> QED BY <2>1, <2>2 DEF TokensInv, RowTokenAccounted
<1> QED BY <1>1, <1>2, <1>4, <1>5 DEF TokensInv

\* Hand h writes its tokens to the row, or loses them.
Delivers(h, stored) ==
    LET a == Of(h)
    IN /\ UNCHANGED <<kind, issued, live, revoked>>
       /\ Full(h) /\ ~Full(h)'
       /\ \A g \in Hands \ {h} : (Full(g)' <=> Full(g)) /\ Of(g)' = Of(g) /\ New(g)' = New(g)
       /\ \A b \in Accounts :
             Seen(b)' \subseteq Seen(b) \cup {Null} \cup (IF b = a THEN {New(h).rt} ELSE {})
       /\ \A b \in Accounts \ {a} :
             db'[b] = db[b] /\ dropped'[b] = dropped[b]
       /\ IF stored THEN db'[a] = New(h) /\ dropped'[a] = dropped[a]
          ELSE db'[a] = db[a] /\ dropped'[a]
       /\ poll'.pc = "revoked" =>
             poll.pc = "revoked" /\ poll'.rt = poll.rt /\ poll'.acct = poll.acct

LEMMA DeliversKeepsTokens ==
    ASSUME CredTypeOK, CredTypeOK', TokensInv,
           NEW h \in Hands, NEW stored \in BOOLEAN, Delivers(h, stored)
    PROVE  TokensInv'
<1> DEFINE a == Of(h)
           n == New(h)
<1>0. /\ a \in Accounts /\ n.at \in Nat /\ n.rt \in Nat
      /\ UNCHANGED <<kind, issued, live, revoked>>
      /\ n.at <= issued[a] /\ n.rt <= issued[a]
      /\ n.rt \in live[a] \/ n.rt <= revoked[a]
      /\ kind[a] = "rotating" =>
            \A g \in Hands \ {h} : Full(g) /\ Of(g) = a => New(g).rt # n.rt
  BY HandTypes DEF Delivers, TokensInv, InHandInv
<1>n. ASSUME NEW b \in Accounts
      PROVE  /\ issued[b] \in Nat /\ db[b].at \in Nat /\ Seen(b) \subseteq Nat
             /\ db[b].at <= issued[b] /\ \A r \in Seen(b) \cup live[b] : r <= issued[b]
  BY NumberTypes DEF TokensInv, GrantsInv
<1>1. GrantsInv'
  <2> SUFFICES ASSUME NEW b \in Accounts
               PROVE  db'[b].at <= issued[b] /\ \A r \in Seen(b)' \cup live[b] : r <= issued[b]
    BY <1>0 DEF GrantsInv, TokensInv
  <2>1. db'[b] = db[b] \/ (b = a /\ db'[b] = n)
    BY DEF Delivers
  <2>2. \A r \in Seen(b)' : r \in Seen(b) \/ r = 0 \/ (b = a /\ r = n.rt)
    BY DEF Delivers, Null
  <2> QED BY <1>0, <1>n, <2>1, <2>2
<1>2. ASSUME NEW g \in Hands, Full(g)'
      PROVE  g # h /\ Full(g) /\ Of(g)' = Of(g) /\ New(g)' = New(g) /\ Of(g) \in Accounts
  BY <1>2, HandTypes DEF Delivers
<1>3. InHandInv'
  <2> SUFFICES ASSUME NEW g \in Hands, Full(g)', NEW b \in Accounts, b = Of(g), NEW c, c = New(g)
               PROVE  /\ c.at <= issued[b] /\ c.rt <= issued[b]
                      /\ c.rt \in live[b] \/ c.rt <= revoked[b]
                      /\ kind[b] = "rotating" =>
                            /\ c.rt # Null /\ c.rt \notin Seen(b)'
                            /\ \A k \in Hands \ {g} : Full(k)' /\ Of(k)' = b => New(k)'.rt # c.rt
    BY <1>0, <1>2 DEF InHandInv, Seen, Known
  <2>1. /\ g # h /\ Full(g)
        /\ c.at <= issued[b] /\ c.rt <= issued[b]
        /\ c.rt \in live[b] \/ c.rt <= revoked[b]
        /\ kind[b] = "rotating" =>
              /\ c.rt # Null /\ c.rt \notin Seen(b)
              /\ \A k \in Hands \ {g} : Full(k) /\ Of(k) = b => New(k).rt # c.rt
    BY <1>2 DEF TokensInv, InHandInv
  <2>2. ASSUME kind[b] = "rotating" PROVE c.rt \notin Seen(b)'
    <3>1. b = a => c.rt # n.rt
      BY <1>0, <2>1, <2>2
    <3> QED BY <2>1, <2>2, <3>1 DEF Delivers
  <2>3. ASSUME kind[b] = "rotating", NEW k \in Hands \ {g}, Full(k)', Of(k)' = b
        PROVE  New(k)'.rt # c.rt
    BY <1>2, <2>1, <2>3
  <2> QED BY <2>1, <2>2, <2>3
<1>5. RevokedInv'
  <2> SUFFICES ASSUME poll'.pc = "revoked" PROVE poll'.rt \notin live'[poll'.acct]
    BY DEF RevokedInv
  <2>1. poll.pc = "revoked" /\ poll'.rt = poll.rt /\ poll'.acct = poll.acct
    BY DEF Delivers
  <2> QED BY <1>0, <2>1 DEF TokensInv, RevokedInv
<1>6. RowTokenAccounted'
  <2> SUFFICES ASSUME NEW b \in Accounts, b \in OAuthOnly
               PROVE  \/ db'[b].rt \in live[b] \cup {Null}
                      \/ db'[b].rt <= revoked[b]
                      \/ dropped'[b]
                      \/ Held(b)'
    BY <1>0 DEF RowTokenAccounted, OAuthOnly
  <2>1. CASE b = a
    BY <1>0, <2>1 DEF Delivers
  <2>2. CASE b # a
    <3>1. db'[b] = db[b] /\ dropped'[b] = dropped[b]
      BY <2>2 DEF Delivers
    <3>2. CASE Held(b)
      <4>1. PICK g \in Hands \ {ReauthHand} : Full(g) /\ Of(g) = b
        BY <3>2, HeldByHand
      <4>2. Full(g)' /\ Of(g)' = b
        BY <2>2, <4>1 DEF Delivers
      <4> QED BY <4>1, <4>2, HeldByHand
    <3> QED BY <3>1, <3>2 DEF TokensInv, RowTokenAccounted
  <2> QED BY <2>1, <2>2
<1> QED BY <1>1, <1>3, <1>5, <1>6 DEF TokensInv

----------------------------------------------------------------------------
(* Which action has which effect *)

\* Steps of the token manager that make or write no tokens.
LEMMA QuietIsCalm ==
    ASSUME CredTypeOK, Quiet, UNCHANGED <<poll, reauth, revoked>>
    PROVE  Calm
<1>1. \A a \in Accounts : Seen(a)' \subseteq Seen(a) \cup {Null} /\ Known(a) \subseteq Seen(a)
  BY DEF Quiet, Seen
<1>2. ASSUME NEW h \in Hands
      PROVE  /\ Full(h)' => Full(h) /\ Of(h)' = Of(h) /\ New(h)' = New(h)
             /\ Full(h) /\ ~Full(h)' => h = ReauthHand \/ dropped'[Of(h)]
  <2>1. CASE \E t \in Tasks : h = TaskHand(t)
    <3>1. PICK t \in Tasks : h = TaskHand(t)
      BY <2>1
    <3>2. /\ pc'[t] = "exchanged" => pc[t] = "exchanged" /\ acct'[t] = acct[t] /\ got'[t] = got[t]
          /\ pc[t] = "exchanged" /\ pc'[t] # "exchanged" => dropped'[acct[t]]
      BY DEF Quiet
    <3> QED BY <3>1, <3>2, HandNames
  <2>2. CASE h = PollHand \/ h = ReauthHand
    BY <2>2, HandNames
  <2> QED BY <2>1, <2>2, HandNames
<1> QED BY <1>1, <1>2 DEF Quiet, Calm

\* Nothing but clock, caches, markers and the like: no token moves.
LEMMA StillIsCalm ==
    ASSUME CredTypeOK,
           UNCHANGED <<kind, cached, load, mem, got, pc, acct, lk, issued, live, dropped,
                       revoked, reauth>>,
           \A a \in Accounts : db'[a].at = db[a].at /\ db'[a].rt = db[a].rt,
           UNCHANGED poll
    PROVE  Calm
<1>1. \A a \in Accounts : Seen(a)' = Seen(a) /\ issued[a] <= issued'[a]
  BY NumberTypes DEF Seen, Known
<1>2. \A h \in Hands : (Full(h)' <=> Full(h)) /\ Of(h)' = Of(h) /\ New(h)' = New(h)
  BY HandNames
<1> QED BY <1>1, <1>2 DEF Calm

\* A step of the poller that neither gets nor writes tokens.
LEMMA PollerIsCalm ==
    ASSUME CredTypeOK,
           UNCHANGED <<kind, cached, load, mem, got, pc, acct, lk, revoked, reauth>>,
           \A a \in Accounts :
              db'[a] = db[a] \/ (db'[a] = NoCred /\ poll.pc = "revoked" /\ poll.acct = a),
           \/ UNCHANGED <<issued, live, dropped>>
           \/ /\ Grant(poll.acct, poll.rt)
              /\ dropped' = [dropped EXCEPT ![poll.acct] = TRUE],
           poll.pc # "persist", poll'.pc # "persist",
           \A a \in Accounts : poll'.rows[a].rt \in Seen(a) \cup {Null},
           poll'.rt \in Seen(poll'.acct) \cup {Null},
           poll'.pc = "revoked" => poll'.rt \notin live'[poll'.acct]
    PROVE  Calm
<1>0. ASSUME NEW a \in Accounts
      PROVE  issued[a] \in Nat /\ dropped[a] \in BOOLEAN /\ poll.acct \in Accounts
  BY NumberTypes, PollFields, RowTypes DEF CredTypeOK
<1>1. ASSUME NEW a \in Accounts PROVE Seen(a)' \subseteq Seen(a) \cup {Null}
  <2>1. Known(a)' \subseteq Known(a) \cup {Null}
    BY DEF Known, NoCred
  <2> QED BY <2>1 DEF Seen
<1>2. ASSUME NEW h \in Hands
      PROVE  /\ Full(h)' => Full(h) /\ Of(h)' = Of(h) /\ New(h)' = New(h)
             /\ Full(h) /\ ~Full(h)' => h = ReauthHand \/ dropped'[Of(h)]
  BY HandNames
<1>3. ASSUME NEW a \in Accounts
      PROVE  /\ issued[a] <= issued'[a] /\ (dropped[a] => dropped'[a])
             /\ \A r \in live[a] \ live'[a] :
                   r \in Seen(a) /\ dropped'[a] /\ kind[a] = "rotating"
             /\ \A r \in live'[a] \ live[a] : issued[a] < r /\ r <= issued'[a]
  <2>1. CASE UNCHANGED <<issued, live, dropped>>
    BY <1>0, <2>1
  <2>2. CASE Grant(poll.acct, poll.rt) /\ dropped' = [dropped EXCEPT ![poll.acct] = TRUE]
    <3>1. /\ issued' = [issued EXCEPT ![poll.acct] = issued[poll.acct] + 1]
          /\ live' = [live EXCEPT ![poll.acct] =
                        IF kind[poll.acct] = "rotating"
                        THEN (live[poll.acct] \ {poll.rt}) \cup {issued[poll.acct] + 1}
                        ELSE live[poll.acct]]
      BY <2>2 DEF Grant
    <3>2. /\ issued \in [Accounts -> 1..MaxIssued] /\ live \in [Accounts -> SUBSET (1..MaxIssued)]
          /\ dropped \in [Accounts -> BOOLEAN]
      BY RowTypes DEF CredTypeOK
    <3>3. CASE a = poll.acct
      <4>1. issued'[a] = issued[a] + 1 /\ dropped'[a] /\ poll.rt \in Seen(a)
        BY <2>2, <3>1, <3>2, <3>3 DEF Seen
      <4>2. /\ \A r \in live[a] \ live'[a] : r = poll.rt /\ kind[a] = "rotating"
            /\ \A r \in live'[a] \ live[a] : r = issued[a] + 1
        BY <3>1, <3>2, <3>3
      <4> QED BY <1>0, <4>1, <4>2
    <3>4. CASE a # poll.acct
      BY <1>0, <2>2, <3>1, <3>2, <3>4
    <3> QED BY <3>3, <3>4
  <2> QED BY <2>1, <2>2
<1>4. \A a \in Accounts : \/ db'[a].at = db[a].at /\ db'[a].rt = db[a].rt
                          \/ db'[a] = NoCred /\ poll.pc = "revoked" /\ poll.acct = a
  OBVIOUS
<1> QED BY <1>0, <1>1, <1>2, <1>3, <1>4 DEF Calm

\* A request step: the token manager's own, or the end of the request.
LEMMA RequestEffects ==
    ASSUME CredTypeOK, CredTypeOK', HandsInv, OAuthInv, NEW t \in Tasks, RequestStep(t)
    PROVE  \/ Calm
           \/ Obtains(TaskHand(t))
           \/ \E persisted \in BOOLEAN : Delivers(TaskHand(t), persisted)
<1> USE DEF credVars, statusVars, flowVars
<1>0. TypeOK /\ TypeOK'
  BY DEF CredTypeOK
<1>q. ASSUME QuietAction(t), UNCHANGED <<poll, reauth, revoked>> PROVE Calm
  BY <1>0, <1>q, QuietActions, QuietIsCalm
\* A task without tokens in hand is gone; it may have stored the rows it read.
<1>v. ASSUME Vanish(t), pc[t] # "exchanged",
             cached' = cached \/ (pc[t] = "loading" /\ cached' = load[t]),
             UNCHANGED <<kind, db, issued, live, lockGen, dropped, poll, reauth, revoked>>
      PROVE  Calm
  <2>1. /\ pc' = [pc EXCEPT ![t] = "idle"] /\ mem' = [mem EXCEPT ![t] = NoCred]
        /\ load' = [load EXCEPT ![t] = [a \in Accounts |-> NoCred]]
        /\ got' = [got EXCEPT ![t] = NoCred] /\ lk' = [lk EXCEPT ![t] = 0]
        /\ UNCHANGED acct
    BY <1>v DEF Vanish
  <2>2. \A b \in Accounts : cached'[b].rt \in Known(b) \cup {Null}
    BY <1>0, <1>v, InKnown
  <2>3. NoCred.rt = Null
    BY DEF NoCred
  <2>4. /\ load'[t] = [a \in Accounts |-> NoCred] /\ mem'[t] = NoCred /\ pc'[t] = "idle"
        /\ got'[t] = NoCred
        /\ \A u \in Tasks \ {t} :
              /\ pc'[u] = pc[u] /\ got'[u] = got[u] /\ acct'[u] = acct[u] /\ lk'[u] = lk[u]
              /\ mem'[u] = mem[u] /\ load'[u] = load[u]
    BY <1>0, <2>1, RowTypes
  <2>5. Quiet
    BY <1>0, <1>v, <2>2, <2>3, <2>4, QuietStep
  <2> QED BY <1>v, <2>5, QuietIsCalm
<1>1. ASSUME NEW a \in Accounts, CloneRoutable(t, a) \/ ReadRows(t, a) PROVE Calm
  BY <1>1, <1>q DEF CloneRoutable, ReadRows, QuietAction
<1>2. ASSUME StoreRows(t) PROVE Calm
  <2>1. StoreAccounts(t) => Calm
    BY <1>2, <1>q DEF StoreRows, QuietAction
  <2>2. ~StoreAccounts(t) => Calm
    BY <1>2, <1>v DEF StoreRows, providerVars, lockVars
  <2> QED BY <2>1, <2>2
<1>3. ASSUME TokenStep(t), ~Exchange(t) PROVE Calm
  BY <1>3, <1>q DEF TokenStep, QuietAction
<1>4. ASSUME TokenStep(t), Exchange(t) PROVE Obtains(TaskHand(t))
  <2> DEFINE a == acct[t]
             r == mem[t].rt
  <2>1. /\ a \in Accounts /\ pc[t] = "calling"
        /\ r \in live[a] /\ r \in Known(a)
        /\ issued' = [issued EXCEPT ![a] = issued[a] + 1]
        /\ live' = [live EXCEPT ![a] =
                      IF kind[a] = "rotating" THEN (live[a] \ {r}) \cup {issued[a] + 1}
                      ELSE live[a]]
        /\ pc' = [pc EXCEPT ![t] = "exchanged"]
        /\ got' = [got EXCEPT ![t] = Granted(a, r)]
        /\ UNCHANGED <<kind, db, cached, load, mem, acct, lk, dropped, poll, reauth, revoked>>
    BY <1>0, <1>4, RowTypes, InKnown DEF TokenStep, Exchange, Grant, cacheVars
  <2>2. /\ issued'[a] = issued[a] + 1
        /\ \A b \in Accounts \ {a} : issued'[b] = issued[b] /\ live'[b] = live[b]
        /\ live'[a] \subseteq live[a] \cup {issued[a] + 1}
        /\ \A k \in live[a] \ live'[a] : k = r /\ kind[a] = "rotating"
    BY <1>0, <2>1, RowTypes
  <2>3. /\ pc'[t] = "exchanged" /\ got'[t] = Granted(a, r)
        /\ \A u \in Tasks \ {t} : pc'[u] = pc[u] /\ got'[u] = got[u]
    BY <1>0, <2>1, RowTypes
  <2>4. /\ got'[t].at = issued[a] + 1 /\ got'[t].rt \in live'[a]
        /\ got'[t].rt = issued[a] + 1 \/ kind[a] # "rotating"
    BY <1>0, <2>1, <2>3, RowTypes DEF Granted
  <2>5. \A b \in Accounts : Seen(b)' = Seen(b)
    BY <2>1 DEF Seen, Known
  <2>6. Of(TaskHand(t))' = a /\ New(TaskHand(t))' = got'[t]
        /\ ~Full(TaskHand(t)) /\ Full(TaskHand(t))' /\ TaskHand(t) # ReauthHand
    BY <2>1, <2>3, HandNames
  <2>7. \A g \in Hands \ {TaskHand(t)} :
           (Full(g)' <=> Full(g)) /\ Of(g)' = Of(g) /\ New(g)' = New(g)
    <3> SUFFICES ASSUME NEW g \in Hands \ {TaskHand(t)}
                 PROVE  (Full(g)' <=> Full(g)) /\ Of(g)' = Of(g) /\ New(g)' = New(g)
      OBVIOUS
    <3>1. CASE \E u \in Tasks : g = TaskHand(u)
      <4>1. PICK u \in Tasks : g = TaskHand(u)
        BY <3>1
      <4>2. u # t
        BY <4>1
      <4> QED BY <2>1, <2>3, <4>1, <4>2, HandNames
    <3>2. CASE g = PollHand \/ g = ReauthHand
      BY <2>1, <3>2, HandNames
    <3> QED BY <3>1, <3>2, HandNames
  <2>8. Known(a) \subseteq Seen(a)
    BY DEF Seen
  <2> QED BY <2>1, <2>2, <2>4, <2>5, <2>6, <2>7, <2>8 DEF Obtains
<1>5. ASSUME NEW persisted \in BOOLEAN, CompleteRefresh(t, persisted)
      PROVE  Delivers(TaskHand(t), persisted)
  <2> DEFINE a == acct[t]
             n == got[t]
  <2>1. /\ a \in Accounts /\ n \in Cred /\ mem[t] \in Cred /\ pc[t] = "exchanged"
        /\ pc' = [pc EXCEPT ![t] = "done"]
        /\ mem' = [mem EXCEPT ![t] = [n EXCEPT !.rt = IF n.rt # Null THEN n.rt ELSE mem[t].rt]]
        /\ got' = [got EXCEPT ![t] = NoCred]
        /\ db' = IF persisted THEN [db EXCEPT ![a] = n] ELSE db
        /\ dropped' = IF persisted THEN dropped ELSE [dropped EXCEPT ![a] = TRUE]
        /\ UNCHANGED <<kind, issued, live, cached, load, acct, lk, poll, reauth, revoked>>
    BY <1>0, <1>5, RowTypes
    DEF CompleteRefresh, Complete, Stored, Answer, providerVars, cacheVars
  <2>2. mem'[t].rt \in {n.rt, mem[t].rt} /\ \A u \in Tasks \ {t} : mem'[u] = mem[u]
    BY <1>0, <2>1, RowTypes DEF Cred
  <2>3. ASSUME NEW b \in Accounts
        PROVE  Seen(b)' \subseteq Seen(b) \cup (IF b = a THEN {n.rt} ELSE {})
    <3>1. db'[b].rt = db[b].rt \/ (b = a /\ db'[b].rt = n.rt)
      BY <1>0, <2>1, RowTypes
    <3>2. \A u \in Tasks : acct[u] = b =>
             mem'[u].rt = mem[u].rt \/ (b = a /\ mem'[u].rt = n.rt)
      BY <2>2
    <3>3. Known(b)' \subseteq Known(b) \cup (IF b = a THEN {n.rt} ELSE {})
      BY <2>1, <3>1, <3>2 DEF Known
    <3> QED BY <2>1, <3>3 DEF Seen
  <2>4. /\ Of(TaskHand(t)) = a /\ New(TaskHand(t)) = n /\ Full(TaskHand(t))
        /\ ~Full(TaskHand(t))' /\ TaskHand(t)[1] = "task" /\ TaskHand(t)[2] = t
    BY <1>0, <2>1, HandNames, RowTypes DEF TaskHand
  <2>5. \A g \in Hands \ {TaskHand(t)} :
           (Full(g)' <=> Full(g)) /\ Of(g)' = Of(g) /\ New(g)' = New(g)
    <3> SUFFICES ASSUME NEW g \in Hands \ {TaskHand(t)}
                 PROVE  (Full(g)' <=> Full(g)) /\ Of(g)' = Of(g) /\ New(g)' = New(g)
      OBVIOUS
    <3>1. CASE \E u \in Tasks : g = TaskHand(u)
      <4>1. PICK u \in Tasks : g = TaskHand(u)
        BY <3>1
      <4>2. u # t /\ pc'[u] = pc[u] /\ got'[u] = got[u] /\ acct'[u] = acct[u]
        BY <1>0, <2>1, <4>1, RowTypes
      <4> QED BY <4>1, <4>2, HandNames
    <3>2. CASE g = PollHand \/ g = ReauthHand
      BY <2>1, <3>2, HandNames
    <3> QED BY <3>1, <3>2, HandNames
  <2>6. /\ \A b \in Accounts \ {a} :
              db'[b] = db[b] /\ dropped'[b] = dropped[b]
        /\ IF persisted THEN db'[a] = n /\ dropped'[a] = dropped[a]
           ELSE db'[a] = db[a] /\ dropped'[a]
    BY <1>0, <2>1, RowTypes, PollFields
  <2> QED BY <2>1, <2>3, <2>4, <2>5, <2>6 DEF Delivers
<1>6. ASSUME AbortRequest(t) PROVE Calm
  BY <1>6, <1>q DEF AbortRequest, Abort, QuietAction
<1>7. ASSUME Respond(t) PROVE Calm
  BY <1>7, <1>v DEF Respond, providerVars, cacheVars, lockVars
<1>8. ASSUME GiveUp(t) PROVE Calm
  BY <1>8, <1>q DEF GiveUp, QuietAction
<1>9. ASSUME WriteStatus(t) PROVE Calm
  <2>1. \A b \in Accounts : db'[b].at = db[b].at /\ db'[b].rt = db[b].rt
    <3>1. db' = db \/ db' = [db EXCEPT ![acct[t]] = Marked(db[acct[t]], late[t])]
      BY <1>9 DEF WriteStatus
    <3>2. db[acct[t]] \in Cred /\ db \in [Accounts -> Cred]
      BY <1>0, RowTypes
    <3>3. /\ Marked(db[acct[t]], late[t]).at = db[acct[t]].at
          /\ Marked(db[acct[t]], late[t]).rt = db[acct[t]].rt
      BY <3>2 DEF Marked, Cred
    <3> QED BY <3>1, <3>2, <3>3
  <2> QED BY <1>9, <2>1, StillIsCalm DEF WriteStatus, providerVars, cacheVars, lockVars, taskVars
<1>10. ASSUME SkipStatus(t) PROVE Calm
  BY <1>10, StillIsCalm DEF SkipStatus, vars, providerVars, cacheVars, lockVars, taskVars
<1> QED
  BY <1>1, <1>2, <1>3, <1>4, <1>5, <1>6, <1>7, <1>8, <1>9, <1>10 DEF RequestStep

\* A step of the usage poller.
LEMMA PollEffects ==
    ASSUME CredTypeOK, CredTypeOK', OAuthInv, RevokedInv, PollStep
    PROVE  \/ Calm
           \/ Obtains(PollHand)
           \/ \E ok \in BOOLEAN : Delivers(PollHand, ok)
<1> USE DEF statusVars, flowVars, vars, providerVars, cacheVars, taskVars
<1>0. /\ TypeOK /\ TypeOK' /\ poll.acct \in Accounts /\ poll.rows \in [Accounts -> Cred]
      /\ poll.rt \in Seen(poll.acct) /\ \A b \in Accounts : poll.rows[b].rt \in Seen(b)
      /\ NoCred.rt = Null
  BY PollFields DEF CredTypeOK, Seen, NoCred
<1>k. \A b \in Accounts : db[b].rt \in Seen(b)
  BY <1>0, InKnown DEF Seen
\* The poll of an account ends: the snapshot stays, the token in use goes.
<1>n. ASSUME NextPoll
      PROVE  /\ poll'.pc \in {"idle", "pause"} /\ poll'.rt = Null
             /\ \A b \in Accounts : poll'.rows[b].rt \in Seen(b)
  BY <1>0, <1>n DEF NextPoll, Rest, Unpolled
\* A step that changes the poller alone.
<1>s. ASSUME UNCHANGED <<vars, reauth, revoked>>,
             poll.pc # "persist", poll'.pc # "persist",
             \A b \in Accounts : poll'.rows[b].rt \in Seen(b) \cup {Null},
             poll'.rt \in Seen(poll'.acct) \cup {Null},
             poll'.pc = "revoked" => poll'.rt \notin live[poll'.acct]
      PROVE  Calm
  <2>1. UNCHANGED <<kind, db, cached, load, mem, got, pc, acct, lk, issued, live, dropped,
                    reauth, revoked>>
    BY <1>s
  <2> QED BY <1>s, <2>1, PollerIsCalm
<1>1. ASSUME NEW a \in Accounts, PollAccount(a) PROVE Calm
  <2> DEFINE rows == IF poll.pc = "idle" THEN db ELSE poll.rows
             left == (IF poll.pc = "idle" THEN OAuthOnly ELSE poll.todo) \ {a}
             rest == [b \in Accounts |-> IF b \in left THEN rows[b] ELSE NoCred]
  <2>1. \A b \in Accounts : rows[b].rt \in Seen(b) /\ rest[b].rt \in Seen(b) \cup {Null}
    BY <1>0, <1>k
  <2>2. \/ poll' = [pc |-> "fetch", rows |-> rest, todo |-> left, acct |-> a,
                    cur |-> rows[a], rt |-> rows[a].rt]
        \/ poll' = Rest(a, rest, left)
    BY <1>1 DEF PollAccount
  <2> HIDE DEF rows, left, rest
  <2>3. /\ poll'.pc \in {"fetch", "idle", "pause"} /\ poll'.rows = rest
        /\ poll'.acct = a /\ poll'.rt \in Seen(a) \cup {Null}
    <3>1. ASSUME poll' = Rest(a, rest, left)
          PROVE  /\ poll'.pc \in {"idle", "pause"} /\ poll'.rows = rest
                 /\ poll'.acct = a /\ poll'.rt = Null
      BY <3>1 DEF Rest, Unpolled
    <3>2. rows[a].rt \in Seen(a)
      BY <2>1
    <3> QED BY <2>2, <3>1, <3>2
  <2>4. poll.pc # "persist" /\ UNCHANGED <<vars, reauth, revoked>>
    BY <1>1 DEF PollAccount
  <2> QED BY <1>s, <2>1, <2>3, <2>4
<1>2. ASSUME FetchUsage PROVE Calm
  BY <1>2, <1>n, <1>s DEF FetchUsage
<1>3. ASSUME PollRefresh PROVE Obtains(PollHand)
  <2> DEFINE a == poll.acct
             r == poll.rt
  <2>1. /\ a \in Accounts /\ poll.pc = "fetch" /\ r \in live[a]
        /\ issued' = [issued EXCEPT ![a] = issued[a] + 1]
        /\ live' = [live EXCEPT ![a] =
                      IF kind[a] = "rotating" THEN (live[a] \ {r}) \cup {issued[a] + 1}
                      ELSE live[a]]
        /\ poll'.pc = "persist" /\ poll'.cur = Granted(a, r)
        /\ poll'.acct = a /\ poll'.rt = r /\ poll'.rows = poll.rows
        /\ UNCHANGED <<kind, db, cached, load, mem, got, pc, acct, lk, dropped, reauth,
                       revoked>>
    BY <1>0, <1>3, PollFields DEF PollRefresh, UsageRejected, Grant, Polls
  <2>2. /\ issued'[a] = issued[a] + 1
        /\ \A b \in Accounts \ {a} : issued'[b] = issued[b] /\ live'[b] = live[b]
        /\ live'[a] \subseteq live[a] \cup {issued[a] + 1}
        /\ \A k \in live[a] \ live'[a] : k = r /\ kind[a] = "rotating"
    BY <1>0, <2>1, RowTypes
  <2>3. /\ poll'.cur.at = issued[a] + 1 /\ poll'.cur.rt \in live'[a]
        /\ poll'.cur.rt = issued[a] + 1 \/ kind[a] # "rotating"
    BY <1>0, <2>1, RowTypes DEF Granted
  <2>4. \A b \in Accounts : Seen(b)' = Seen(b)
    BY <2>1 DEF Seen, Known
  <2>5. Of(PollHand)' = a /\ New(PollHand)' = poll'.cur
        /\ ~Full(PollHand) /\ Full(PollHand)' /\ PollHand # ReauthHand
    BY <2>1, HandNames
  <2>6. \A g \in Hands \ {PollHand} :
           (Full(g)' <=> Full(g)) /\ Of(g)' = Of(g) /\ New(g)' = New(g)
    BY <2>1, HandNames
  <2> QED BY <1>0, <2>1, <2>2, <2>3, <2>4, <2>5, <2>6 DEF Obtains
<1>4. ASSUME PollRefreshLost PROVE Calm
  <2>1. /\ UNCHANGED <<kind, db, cached, load, mem, got, pc, acct, lk, reauth, revoked>>
        /\ Grant(poll.acct, poll.rt) /\ dropped' = [dropped EXCEPT ![poll.acct] = TRUE]
        /\ poll.pc = "fetch" /\ NextPoll
    BY <1>4 DEF PollRefreshLost, UsageRejected
  <2> QED BY <1>n, <2>1, PollerIsCalm
<1>5. ASSUME PollRevoked PROVE Calm
  <2>1. /\ poll.pc = "fetch" /\ poll'.pc = "revoked" /\ poll'.rows = poll.rows
        /\ poll'.acct = poll.acct /\ poll'.rt = poll.rt /\ poll.rt \notin live[poll.acct]
    BY <1>5, PollFields DEF PollRevoked, UsageRejected, InvalidGrant, Polls
  <2>2. UNCHANGED <<vars, reauth, revoked>>
    BY <1>5 DEF PollRevoked
  <2> QED BY <1>0, <1>s, <2>1, <2>2
<1>6. ASSUME NEW ok \in BOOLEAN, PollPersist(ok) PROVE Delivers(PollHand, ok)
  <2> DEFINE a == poll.acct
             n == poll.cur
  <2>1. /\ a \in Accounts /\ n \in Cred /\ poll.pc = "persist"
        /\ poll'.pc = "fetch" /\ poll'.rows = poll.rows /\ poll'.acct = a /\ poll'.rt = poll.rt
        /\ db' = IF ok THEN [db EXCEPT ![a] = n] ELSE db
        /\ dropped' = IF ok THEN dropped ELSE [dropped EXCEPT ![a] = TRUE]
        /\ UNCHANGED <<kind, issued, live, cached, load, mem, got, pc, acct, lk, reauth, revoked>>
    BY <1>6, PollFields DEF PollPersist, Polled, Polls
  <2>2. /\ \A b \in Accounts \ {a} :
              db'[b] = db[b] /\ dropped'[b] = dropped[b]
        /\ IF ok THEN db'[a] = n /\ dropped'[a] = dropped[a]
           ELSE db'[a] = db[a] /\ dropped'[a]
    BY <1>0, <2>1, RowTypes, PollFields
  <2>3. ASSUME NEW b \in Accounts
        PROVE  Seen(b)' \subseteq Seen(b) \cup (IF b = a THEN {n.rt} ELSE {})
    <3>1. db'[b].rt = db[b].rt \/ (b = a /\ db'[b].rt = n.rt)
      BY <2>2
    <3>2. Known(b)' \subseteq Known(b) \cup (IF b = a THEN {n.rt} ELSE {})
      BY <2>1, <3>1 DEF Known
    <3> QED BY <2>1, <3>2 DEF Seen
  <2>4. /\ Of(PollHand) = a /\ New(PollHand) = n /\ Full(PollHand)
        /\ ~Full(PollHand)' /\ PollHand[1] # "task"
    BY <2>1, HandNames DEF PollHand
  <2>5. \A g \in Hands \ {PollHand} :
           (Full(g)' <=> Full(g)) /\ Of(g)' = Of(g) /\ New(g)' = New(g)
    BY <2>1, HandNames
  <2> QED BY <2>1, <2>2, <2>3, <2>4, <2>5, HandNames DEF Delivers
<1>7. ASSUME NEW ok \in BOOLEAN, PollWipe(ok) PROVE Calm
  <2>1. \A b \in Accounts :
           db'[b] = db[b] \/ (db'[b] = NoCred /\ poll.pc = "revoked" /\ poll.acct = b)
    <3>1. /\ db' = db \/ db' = [db EXCEPT ![poll.acct] = NoCred]
          /\ poll.pc = "revoked"
      BY <1>7 DEF PollWipe
    <3> QED BY <1>0, <3>1, RowTypes, PollFields
  <2>2. /\ UNCHANGED <<kind, cached, load, mem, got, pc, acct, lk, issued, live, dropped,
                       reauth, revoked>>
        /\ poll.pc = "revoked" /\ NextPoll
    BY <1>7 DEF PollWipe
  <2> QED BY <1>n, <2>1, <2>2, PollerIsCalm
<1> QED BY <1>1, <1>2, <1>3, <1>4, <1>5, <1>6, <1>7 DEF PollStep

\* A step of the re-authentication.
LEMMA ReauthEffects ==
    ASSUME CredTypeOK, CredTypeOK', OAuthInv, ReauthStep
    PROVE  \/ Calm
           \/ Obtains(ReauthHand)
           \/ Delivers(ReauthHand, TRUE)
<1> USE DEF statusVars, flowVars, vars, providerVars, cacheVars, taskVars
<1>0. TypeOK /\ TypeOK' /\ reauth.acct \in Accounts /\ reauth.got \in Cred /\ reauth \in Reauths
  BY PollFields DEF CredTypeOK
\* A step that changes neither tokens nor who has them.
<1>s. ASSUME UNCHANGED <<kind, db, cached, load, mem, got, pc, acct, lk, issued, live, dropped,
                         poll, revoked>>,
             reauth'.acct = reauth.acct, reauth'.pc # "granted"
      PROVE  Calm
  <2>1. \A a \in Accounts : Seen(a)' = Seen(a) /\ issued[a] <= issued'[a]
    BY <1>s, NumberTypes DEF Seen, Known
  <2>2. \A h \in Hands : /\ Full(h)' => Full(h) /\ Of(h)' = Of(h) /\ New(h)' = New(h)
                         /\ Full(h) /\ ~Full(h)' => h = ReauthHand
    BY <1>s, HandNames
  <2> QED BY <1>s, <2>1, <2>2 DEF Calm
<1>1. ASSUME NEW a \in Accounts, ReauthExchange(a) PROVE Obtains(ReauthHand)
  <2>1. /\ reauth.pc = "idle" /\ reauth'.pc = "granted" /\ reauth'.acct = a
        /\ reauth'.got.at = issued[a] + 1 /\ reauth'.got.rt = issued[a] + 1
        /\ issued' = [issued EXCEPT ![a] = issued[a] + 1]
        /\ live' = [live EXCEPT ![a] = live[a] \cup {issued[a] + 1}]
        /\ UNCHANGED <<kind, db, cached, load, mem, got, pc, acct, lk, dropped, poll,
                       revoked>>
    BY <1>1 DEF ReauthExchange
  <2>2. /\ issued'[a] = issued[a] + 1 /\ live'[a] = live[a] \cup {issued[a] + 1}
        /\ \A b \in Accounts \ {a} : issued'[b] = issued[b] /\ live'[b] = live[b]
    BY <1>0, <2>1, RowTypes
  <2>3. \A b \in Accounts : Seen(b)' = Seen(b)
    BY <2>1 DEF Seen, Known
  <2>4. /\ Of(ReauthHand)' = a /\ New(ReauthHand)' = reauth'.got
        /\ ~Full(ReauthHand) /\ Full(ReauthHand)'
    BY <2>1, HandNames
  <2>5. \A g \in Hands \ {ReauthHand} :
           (Full(g)' <=> Full(g)) /\ Of(g)' = Of(g) /\ New(g)' = New(g)
    BY <2>1, HandNames
  <2> QED BY <2>1, <2>2, <2>3, <2>4, <2>5 DEF Obtains
<1>2. ASSUME ReauthAbandoned PROVE Calm
  <2>1. reauth'.acct = reauth.acct /\ reauth'.pc = "idle"
    BY <1>0, <1>2 DEF ReauthAbandoned, Reauths
  <2> QED BY <1>2, <1>s, <2>1 DEF ReauthAbandoned
<1>3. ASSUME ReauthStore PROVE Delivers(ReauthHand, TRUE)
  <2> DEFINE a == reauth.acct
             n == reauth.got
  <2>1. /\ reauth.pc = "granted" /\ reauth'.pc = "stored" /\ reauth'.acct = a
        /\ db' = [db EXCEPT ![a] = n]
        /\ UNCHANGED <<kind, issued, live, cached, load, mem, got, pc, acct, lk, dropped, poll,
                       revoked>>
    BY <1>0, <1>3 DEF ReauthStore, Reauths
  <2>2. db'[a] = n /\ \A b \in Accounts \ {a} : db'[b] = db[b]
    BY <1>0, <2>1, RowTypes, PollFields
  <2>3. ASSUME NEW b \in Accounts
        PROVE  Seen(b)' \subseteq Seen(b) \cup (IF b = a THEN {n.rt} ELSE {})
    <3>1. db'[b].rt = db[b].rt \/ (b = a /\ db'[b].rt = n.rt)
      BY <2>2
    <3>2. Known(b)' \subseteq Known(b) \cup (IF b = a THEN {n.rt} ELSE {})
      BY <2>1, <3>1 DEF Known
    <3> QED BY <2>1, <3>2 DEF Seen
  <2>4. /\ Of(ReauthHand) = a /\ New(ReauthHand) = n /\ Full(ReauthHand)
        /\ ~Full(ReauthHand)' /\ ReauthHand[1] # "task"
    BY <2>1, HandNames DEF ReauthHand
  <2>5. \A g \in Hands \ {ReauthHand} :
           (Full(g)' <=> Full(g)) /\ Of(g)' = Of(g) /\ New(g)' = New(g)
    BY <2>1, HandNames
  <2> QED BY <2>1, <2>2, <2>3, <2>4, <2>5, HandNames DEF Delivers
<1>4. ASSUME NEW written \in BOOLEAN, ReauthUnmark(written) PROVE Calm
  <2>1. reauth'.acct = reauth.acct /\ reauth'.pc = "cleared"
    BY <1>0, <1>4 DEF ReauthUnmark, Reauths
  <2> QED BY <1>4, <1>s, <2>1 DEF ReauthUnmark
<1>5. ASSUME ReauthReset PROVE Calm
  <2>1. reauth'.acct = reauth.acct /\ reauth'.pc = "idle"
    BY <1>0, <1>5 DEF ReauthReset, Reauths
  <2> QED BY <1>5, <1>s, <2>1 DEF ReauthReset, ClearAccountState
<1> QED BY <1>1, <1>2, <1>3, <1>4, <1>5 DEF ReauthStep

\* A revocation at the provider, a restart, and the rest.
LEMMA OtherEffects ==
    ASSUME CredTypeOK, CredTypeOK', GrantsInv,
           \/ \E a \in Accounts : Revoke(a)
           \/ Restart \/ StartupClear \/ Pass \/ UNCHANGED allVars
    PROVE  Calm
<1> USE DEF credVars, statusVars, flowVars, vars, providerVars, cacheVars, lockVars, taskVars
<1>0. TypeOK /\ TypeOK'
  BY DEF CredTypeOK
<1>1. ASSUME NEW a \in Accounts, Revoke(a) PROVE Calm
  <2>1. /\ live' = [live EXCEPT ![a] = {}] /\ revoked' = [revoked EXCEPT ![a] = issued[a]]
        /\ UNCHANGED <<kind, db, issued, cached, load, mem, got, pc, acct, lk, dropped, poll,
                       reauth>>
    BY <1>1 DEF Revoke
  <2>2. ASSUME NEW b \in Accounts
        PROVE  /\ revoked'[b] \in {revoked[b], issued[b]}
               /\ live'[b] \subseteq live[b] /\ \A r \in live[b] \ live'[b] : r <= revoked'[b]
    <3>1. \A r \in live[b] : r <= issued[b]
      BY DEF GrantsInv
    <3> QED BY <1>0, <2>1, <3>1, RowTypes, PollFields
  <2>3. \A b \in Accounts : Seen(b)' = Seen(b) /\ issued[b] <= issued'[b]
    BY <2>1, NumberTypes DEF Seen, Known
  <2>4. \A h \in Hands : (Full(h)' <=> Full(h)) /\ Of(h)' = Of(h) /\ New(h)' = New(h)
    BY <2>1, HandNames
  <2> QED BY <2>1, <2>2, <2>3, <2>4 DEF Calm
<1>2. ASSUME Restart PROVE Calm
  <2>1. /\ \A t \in Tasks : pc'[t] = "idle"
        /\ \A b \in Accounts : cached'[b] = NoCred /\ poll'.rows[b] = NoCred
        /\ \A t \in Tasks : mem'[t] = NoCred /\ \A b \in Accounts : load'[t][b] = NoCred
        /\ poll'.pc = "idle" /\ poll'.rt = Null /\ reauth'.pc = "idle"
    BY <1>2, PollFields DEF Restart, Unpolled, Reauths
  <2>2. UNCHANGED <<kind, db, issued, live, revoked>>
    BY <1>2 DEF Restart
  <2>3. \A b \in Accounts : dropped'[b] = (dropped[b] \/ Held(b))
    BY <1>2 DEF Restart
  <2>4. ASSUME NEW b \in Accounts
        PROVE  /\ Seen(b)' \subseteq Seen(b) \cup {Null}
               /\ issued[b] <= issued'[b]
    <3>1. Known(b)' \subseteq Known(b) \cup {Null}
      BY <2>1, <2>2 DEF Known, NoCred
    <3> QED BY <2>1, <2>2, <3>1, NumberTypes DEF Seen, NoCred
  <2>5. ASSUME NEW h \in Hands
        PROVE  ~Full(h)' /\ (Full(h) => h = ReauthHand \/ dropped'[Of(h)])
    <3>1. ~Full(h)'
      BY <2>1, HandNames
    <3>2. ASSUME Full(h), h # ReauthHand PROVE dropped'[Of(h)]
      BY <2>3, <3>2, HandTypes, HeldByHand
    <3> QED BY <3>1, <3>2
  <2> QED BY <2>1, <2>2, <2>3, <2>4, <2>5 DEF Calm
<1>3. ASSUME StartupClear \/ Pass \/ UNCHANGED allVars PROVE Calm
  <2>1. UNCHANGED <<kind, db, cached, load, mem, got, pc, acct, lk, issued, live, dropped,
                    revoked, reauth, poll>>
    BY <1>3 DEF StartupClear, Pass, Tick, allVars
  <2> QED BY <2>1, StillIsCalm
<1> QED BY <1>1, <1>2, <1>3

----------------------------------------------------------------------------
(* The invariant holds *)

\* A task that is gone holds nothing, and no mutex.
LEMMA VanishKeepsHands ==
    ASSUME TypeOK, HandsInv, LockInv, NEW t \in Tasks, Vanish(t), ~Refreshing(t),
           UNCHANGED <<owner, lockGen>>
    PROVE  HandsInv' /\ LockInv'
<1>1. /\ pc'[t] = "idle" /\ mem'[t] = NoCred /\ got'[t] = NoCred
      /\ \A u \in Tasks \ {t} : /\ pc'[u] = pc[u] /\ mem'[u] = mem[u] /\ got'[u] = got[u]
                                /\ lk'[u] = lk[u]
      /\ acct' = acct
  BY DEF Vanish, TypeOK, Typed
<1>2. HandsInv'
  BY <1>1 DEF HandsInv
<1>3. LockInv'
  BY <1>1 DEF LockInv, Refreshing
<1> QED BY <1>2, <1>3

LEMMA FrameKeepsHands ==
    ASSUME HandsInv, LockInv, UNCHANGED <<taskVars, lockVars>>
    PROVE  HandsInv' /\ LockInv'
BY DEF HandsInv, LockInv, Refreshing, taskVars, lockVars

LEMMA HandsNext ==
    ASSUME CredTypeOK, CredTypeOK', HandsInv, LockInv, OAuthInv, [CredNext]_allVars
    PROVE  HandsInv' /\ LockInv' /\ OAuthInv'
<1> USE DEF credVars, statusVars, flowVars
<1>0. TypeOK /\ TypeOK'
  BY DEF CredTypeOK
<1>k. kind' = kind => OAuthInv'
  BY DEF OAuthInv
<1>n. Next => LockInv'
  BY <1>0, LockInvNext
<1>q. ASSUME NEW t \in Tasks, QuietAction(t) PROVE HandsInv' /\ LockInv' /\ OAuthInv'
  <2>1. Quiet
    BY <1>0, <1>q, QuietActions
  <2>2. HandsInv' /\ kind' = kind
    BY <2>1 DEF Quiet, HandsInv
  <2> QED BY <1>k, <1>n, <1>q, <2>2, TokenManagerSteps
<1>1. ASSUME NEW t \in Tasks, RequestStep(t) PROVE HandsInv' /\ LockInv' /\ OAuthInv'
  <2>1. ASSUME NEW a \in Accounts, CloneRoutable(t, a) \/ ReadRows(t, a)
        PROVE  HandsInv' /\ LockInv' /\ OAuthInv'
    BY <2>1, <1>q DEF CloneRoutable, ReadRows, QuietAction
  <2>2. ASSUME StoreRows(t) PROVE HandsInv' /\ LockInv' /\ OAuthInv'
    <3>1. CASE StoreAccounts(t)
      BY <3>1, <1>q DEF QuietAction
    <3>2. CASE ~StoreAccounts(t)
      BY <1>0, <1>k, <2>2, <3>2, VanishKeepsHands DEF StoreRows, Refreshing, lockVars
    <3> QED BY <3>1, <3>2
  <2>3. ASSUME TokenStep(t), ~Exchange(t) PROVE HandsInv' /\ LockInv' /\ OAuthInv'
    BY <2>3, <1>q DEF TokenStep, QuietAction
  <2>4. ASSUME TokenStep(t), Exchange(t) PROVE HandsInv' /\ LockInv' /\ OAuthInv'
    <3>1. LockInv'
      BY <1>n, <2>4, TokenManagerSteps
    <3>2. /\ pc'[t] = "exchanged" /\ kind' = kind /\ mem' = mem
          /\ \A u \in Tasks \ {t} : pc'[u] = pc[u] /\ got'[u] = got[u]
      BY <1>0, <2>4, RowTypes DEF Exchange
    <3> QED BY <1>k, <3>1, <3>2 DEF HandsInv
  <2>5. ASSUME NEW persisted \in BOOLEAN, CompleteRefresh(t, persisted)
        PROVE  HandsInv' /\ LockInv' /\ OAuthInv'
    <3>1. LockInv'
      BY <1>n, <2>5, TokenManagerSteps DEF CompleteRefresh
    <3>2. /\ pc'[t] = "done" /\ got'[t] = NoCred /\ kind' = kind
          /\ \A u \in Tasks \ {t} : pc'[u] = pc[u] /\ got'[u] = got[u] /\ mem'[u] = mem[u]
      BY <1>0, <2>5, RowTypes DEF CompleteRefresh, Complete, Answer
    <3> QED BY <1>k, <3>1, <3>2 DEF HandsInv
  <2>6. ASSUME AbortRequest(t) \/ GiveUp(t) PROVE HandsInv' /\ LockInv' /\ OAuthInv'
    BY <2>6, <1>q DEF AbortRequest, Abort, GiveUp, QuietAction
  <2>7. ASSUME Respond(t) PROVE HandsInv' /\ LockInv' /\ OAuthInv'
    BY <1>0, <1>k, <2>7, VanishKeepsHands DEF Respond, Refreshing, lockVars
  <2>8. ASSUME WriteStatus(t) \/ SkipStatus(t) PROVE HandsInv' /\ LockInv' /\ OAuthInv'
    <3>1. UNCHANGED <<taskVars, lockVars>> /\ kind' = kind
      BY <2>8 DEF WriteStatus, SkipStatus, vars
    <3> QED BY <1>k, <3>1, FrameKeepsHands
  <2> QED BY <1>1, <2>1, <2>2, <2>3, <2>4, <2>5, <2>6, <2>7, <2>8 DEF RequestStep
<1>2. CASE PollStep
  <2>1. UNCHANGED <<taskVars, lockVars>> /\ kind' = kind
    BY <1>2 DEF PollStep, PollAccount, FetchUsage, PollRefresh, PollRefreshLost, PollRevoked,
                PollPersist, PollWipe, vars
  <2> QED BY <1>k, <2>1, FrameKeepsHands
<1>3. CASE ReauthStep /\ ~ReauthReset
  <2>1. UNCHANGED <<taskVars, lockVars>> /\ kind' = kind
    BY <1>3 DEF ReauthStep, ReauthExchange, ReauthAbandoned, ReauthStore, ReauthUnmark, vars
  <2> QED BY <1>k, <2>1, FrameKeepsHands
<1>4. CASE ReauthReset
  <2>1. reauth.acct \in Accounts /\ ClearAccountState(reauth.acct)
    BY <1>4, PollFields DEF ReauthReset
  <2>2. LockInv'
    BY <1>n, <2>1 DEF Next
  <2>3. HandsInv' /\ kind' = kind
    BY <2>1 DEF ClearAccountState, taskVars, HandsInv
  <2> QED BY <1>k, <2>2, <2>3
<1>5. CASE Restart
  <2>1. /\ \A t \in Tasks : pc'[t] = "idle" /\ mem'[t] = NoCred /\ got'[t] = NoCred
        /\ kind' = kind
    BY <1>5 DEF Restart
  <2> QED BY <1>k, <2>1 DEF HandsInv, LockInv, Refreshing
<1>6. CASE (\E a \in Accounts : Revoke(a)) \/ StartupClear \/ Pass \/ UNCHANGED allVars
  <2>1. UNCHANGED <<taskVars, lockVars>> /\ kind' = kind
    BY <1>6 DEF Revoke, StartupClear, Pass, Tick, allVars, vars
  <2> QED BY <1>k, <2>1, FrameKeepsHands
<1> QED BY <1>1, <1>2, <1>3, <1>4, <1>5, <1>6 DEF CredNext, CredStep

\* Every step has one of the three effects.
LEMMA StepEffects ==
    ASSUME CredTypeOK, CredTypeOK', CredInv, [CredNext]_allVars
    PROVE  \/ Calm
           \/ \E h \in Hands : Obtains(h)
           \/ \E h \in Hands, stored \in BOOLEAN : Delivers(h, stored)
<1>0. HandsInv /\ OAuthInv /\ RevokedInv /\ GrantsInv
  BY DEF CredInv
<1>1. ASSUME NEW t \in Tasks, RequestStep(t)
      PROVE  \/ Calm
             \/ \E h \in Hands : Obtains(h)
             \/ \E h \in Hands, stored \in BOOLEAN : Delivers(h, stored)
  BY <1>0, <1>1, RequestEffects, HandNames
<1>2. CASE PollStep
  BY <1>0, <1>2, PollEffects, HandNames
<1>3. CASE ReauthStep
  BY <1>0, <1>3, ReauthEffects, HandNames
<1>4. CASE (\E a \in Accounts : Revoke(a)) \/ Restart \/ StartupClear \/ Pass \/ UNCHANGED allVars
  BY <1>0, <1>4, OtherEffects
<1> QED BY <1>1, <1>2, <1>3, <1>4 DEF CredNext, CredStep

\* A hand that is not overtaken is ahead of its row: it has a new grant, or the
\* row's token is the one it was ahead of already.  A task under its own mutex
\* cannot have written the row.
LEMMA OvertakingKeepsAhead ==
    ASSUME CredTypeOK, CredTypeOK', CredInv, [CredNext]_allVars,
           \/ Calm
           \/ \E h \in Hands : Obtains(h)
           \/ \E h \in Hands, stored \in BOOLEAN : Delivers(h, stored)
    PROVE  AheadInv'
<1> SUFFICES ASSUME NEW h \in Hands, Full(h)', h \notin overtaken'
             PROVE  db'[Of(h)'].at < New(h)'.at
  BY DEF AheadInv
<1>1. ASSUME ~Full(h) PROVE db'[Of(h)'].at < New(h)'.at
  <2>1. Obtains(h)
    BY <1>1 DEF Calm, Obtains, Delivers
  <2>2. /\ Of(h)' \in Accounts /\ db'[Of(h)'] = db[Of(h)']
        /\ New(h)'.at = issued[Of(h)'] + 1
    BY <2>1 DEF Obtains
  <2>3. db[Of(h)'].at <= issued[Of(h)']
    BY <2>2 DEF CredInv, GrantsInv
  <2> QED BY <2>2, <2>3, NumberTypes
<1>2. ASSUME Full(h) PROVE db'[Of(h)'].at < New(h)'.at
  <2>1. Of(h)' = Of(h) /\ New(h)' = New(h)
    BY <1>2 DEF Calm, Obtains, Delivers
  <2>2. CASE UNCHANGED allVars
    BY <1>2, <2>1, <2>2 DEF allVars, vars, CredInv, AheadInv
  <2>3. CASE CredNext
    <3>1. h \notin overtaken /\ (db'[Of(h)].at = db[Of(h)].at \/ SameMutex(h))
      BY <1>2, <2>3 DEF CredNext, Overtaking
    <3>2. ~SameMutex(h)
      <4> SUFFICES ASSUME NEW t \in Tasks, NEW u \in Tasks, h = TaskHand(t),
                          acct[u] = acct[t], lk[u] = lk[t],
                          pc[u] = "exchanged", pc'[u] = "done"
                   PROVE  FALSE
        BY DEF SameMutex
      <4>1. pc[t] = "exchanged" /\ pc'[t] = "exchanged"
        BY <1>2, HandNames
      <4>2. owner[acct[t]][lk[t]] = t /\ owner[acct[u]][lk[u]] = u
        BY <4>1 DEF CredInv, LockInv, Refreshing
      <4> QED BY <4>1, <4>2
    <3> QED BY <1>2, <2>1, <3>1, <3>2 DEF CredInv, AheadInv
  <2> QED BY <2>2, <2>3
<1> QED BY <1>1, <1>2

LEMMA CredInvNext == CredTypeOK /\ CredTypeOK' /\ CredInv /\ [CredNext]_allVars => CredInv'
<1> SUFFICES ASSUME CredTypeOK, CredTypeOK', CredInv, [CredNext]_allVars PROVE CredInv'
  OBVIOUS
<1>1. HandsInv' /\ LockInv' /\ OAuthInv'
  BY HandsNext DEF CredInv
<1>2. TokensInv
  BY DEF CredInv, TokensInv
<1>3. TokensInv'
  BY <1>2, StepEffects, CalmKeepsTokens, ObtainsKeepsTokens, DeliversKeepsTokens
<1>4. AheadInv'
  BY StepEffects, OvertakingKeepsAhead
<1> QED BY <1>1, <1>3, <1>4 DEF CredInv, TokensInv

LEMMA CredInvHolds == CredSpec => []CredInv
BY CredInvInit, CredInvNext, CredTypeCorrect, PTL DEF CredSpec

----------------------------------------------------------------------------
(* The theorems *)

\* The refresh token of a row is never lost without a trace: whichever of the
\* four writers ran last, it is accepted, or was revoked or wiped, or its
\* replacement is in somebody's hands or was dropped.
THEOREM RowTokensAccounted == CredSpec => []RowTokenAccounted
<1>1. CredInv => RowTokenAccounted
  BY DEF CredInv
<1> QED BY <1>1, CredInvHolds, PTL

\* The poller wipes a token that is still accepted only if somebody rewrote the
\* row behind its snapshot.
THEOREM WipesOnlyStaleSnapshots == CredSpec => WipeOnlyIfStale
<1>1. CredTypeOK /\ CredInv /\ [CredNext]_allVars =>
        [\A a \in Accounts :
            poll.pc = "revoked" /\ poll'.pc # "revoked" /\ db[a].rt \in live[a]
            /\ db'[a].rt = Null /\ db[a].rt # Null
               => db[a].rt # poll.rt]_allVars
  <2> SUFFICES ASSUME CredTypeOK, CredInv, [CredNext]_allVars, NEW a \in Accounts,
                      poll.pc = "revoked", poll'.pc # "revoked", db[a].rt \in live[a],
                      db'[a].rt = Null, db[a].rt # Null
               PROVE  db[a].rt # poll.rt
    OBVIOUS
  <2>1. poll.rt \notin live[poll.acct]
    BY DEF CredInv, RevokedInv
  <2>2. poll' # poll /\ db' # db
    OBVIOUS
  <2>3. \E connected \in BOOLEAN : PollWipe(connected)
    <3> USE DEF credVars, statusVars, flowVars
    <3>1. ASSUME NEW t \in Tasks, RequestStep(t) PROVE FALSE
      BY <2>2, <3>1 DEF RequestStep, CloneRoutable, ReadRows, StoreRows, TokenStep,
         CompleteRefresh, AbortRequest, Respond, GiveUp, WriteStatus, SkipStatus
    <3>2. CASE PollStep
      BY <2>2, <3>2 DEF PollStep, PollAccount, FetchUsage, PollRefresh, PollRefreshLost,
         PollRevoked, PollPersist, UsageRejected
    <3>3. CASE ReauthStep
      BY <2>2, <3>3 DEF ReauthStep, ReauthExchange, ReauthAbandoned, ReauthStore, ReauthUnmark,
         ReauthReset
    <3>4. CASE (\E b \in Accounts : Revoke(b)) \/ Restart \/ StartupClear \/ Pass \/ UNCHANGED allVars
      BY <2>2, <3>4 DEF Revoke, Restart, StartupClear, Pass, allVars
    <3> QED BY <3>1, <3>2, <3>3, <3>4 DEF CredNext, CredStep
  <2>4. db' = db \/ db' = [db EXCEPT ![poll.acct] = NoCred]
    BY <2>3 DEF PollWipe
  <2>5. a = poll.acct
    BY <2>4, RowTypes DEF CredTypeOK
  <2> QED BY <2>1, <2>5
<1> QED BY <1>1, CredInvHolds, CredTypeCorrect, PTL DEF CredSpec, WipeOnlyIfStale

\* A row goes back to older tokens only when the poller wipes it or when a hand
\* delivers what another had overtaken: no step writes a copy of old tokens back,
\* and writes under one and the same mutex only advance.
THEOREM RegressionsExplained == CredSpec => RegressionExplained
<1>1. CredTypeOK /\ CredTypeOK' /\ CredInv /\ [CredNext]_allVars =>
        [\A a \in Accounts :
            db'[a].at < db[a].at =>
                \/ poll.pc = "revoked" /\ poll.acct = a /\ db'[a] = NoCred
                \/ \E h \in overtaken : Of(h) = a /\ db'[a] = New(h)]_allVars
  <2> SUFFICES ASSUME CredTypeOK, CredTypeOK', CredInv, [CredNext]_allVars,
                      NEW a \in Accounts, db'[a].at < db[a].at
               PROVE  \/ poll.pc = "revoked" /\ poll.acct = a /\ db'[a] = NoCred
                      \/ \E h \in overtaken : Of(h) = a /\ db'[a] = New(h)
    OBVIOUS
  <2>0. db[a].at \in Nat
    BY NumberTypes
  <2>1. CASE Calm
    BY <2>0, <2>1 DEF Calm
  <2>2. CASE \E h \in Hands : Obtains(h)
    BY <2>0, <2>2 DEF Obtains
  <2>3. ASSUME NEW h \in Hands, NEW stored \in BOOLEAN, Delivers(h, stored)
        PROVE  h \in overtaken /\ Of(h) = a /\ db'[a] = New(h)
    <3>1. a = Of(h) /\ db'[a] = New(h) /\ Full(h)
      BY <2>0, <2>3 DEF Delivers
    <3>2. New(h).at \in Nat
      BY HandTypes
    <3> QED BY <2>0, <3>1, <3>2 DEF CredInv, AheadInv
  <2> QED BY <2>1, <2>2, <2>3, StepEffects
<1> QED BY <1>1, CredInvHolds, CredTypeCorrect, PTL DEF CredSpec, RegressionExplained

=============================================================================
