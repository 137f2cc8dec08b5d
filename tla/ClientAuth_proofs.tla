------------------------- MODULE ClientAuth_proofs --------------------------
(***************************************************************************)
(* Theorems of ClientAuth, for every set of keys, requests and tasks, and  *)
(* all lifetimes.                                                          *)
(***************************************************************************)
EXTENDS ClientAuth, FiniteSetTheorems, SequenceTheorems, WellFoundedInduction, TLAPS

LEMMA Constants ==
  /\ KeyTTL \in Nat /\ NegativeTTL \in Nat /\ EnabledTTL \in Nat /\ Slack \in Nat
  /\ KeyTTL >= 1 /\ NegativeTTL >= 1 /\ EnabledTTL >= 1
  /\ NoCredential \notin Keys /\ NoCredential # DashboardPassword /\ DashboardPassword \notin Keys
BY ClientAuthAssumption

LEMMA AllFacts ==
  /\ Keyless \in Facts /\ DbFailed \in Facts
  /\ \A k \in Keys : <<"active", k>> \in Facts /\ <<"inactive", k>> \in Facts
BY DEF Facts

-----------------------------------------------------------------------------
(* The history of the table *)

(* What holds was noted now, and nothing later than now.                   *)
ClockOK ==
  /\ now \in Nat
  /\ last \in [Facts -> Int]
  /\ \A f \in Facts : last[f] <= now
  /\ \A k \in Keys : keys[k] = "active" => last[<<"active", k>>] = now
  /\ \A k \in Keys : keys[k] # "active" => last[<<"inactive", k>>] = now
  /\ Active(keys) = {} => last[Keyless] = now

Grows == \A f \in Facts : last'[f] >= last[f]

LEMMA TrueFacts ==
  ASSUME NEW ks
  PROVE  /\ \A k \in Keys : ks[k] = "active" => <<"active", k>> \in TrueOf(ks)
         /\ \A k \in Keys : ks[k] # "active" => <<"inactive", k>> \in TrueOf(ks)
         /\ Active(ks) = {} => Keyless \in TrueOf(ks)
BY DEF TrueOf, Active

LEMMA NotedClock ==
  ASSUME ClockOK, NEW n \in Nat, n >= now, now' = n, last' = Noted(keys', n)
  PROVE  ClockOK' /\ Grows
<1>1. \A f \in Facts : last'[f] = IF f \in TrueOf(keys') THEN n ELSE last[f]
  BY DEF Noted
<1>2. last' \in [Facts -> Int]
  BY DEF Noted, ClockOK
<1>3. \A f \in Facts : last'[f] <= n /\ last'[f] >= last[f]
  BY <1>1 DEF ClockOK
<1>4. \A f \in TrueOf(keys') : f \in Facts => last'[f] = n
  BY <1>1
<1>5. /\ \A k \in Keys : keys'[k] = "active" => last'[<<"active", k>>] = n
      /\ \A k \in Keys : keys'[k] # "active" => last'[<<"inactive", k>>] = n
      /\ Active(keys') = {} => last'[Keyless] = n
  BY <1>4, TrueFacts, AllFacts
<1> QED BY <1>2, <1>3, <1>5 DEF ClockOK, Grows, Active

LEMMA FailureClock ==
  ASSUME ClockOK, last' = NotedFailure, UNCHANGED <<now, keys>>
  PROVE  ClockOK' /\ Grows /\ last'[DbFailed] = now
<1>1. \A f \in Facts : last'[f] = IF f = DbFailed THEN now ELSE last[f]
  BY DEF NotedFailure, ClockOK
<1>2. last' \in [Facts -> Int]
  <2>1. now \in Int /\ last \in [Facts -> Int] /\ last' = [last EXCEPT ![DbFailed] = now]
    BY DEF NotedFailure, ClockOK
  <2> QED BY <2>1
<1>3. \A f \in Facts : last'[f] <= now /\ last'[f] >= last[f]
  BY <1>1 DEF ClockOK
<1>4. \A f \in Facts : last[f] = now => last'[f] = now
  BY <1>1
<1>5. /\ \A k \in Keys : keys[k] = "active" => last'[<<"active", k>>] = now
      /\ \A k \in Keys : keys[k] # "active" => last'[<<"inactive", k>>] = now
      /\ Active(keys) = {} => last'[Keyless] = now
  BY <1>4, AllFacts DEF ClockOK
<1> QED BY <1>1, <1>2, <1>3, <1>5, AllFacts DEF ClockOK, Grows, Active

LEMMA SameClock ==
  ASSUME ClockOK, UNCHANGED <<now, keys, last>>
  PROVE  ClockOK' /\ Grows
BY DEF ClockOK, Grows, Active

-----------------------------------------------------------------------------
(* What is known of the table, and from when *)

Within(fact, t, period) == t - last[fact] <= period

(* What a task read is as old as the task has been busy, at most.          *)
TaskOK(t) ==
  /\ pc[t] # "idle" => req[t] \in Requests
  /\ pc[t] \in {"verifying", "verified", "granted"} => req[t].cred \in Keys
  /\ pc[t] = "counted" =>
       /\ found[t] \in {"yes", "no", "error"}
       /\ found[t] = "no" => Within(Keyless, now, busy[t])
       /\ found[t] = "error" => Within(DbFailed, now, busy[t])
  /\ pc[t] = "verified" =>
       /\ found[t] \in {"yes", "no"}
       /\ found[t] = "yes" => Within(<<"active", req[t].cred>>, now, busy[t])
       /\ found[t] = "no" => \/ Within(<<"inactive", req[t].cred>>, now, busy[t])
                             \/ Within(DbFailed, now, busy[t])

TasksOK ==
  /\ pc \in [Tasks -> {"idle"} \union Working]
  /\ req \in [Tasks -> Requests \union {NoRequest}]
  /\ found \in [Tasks -> {"none", "yes", "no", "error"}]
  /\ busy \in [Tasks -> 0..Slack]
  /\ \A t \in Tasks : TaskOK(t)

(* What a cache holds was as old as a check takes when it was stored.      *)
CachesOK ==
  /\ enabled.at \in Int
  /\ enabled.is = "no" => Within(Keyless, enabled.at, Slack)
  /\ enabled.is \in Verdicts
  /\ \A k \in Keys :
       /\ cache[k].at \in Int
       /\ cache[k].is = "yes" => Within(<<"active", k>>, cache[k].at, Slack)
       /\ cache[k].is = "no" => \/ Within(<<"inactive", k>>, cache[k].at, Slack)
                                \/ Within(DbFailed, cache[k].at, Slack)

AnswerOK ==
  /\ Answered("granted") => answer.to.cred \in Keys
  /\ RevocationTakesEffect /\ RefusalsHaveACause /\ OpenOnlyWhenKeyless

IInv == ClockOK /\ TasksOK /\ CachesOK /\ AnswerOK

-----------------------------------------------------------------------------
(* What a step leaves alone stays as it was *)

LEMMA CachesKept ==
  ASSUME IInv, ClockOK', Grows, UNCHANGED <<enabled, cache>>
  PROVE  CachesOK'
<1>1. \A f \in Facts : last[f] \in Int /\ last'[f] \in Int /\ last'[f] >= last[f]
  BY DEF IInv, ClockOK, Grows
<1>2. ASSUME NEW f \in Facts, NEW x \in Int, Within(f, x, Slack) PROVE x - last'[f] <= Slack
  BY <1>1, <1>2, Constants DEF Within
<1>3. enabled.is = "no" => Within(Keyless, enabled.at, Slack)'
  BY <1>2, AllFacts DEF IInv, CachesOK, Within
<1>4. ASSUME NEW k \in Keys
      PROVE  /\ cache[k].is = "yes" => cache[k].at - last'[<<"active", k>>] <= Slack
             /\ cache[k].is = "no" => \/ cache[k].at - last'[<<"inactive", k>>] <= Slack
                                      \/ cache[k].at - last'[DbFailed] <= Slack
  BY <1>2, AllFacts DEF IInv, CachesOK
<1> QED BY <1>3, <1>4 DEF IInv, CachesOK, Within

LEMMA TaskKept ==
  ASSUME IInv, ClockOK', Grows, now' = now, NEW u \in Tasks,
         pc'[u] = pc[u], req'[u] = req[u], found'[u] = found[u], busy'[u] = busy[u]
  PROVE  TaskOK(u)'
<1>1. \A f \in Facts : last[f] \in Int /\ last'[f] \in Int /\ last'[f] >= last[f]
  BY DEF IInv, ClockOK, Grows
<1>2. now \in Int /\ busy[u] \in Int /\ TaskOK(u)
  BY DEF IInv, ClockOK, TasksOK
<1>3. ASSUME NEW f \in Facts, Within(f, now, busy[u]) PROVE now - last'[f] <= busy[u]
  BY <1>1, <1>2, <1>3 DEF Within
<1>4. pc[u] \in {"verifying", "verified", "granted"} => req[u].cred \in Keys
  BY <1>2 DEF TaskOK
<1> QED BY <1>2, <1>3, <1>4, AllFacts DEF TaskOK, Within

LEMMA NothingAnswered == answer' = NoAnswer => AnswerOK'
BY DEF NoAnswer, AnswerOK, Answered, RevocationTakesEffect, RefusalsHaveACause, OpenOnlyWhenKeyless

-----------------------------------------------------------------------------
(* Verdicts *)

(* The verdict on a key that was verified recently.                        *)
Grounded(k, is) ==
  /\ is = "yes" => Recently(<<"active", k>>, KeyTTL - 1 + Slack)
  /\ is = "no" => \/ Recently(<<"inactive", k>>, NegativeTTL - 1 + Slack)
                  \/ Recently(DbFailed, NegativeTTL - 1 + Slack)

(* The task goes on with its request, or is done.                          *)
Moved(t, r) ==
  \E p \in {"idle", "verifying", "granted"} :
    /\ pc' = [pc EXCEPT ![t] = p]
    /\ req' = [req EXCEPT ![t] = IF p = "idle" THEN NoRequest ELSE r]
    /\ busy' = busy \/ busy' = [busy EXCEPT ![t] = 0]
    /\ p # "idle" => r.cred \in Keys

LEMMA Judged ==
  ASSUME NEW t \in Tasks, NEW r, r.cred \in Keys, NEW is \in {"yes", "no"},
         Grounded(r.cred, is), Verified(t, r, is), UNCHANGED <<now, last, password>>
  PROVE  AnswerOK' /\ Moved(t, r)
<1>1. r.cred # NoCredential
  BY Constants
<1>2. CASE is = "yes" /\ ScopeFits(r)
  <2>1. Grant(t, r)
    BY <1>2 DEF Verified
  <2>2. answer'.is = "granted" /\ answer'.to = r /\ Moved(t, r)
    BY <2>1 DEF Grant, Moved
  <2> QED BY <1>2, <2>2 DEF AnswerOK, Answered, RevocationTakesEffect, RefusalsHaveACause,
                            OpenOnlyWhenKeyless, Grounded, Recently
<1>3. CASE is = "yes" /\ ~ScopeFits(r)
  <2>1. Closes(t)
    BY <1>3 DEF Verified
  <2> QED BY <2>1, NothingAnswered DEF Closes, Moved
<1>4. CASE is = "no"
  <2>1. Ends(t, r, "denied")
    BY <1>4 DEF Verified
  <2>2. answer'.is = "denied" /\ answer'.to = r /\ Moved(t, r)
    BY <2>1 DEF Ends, Moved
  <2> QED BY <1>4, <2>2 DEF AnswerOK, Answered, RevocationTakesEffect, RefusalsHaveACause,
                            OpenOnlyWhenKeyless, Grounded, Recently
<1> QED BY <1>2, <1>3, <1>4

(* A verdict from the cache, whose entry has not expired.                  *)
LEMMA FreshIsGrounded ==
  ASSUME IInv, NEW k \in Keys, FreshKey(cache[k])
  PROVE  cache[k].is \in {"yes", "no"} /\ Grounded(k, cache[k].is)
<1>1. /\ <<"active", k>> \in Facts /\ <<"inactive", k>> \in Facts /\ DbFailed \in Facts
      /\ now \in Int /\ \A f \in Facts : last[f] \in Int
  BY AllFacts DEF IInv, ClockOK
<1>2. /\ cache[k].at \in Int
      /\ cache[k].is = "yes" => Within(<<"active", k>>, cache[k].at, Slack)
      /\ cache[k].is = "no" => \/ Within(<<"inactive", k>>, cache[k].at, Slack)
                               \/ Within(DbFailed, cache[k].at, Slack)
  BY DEF IInv, CachesOK
<1>3. ASSUME NEW f \in Facts, NEW x \in Int, NEW ttl \in Nat, now - x < ttl, Within(f, x, Slack)
      PROVE  Recently(f, ttl - 1 + Slack)
  BY <1>1, <1>3, Constants DEF Within, Recently
<1>4. CASE cache[k].is = "yes" /\ now - cache[k].at < KeyTTL
  <2>1. Recently(<<"active", k>>, KeyTTL - 1 + Slack)
    BY <1>1, <1>2, <1>3, <1>4, Constants
  <2> QED BY <1>4, <2>1 DEF Grounded
<1>5. CASE cache[k].is = "no" /\ now - cache[k].at < NegativeTTL
  <2>1. Recently(<<"inactive", k>>, NegativeTTL - 1 + Slack)
          \/ Recently(DbFailed, NegativeTTL - 1 + Slack)
    BY <1>1, <1>2, <1>3, <1>5, Constants
  <2> QED BY <1>5, <2>1 DEF Grounded
<1> QED BY <1>4, <1>5 DEF FreshKey

(* That there are no keys was seen recently, or the query for them failed  *)
(* where there is a password.                                              *)
NoKeysSeen ==
  \/ Recently(Keyless, EnabledTTL - 1 + Slack)
  \/ password /\ Recently(DbFailed, NegativeTTL - 1 + Slack)

LEMMA Decided ==
  ASSUME IInv, NEW t \in Tasks, NEW r \in Requests, NEW hasKeys \in BOOLEAN,
         ~hasKeys => NoKeysSeen, Decide(t, r, hasKeys), UNCHANGED <<now, last, password>>
  PROVE  AnswerOK' /\ Moved(t, r) /\ cache' = cache
<1>1. ASSUME NEW is, Ends(t, r, is) PROVE answer'.is = is /\ answer'.to = r /\ Moved(t, r)
  BY <1>1 DEF Ends, Moved
<1>2. CASE ~(hasKeys \/ password)
  <2>1. PICK is \in {"admitted", "denied"} : Ends(t, r, is)
    BY <1>2 DEF Decide
  <2>2. Recently(Keyless, EnabledTTL - 1 + Slack) /\ ~password
    BY <1>2 DEF NoKeysSeen
  <2>3. cache' = cache
    BY <1>2 DEF Decide
  <2> QED BY <1>1, <2>1, <2>2, <2>3 DEF AnswerOK, Answered, RevocationTakesEffect,
            RefusalsHaveACause, OpenOnlyWhenKeyless, Recently
<1>3. CASE (hasKeys \/ password) /\ r.plain /\ r.path = "api" /\ r.cred \notin Keys
  <2>1. Closes(t) /\ cache' = cache
    BY <1>3 DEF Decide, Credentials
  <2> QED BY <2>1, NothingAnswered DEF Closes, Moved
<1>4. CASE /\ hasKeys \/ password
           /\ ~(r.plain /\ r.path = "api" /\ r.cred \notin Keys)
           /\ password /\ r.cred = DashboardPassword
  <2>1. Ends(t, r, "admitted") /\ cache' = cache
    BY <1>4 DEF Decide, Credentials
  <2>2. r.cred # NoCredential
    BY <1>4, Constants
  <2> QED BY <1>1, <2>1, <2>2 DEF AnswerOK, Answered, RevocationTakesEffect,
            RefusalsHaveACause, OpenOnlyWhenKeyless
<1>5. CASE /\ hasKeys \/ password
           /\ ~(r.plain /\ r.path = "api" /\ r.cred \notin Keys)
           /\ ~(password /\ r.cred = DashboardPassword)
           /\ hasKeys /\ r.cred \in Keys
  <2>1. CASE FreshKey(cache[r.cred])
    <3>1. Verified(t, r, cache[r.cred].is) /\ cache' = cache
      BY <1>5, <2>1 DEF Decide, Credentials, AfterHit
    <3>2. cache[r.cred].is \in {"yes", "no"} /\ Grounded(r.cred, cache[r.cred].is)
      BY <1>5, <2>1, FreshIsGrounded
    <3> QED BY <1>5, <3>1, <3>2, Judged
  <2>2. CASE ~FreshKey(cache[r.cred])
    <3>1. Goes(t, r, "verifying") /\ cache' = cache
      BY <1>5, <2>2 DEF Decide, Credentials
    <3> QED BY <1>5, <3>1, NothingAnswered DEF Goes, Moved
  <2> QED BY <2>1, <2>2
<1>6. CASE /\ hasKeys \/ password
           /\ ~(r.plain /\ r.path = "api" /\ r.cred \notin Keys)
           /\ ~(password /\ r.cred = DashboardPassword)
           /\ ~(hasKeys /\ r.cred \in Keys)
  <2>1. Ends(t, r, "denied") /\ cache' = cache
    BY <1>6 DEF Decide, Credentials
  <2>2. r.cred \in Keys => NoKeysSeen
    BY <1>6
  <2> QED BY <1>1, <2>1, <2>2 DEF AnswerOK, Answered, RevocationTakesEffect,
            RefusalsHaveACause, OpenOnlyWhenKeyless, NoKeysSeen, Recently
<1> QED BY <1>2, <1>3, <1>4, <1>5, <1>6

(* A task that has moved, and no other.                                    *)
LEMMA MovedTasks ==
  ASSUME IInv, ClockOK', Grows, now' = now, NEW t \in Tasks, NEW r \in Requests, Moved(t, r),
         found' = found \/ found' = [found EXCEPT ![t] = "none"]
  PROVE  TasksOK'
<1>1. PICK p \in {"idle", "verifying", "granted"} :
        /\ pc' = [pc EXCEPT ![t] = p]
        /\ req' = [req EXCEPT ![t] = IF p = "idle" THEN NoRequest ELSE r]
        /\ busy' = busy \/ busy' = [busy EXCEPT ![t] = 0]
        /\ p # "idle" => r.cred \in Keys
  BY DEF Moved
<1>2. /\ pc \in [Tasks -> {"idle"} \union Working]
      /\ req \in [Tasks -> Requests \union {NoRequest}]
      /\ found \in [Tasks -> {"none", "yes", "no", "error"}]
      /\ busy \in [Tasks -> 0..Slack]
  BY DEF IInv, TasksOK
<1>3. /\ pc' \in [Tasks -> {"idle"} \union Working]
      /\ req' \in [Tasks -> Requests \union {NoRequest}]
      /\ found' \in [Tasks -> {"none", "yes", "no", "error"}]
      /\ busy' \in [Tasks -> 0..Slack]
  BY <1>1, <1>2, Constants DEF Working
<1>4. TaskOK(t)'
  <2>1. pc'[t] = p /\ (p # "idle" => req'[t] = r)
    BY <1>1, <1>2
  <2> QED BY <1>1, <2>1 DEF TaskOK
<1>5. ASSUME NEW u \in Tasks, u # t PROVE TaskOK(u)'
  <2>1. pc'[u] = pc[u] /\ req'[u] = req[u] /\ found'[u] = found[u] /\ busy'[u] = busy[u]
    BY <1>1, <1>2, <1>5
  <2> QED BY <2>1, TaskKept
<1> QED BY <1>3, <1>4, <1>5 DEF TasksOK

(* A task that waits for something, and no other has moved.                *)
LEMMA WaitingTasks ==
  ASSUME IInv, ClockOK', Grows, now' = now, NEW t \in Tasks, NEW r \in Requests,
         NEW p \in Working, Goes(t, r, p),
         NEW is \in {"none", "yes", "no", "error"}, found' = [found EXCEPT ![t] = is],
         TaskOK(t)'
  PROVE  TasksOK'
<1>1. /\ pc \in [Tasks -> {"idle"} \union Working]
      /\ req \in [Tasks -> Requests \union {NoRequest}]
      /\ found \in [Tasks -> {"none", "yes", "no", "error"}]
      /\ busy \in [Tasks -> 0..Slack]
  BY DEF IInv, TasksOK
<1>2. /\ pc' = [pc EXCEPT ![t] = p] /\ req' = [req EXCEPT ![t] = r] /\ busy' = busy
  BY DEF Goes
<1>3. ASSUME NEW u \in Tasks, u # t PROVE TaskOK(u)'
  <2>1. pc'[u] = pc[u] /\ req'[u] = req[u] /\ found'[u] = found[u] /\ busy'[u] = busy[u]
    BY <1>1, <1>2, <1>3
  <2> QED BY <2>1, TaskKept
<1>4. /\ pc' \in [Tasks -> {"idle"} \union Working]
      /\ req' \in [Tasks -> Requests \union {NoRequest}]
      /\ found' \in [Tasks -> {"none", "yes", "no", "error"}]
      /\ busy' \in [Tasks -> 0..Slack]
  BY <1>1, <1>2
<1> QED BY <1>3, <1>4 DEF TasksOK

-----------------------------------------------------------------------------
(* The steps *)

LEMMA StartKeeps ==
  ASSUME IInv, NEW t \in Tasks, Start(t)
  PROVE  IInv'
<1>1. PICK r \in Requests :
        IF FreshEnabled THEN Decide(t, r, enabled.is = "yes")
        ELSE Goes(t, r, "counting") /\ UNCHANGED <<stamp, cache>>
  BY DEF Start
<1>2. ClockOK' /\ Grows
  BY SameClock DEF IInv, Start
<1>3. now' = now /\ found' = found /\ enabled' = enabled /\ UNCHANGED <<last, password>>
  BY DEF Start
<1>4. CASE FreshEnabled
  <2>1. enabled.is # "yes" => NoKeysSeen
    <3> SUFFICES ASSUME enabled.is # "yes" PROVE Recently(Keyless, EnabledTTL - 1 + Slack)
      BY DEF NoKeysSeen
    <3>1. now - enabled.at < EnabledTTL /\ enabled.is = "no" /\ enabled.at \in Int
      BY <1>4 DEF FreshEnabled, IInv, CachesOK, Verdicts
    <3>2. enabled.at - last[Keyless] <= Slack
      BY <3>1 DEF IInv, CachesOK, Within
    <3>3. now \in Int /\ last[Keyless] \in Int
      BY AllFacts DEF IInv, ClockOK
    <3> QED BY <3>1, <3>2, <3>3, Constants DEF Recently
  <2>2. AnswerOK' /\ Moved(t, r) /\ cache' = cache
    BY <1>1, <1>3, <1>4, <2>1, Decided
  <2>3. TasksOK' /\ CachesOK'
    BY <1>2, <1>3, <2>2, MovedTasks, CachesKept
  <2> QED BY <1>2, <2>2, <2>3 DEF IInv
<1>5. CASE ~FreshEnabled
  <2>1. Goes(t, r, "counting") /\ cache' = cache
    BY <1>1, <1>5
  <2>2. found' = [found EXCEPT ![t] = found[t]] /\ found[t] \in {"none", "yes", "no", "error"}
    BY <1>3 DEF IInv, TasksOK
  <2>3. pc'[t] = "counting" /\ req'[t] = r
    BY <2>1 DEF Goes, IInv, TasksOK
  <2>4. TaskOK(t)'
    BY <2>3 DEF TaskOK
  <2>5. "counting" \in Working
    BY DEF Working
  <2>6. TasksOK'
    BY <1>2, <1>3, <2>1, <2>2, <2>4, <2>5, WaitingTasks
  <2>7. AnswerOK'
    BY <2>1, NothingAnswered DEF Goes
  <2> QED BY <1>2, <1>3, <2>1, <2>6, <2>7, CachesKept DEF IInv
<1> QED BY <1>4, <1>5

LEMMA CountKeysKeeps ==
  ASSUME IInv, NEW t \in Tasks, CountKeys(t)
  PROVE  IInv'
<1>1. now' = now /\ UNCHANGED <<keys, enabled, cache>> /\ Goes(t, req[t], "counted")
  BY DEF CountKeys
<1>2. /\ ClockOK' /\ Grows
      /\ \E is \in {"yes", "no", "error"} :
           /\ found' = [found EXCEPT ![t] = is]
           /\ is = "no" => last'[Keyless] = now
           /\ is = "error" => last'[DbFailed] = now
  <2>1. CASE Found(t, IF Active(keys) = {} THEN "no" ELSE "yes") /\ UNCHANGED last
    <3>1. Active(keys) = {} => last[Keyless] = now
      BY DEF IInv, ClockOK
    <3>2. CASE Active(keys) = {}
      <4>1. found' = [found EXCEPT ![t] = "no"] /\ last'[Keyless] = now
        BY <2>1, <3>1, <3>2 DEF Found
      <4> QED BY <1>1, <2>1, <4>1, SameClock DEF IInv
    <3>3. CASE Active(keys) # {}
      <4>1. found' = [found EXCEPT ![t] = "yes"]
        BY <2>1, <3>3 DEF Found
      <4> QED BY <1>1, <2>1, <4>1, SameClock DEF IInv
    <3> QED BY <3>2, <3>3
  <2>2. CASE Found(t, "error") /\ last' = NotedFailure
    <3>1. found' = [found EXCEPT ![t] = "error"]
      BY <2>2 DEF Found
    <3> QED BY <1>1, <2>2, <3>1, FailureClock DEF IInv
  <2> QED BY <2>1, <2>2 DEF CountKeys
<1>3. PICK is \in {"yes", "no", "error"} :
           /\ found' = [found EXCEPT ![t] = is]
           /\ is = "no" => last'[Keyless] = now
           /\ is = "error" => last'[DbFailed] = now
  BY <1>2
<1>4. pc[t] = "counting" /\ req[t] \in Requests /\ busy[t] \in 0..Slack
  BY DEF CountKeys, IInv, TasksOK, TaskOK
<1>5. pc'[t] = "counted" /\ req'[t] = req[t] /\ busy'[t] = busy[t] /\ found'[t] = is
  BY <1>1, <1>3 DEF Goes, IInv, TasksOK
<1>6. TaskOK(t)'
  <2>1. now \in Int /\ last'[Keyless] \in Int /\ last'[DbFailed] \in Int
    BY <1>2, AllFacts DEF IInv, ClockOK
  <2>2. is = "no" => now - last'[Keyless] <= busy[t]
    BY <1>3, <1>4, <2>1
  <2>3. is = "error" => now - last'[DbFailed] <= busy[t]
    BY <1>3, <1>4, <2>1
  <2> QED BY <1>1, <1>4, <1>5, <2>2, <2>3 DEF TaskOK, Within
<1>7. TasksOK'
  <2>1. "counted" \in Working
    BY DEF Working
  <2> QED BY <1>1, <1>2, <1>3, <1>4, <1>6, <2>1, WaitingTasks
<1>8. AnswerOK'
  BY <1>1, NothingAnswered DEF Goes
<1> QED BY <1>1, <1>2, <1>7, <1>8, CachesKept DEF IInv

LEMMA StoreEnabledKeeps ==
  ASSUME IInv, NEW t \in Tasks, StoreEnabled(t)
  PROVE  IInv'
<1>1. /\ UNCHANGED <<now, keys, last, password>> /\ found' = [found EXCEPT ![t] = "none"]
  BY DEF StoreEnabled, Found
<1>2. ClockOK' /\ Grows
  BY <1>1, SameClock DEF IInv
<1>3. /\ req[t] \in Requests /\ busy[t] \in 0..Slack
      /\ found[t] \in {"yes", "no", "error"}
      /\ found[t] = "no" => Within(Keyless, now, busy[t])
      /\ found[t] = "error" => Within(DbFailed, now, busy[t])
  BY DEF StoreEnabled, IInv, TasksOK, TaskOK
<1>4. now \in Int /\ last[Keyless] \in Int /\ last[DbFailed] \in Int
  BY AllFacts DEF IInv, ClockOK
<1>5. CASE found[t] = "error"
  <2>1. enabled' = enabled
    BY <1>5 DEF StoreEnabled, Failed
  <2>2. CASE password
    <3>1. Decide(t, req[t], FALSE)
      BY <1>5, <2>2 DEF StoreEnabled, Failed
    <3>2. now - last[DbFailed] <= NegativeTTL - 1 + Slack
      BY <1>3, <1>4, <1>5, Constants DEF Within
    <3>3. NoKeysSeen
      BY <2>2, <3>2 DEF NoKeysSeen, Recently
    <3>4. AnswerOK' /\ Moved(t, req[t]) /\ cache' = cache
      BY <1>1, <1>3, <3>1, <3>3, Decided
    <3> QED BY <1>1, <1>2, <1>3, <2>1, <3>4, MovedTasks, CachesKept DEF IInv
  <2>3. CASE ~password
    <3>1. Closes(t) /\ cache' = cache
      BY <1>5, <2>3 DEF StoreEnabled, Failed
    <3>2. AnswerOK' /\ Moved(t, req[t])
      BY <3>1, NothingAnswered DEF Closes, Moved
    <3> QED BY <1>1, <1>2, <1>3, <2>1, <3>1, <3>2, MovedTasks, CachesKept DEF IInv
  <2> QED BY <2>2, <2>3
<1>6. CASE found[t] # "error"
  <2>1. /\ enabled' = [is |-> IF found[t] = "yes" THEN "yes" ELSE "no", at |-> now]
        /\ Decide(t, req[t], found[t] = "yes")
    BY <1>6 DEF StoreEnabled, Failed
  <2>2. found[t] # "yes" => NoKeysSeen
    <3> SUFFICES ASSUME found[t] # "yes" PROVE now - last[Keyless] <= EnabledTTL - 1 + Slack
      BY DEF NoKeysSeen, Recently
    <3> QED BY <1>3, <1>4, <1>6, Constants DEF Within
  <2>3. AnswerOK' /\ Moved(t, req[t]) /\ cache' = cache
    BY <1>1, <1>3, <2>1, <2>2, Decided
  <2>4. CachesOK'
    <3>1. enabled'.is = "no" => now - last[Keyless] <= Slack
      BY <1>3, <1>4, <1>6, <2>1, Constants DEF Within
    <3>2. enabled'.at = now /\ enabled'.is \in Verdicts
      BY <2>1 DEF Verdicts
    <3> QED BY <1>1, <1>4, <2>3, <3>1, <3>2 DEF IInv, CachesOK, Within
  <2> QED BY <1>1, <1>2, <1>3, <2>3, <2>4, MovedTasks DEF IInv
<1> QED BY <1>5, <1>6

LEMMA VerifyKeyKeeps ==
  ASSUME IInv, NEW t \in Tasks, VerifyKey(t)
  PROVE  IInv'
<1>1. now' = now /\ UNCHANGED <<keys, enabled, cache>> /\ Goes(t, req[t], "verified")
  BY DEF VerifyKey
<1>2. req[t] \in Requests /\ req[t].cred \in Keys /\ busy[t] \in 0..Slack
  BY DEF VerifyKey, IInv, TasksOK, TaskOK
<1> DEFINE k == req[t].cred
<1>3. /\ ClockOK' /\ Grows
      /\ \E is \in {"yes", "no"} :
           /\ found' = [found EXCEPT ![t] = is]
           /\ is = "yes" => last'[<<"active", k>>] = now
           /\ is = "no" => last'[<<"inactive", k>>] = now \/ last'[DbFailed] = now
  <2>1. CASE Found(t, IF keys[k] = "active" THEN "yes" ELSE "no") /\ UNCHANGED last
    <3>1. /\ keys[k] = "active" => last[<<"active", k>>] = now
          /\ keys[k] # "active" => last[<<"inactive", k>>] = now
      BY <1>2 DEF IInv, ClockOK
    <3>2. ClockOK' /\ Grows
      BY <1>1, <2>1, SameClock DEF IInv
    <3>3. CASE keys[k] = "active"
      <4>1. found' = [found EXCEPT ![t] = "yes"] /\ last'[<<"active", k>>] = now
        BY <2>1, <3>1, <3>3 DEF Found
      <4> QED BY <3>2, <4>1
    <3>4. CASE keys[k] # "active"
      <4>1. found' = [found EXCEPT ![t] = "no"] /\ last'[<<"inactive", k>>] = now
        BY <2>1, <3>1, <3>4 DEF Found
      <4> QED BY <3>2, <4>1
    <3> QED BY <3>3, <3>4
  <2>2. CASE Found(t, "no") /\ last' = NotedFailure
    <3>1. found' = [found EXCEPT ![t] = "no"]
      BY <2>2 DEF Found
    <3> QED BY <1>1, <2>2, <3>1, FailureClock DEF IInv
  <2> QED BY <2>1, <2>2 DEF VerifyKey
<1>4. PICK is \in {"yes", "no"} :
           /\ found' = [found EXCEPT ![t] = is]
           /\ is = "yes" => last'[<<"active", k>>] = now
           /\ is = "no" => last'[<<"inactive", k>>] = now \/ last'[DbFailed] = now
  BY <1>3
<1>5. pc'[t] = "verified" /\ req'[t] = req[t] /\ busy'[t] = busy[t] /\ found'[t] = is
  BY <1>1, <1>4 DEF Goes, IInv, TasksOK
<1>6. TaskOK(t)'
  <2>1. /\ now \in Int /\ last'[DbFailed] \in Int
        /\ last'[<<"active", k>>] \in Int /\ last'[<<"inactive", k>>] \in Int
    BY <1>2, <1>3, AllFacts DEF IInv, ClockOK
  <2>2. is = "yes" => now - last'[<<"active", k>>] <= busy[t]
    BY <1>2, <1>4, <2>1
  <2>3. is = "no" => now - last'[<<"inactive", k>>] <= busy[t] \/ now - last'[DbFailed] <= busy[t]
    BY <1>2, <1>4, <2>1
  <2> QED BY <1>1, <1>2, <1>5, <2>2, <2>3 DEF TaskOK, Within
<1>7. TasksOK'
  <2>1. "verified" \in Working
    BY DEF Working
  <2> QED BY <1>1, <1>2, <1>3, <1>4, <1>6, <2>1, WaitingTasks
<1>8. AnswerOK'
  BY <1>1, NothingAnswered DEF Goes
<1> QED BY <1>1, <1>3, <1>7, <1>8, CachesKept DEF IInv

LEMMA StoreKeyKeeps ==
  ASSUME IInv, NEW t \in Tasks, StoreKey(t)
  PROVE  IInv'
<1>1. /\ UNCHANGED <<now, keys, last, password, enabled>>
      /\ found' = [found EXCEPT ![t] = "none"]
      /\ cache' = Inserted(req[t].cred, found[t]) /\ Verified(t, req[t], found[t])
  BY DEF StoreKey, Found
<1> DEFINE k == req[t].cred
<1>2. ClockOK' /\ Grows
  BY <1>1, SameClock DEF IInv
<1>3. /\ req[t] \in Requests /\ k \in Keys /\ busy[t] \in 0..Slack
      /\ found[t] \in {"yes", "no"}
      /\ found[t] = "yes" => Within(<<"active", k>>, now, busy[t])
      /\ found[t] = "no" => Within(<<"inactive", k>>, now, busy[t]) \/ Within(DbFailed, now, busy[t])
  BY DEF StoreKey, IInv, TasksOK, TaskOK
<1>4. /\ now \in Int /\ last[DbFailed] \in Int
      /\ last[<<"active", k>>] \in Int /\ last[<<"inactive", k>>] \in Int
  BY <1>3, AllFacts DEF IInv, ClockOK
<1>5. /\ found[t] = "yes" => Within(<<"active", k>>, now, Slack)
      /\ found[t] = "no" => Within(<<"inactive", k>>, now, Slack) \/ Within(DbFailed, now, Slack)
  BY <1>3, <1>4, Constants DEF Within
<1>6. Grounded(k, found[t])
  BY <1>4, <1>5, Constants DEF Within, Grounded, Recently
<1>7. AnswerOK' /\ Moved(t, req[t])
  BY <1>1, <1>3, <1>6, Judged
<1>8. TasksOK'
  BY <1>1, <1>2, <1>3, <1>7, MovedTasks
<1>9. CachesOK'
  <2>1. \A j \in Keys :
          \/ j = k /\ cache'[j].is = found[t] /\ cache'[j].at = now
          \/ cache'[j].is = "none" /\ cache'[j].at = 0
          \/ cache'[j] = cache[j]
    BY <1>1 DEF Inserted
  <2>2. ASSUME NEW j \in Keys
        PROVE  /\ cache'[j].at \in Int
               /\ cache'[j].is = "yes" => Within(<<"active", j>>, cache'[j].at, Slack)
               /\ cache'[j].is = "no" => \/ Within(<<"inactive", j>>, cache'[j].at, Slack)
                                         \/ Within(DbFailed, cache'[j].at, Slack)
    BY <1>4, <1>5, <2>1 DEF IInv, CachesOK
  <2> QED BY <1>1, <2>2 DEF IInv, CachesOK, Within
<1> QED BY <1>2, <1>7, <1>8, <1>9 DEF IInv

LEMMA RecordRequestKeeps ==
  ASSUME IInv, NEW t \in Tasks, RecordRequest(t)
  PROVE  IInv'
<1>1. UNCHANGED <<now, keys, last, password, enabled, cache, found>>
  BY DEF RecordRequest
<1>2. ClockOK' /\ Grows
  BY <1>1, SameClock DEF IInv
<1>3. req[t] \in Requests /\ req[t].cred # NoCredential
  BY Constants DEF RecordRequest, IInv, TasksOK, TaskOK
<1>4. Closes(t) \/ Ends(t, req[t], "admitted")
  BY DEF RecordRequest
<1>5. AnswerOK' /\ Moved(t, req[t])
  <2>1. CASE Closes(t)
    BY <2>1, NothingAnswered DEF Closes, Moved
  <2>2. CASE Ends(t, req[t], "admitted")
    <3>1. answer'.is = "admitted" /\ answer'.to = req[t] /\ Moved(t, req[t])
      BY <2>2 DEF Ends, Moved
    <3> QED BY <1>3, <3>1 DEF AnswerOK, Answered, RevocationTakesEffect, RefusalsHaveACause,
                              OpenOnlyWhenKeyless
  <2> QED BY <1>4, <2>1, <2>2
<1> QED BY <1>1, <1>2, <1>3, <1>5, MovedTasks, CachesKept DEF IInv

LEMMA EditKeyKeeps ==
  ASSUME IInv, NEW k \in Keys, EditKey(k)
  PROVE  IInv'
<1>1. now' = now /\ last' = Noted(keys', now) /\ UNCHANGED <<pc, req, found, busy, enabled, cache>>
  BY DEF EditKey, task
<1>2. ClockOK' /\ Grows
  BY <1>1, NotedClock DEF IInv, ClockOK
<1>3. TasksOK'
  BY <1>1, <1>2, TaskKept DEF IInv, TasksOK
<1>4. AnswerOK'
  BY NothingAnswered DEF EditKey
<1> QED BY <1>1, <1>2, <1>3, <1>4, CachesKept DEF IInv

LEMMA TickKeeps ==
  ASSUME IInv, Tick
  PROVE  IInv'
<1>1. /\ now' = now + 1 /\ last' = Noted(keys, now + 1)
      /\ busy' = [t \in Tasks |-> IF pc[t] = "idle" THEN 0 ELSE busy[t] + 1]
      /\ UNCHANGED <<keys, pc, req, found, enabled, cache>>
      /\ \A t \in Tasks : pc[t] # "idle" => busy[t] < Slack
  BY DEF Tick
<1>2. now \in Nat /\ now + 1 \in Nat
  BY DEF IInv, ClockOK
<1>3. ClockOK' /\ Grows
  BY <1>1, <1>2, NotedClock DEF IInv
<1>4. busy' \in [Tasks -> 0..Slack]
  BY <1>1, Constants DEF IInv, TasksOK
<1>5. ASSUME NEW t \in Tasks PROVE TaskOK(t)'
  <2>1. \A f \in Facts : last[f] \in Int /\ last'[f] \in Int /\ last'[f] >= last[f]
    BY <1>3 DEF IInv, ClockOK, Grows
  <2>2. busy[t] \in Int /\ (pc[t] # "idle" => busy'[t] = busy[t] + 1)
    BY <1>1 DEF IInv, TasksOK
  <2>3. ASSUME NEW f \in Facts, pc[t] # "idle", Within(f, now, busy[t])
        PROVE  now' - last'[f] <= busy'[t]
    BY <1>1, <1>2, <2>1, <2>2, <2>3 DEF Within
  <2>4. TaskOK(t) /\ pc'[t] = pc[t] /\ req'[t] = req[t] /\ found'[t] = found[t]
    BY <1>1 DEF IInv, TasksOK
  <2> QED BY <2>3, <2>4, AllFacts DEF TaskOK, Within
<1>6. TasksOK'
  BY <1>1, <1>4, <1>5 DEF IInv, TasksOK
<1>7. AnswerOK'
  BY NothingAnswered DEF Tick
<1> QED BY <1>1, <1>3, <1>6, <1>7, CachesKept DEF IInv

LEMMA StutterKeeps ==
  ASSUME IInv, UNCHANGED vars
  PROVE  IInv'
<1>1. ClockOK' /\ Grows
  BY SameClock DEF IInv, vars
<1>2. UNCHANGED <<now, pc, req, found, busy, enabled, cache, answer, password, last>>
  BY DEF vars, task
<1>3. TasksOK'
  BY <1>1, <1>2, TaskKept DEF IInv, TasksOK
<1>4. AnswerOK'
  BY <1>2 DEF IInv, AnswerOK, Answered, RevocationTakesEffect, RefusalsHaveACause,
              OpenOnlyWhenKeyless, Recently
<1> QED BY <1>1, <1>2, <1>3, <1>4, CachesKept DEF IInv

LEMMA InitIInv == Init => IInv
<1> SUFFICES ASSUME Init PROVE IInv
  OBVIOUS
<1>1. \A f \in Facts : last[f] = IF f \in TrueOf(keys) THEN 0 ELSE -100
  BY DEF Init, Never
<1>2. now = 0 /\ last \in [Facts -> Int] /\ \A f \in Facts : last[f] <= 0
  <2>1. now = 0 /\ last \in [Facts -> {0, -100}]
    BY DEF Init, Never
  <2> QED BY <2>1
<1>3. ClockOK
  BY <1>1, <1>2, TrueFacts, AllFacts DEF ClockOK
<1>4. TasksOK
  <2>1. /\ pc = [t \in Tasks |-> "idle"] /\ req = [t \in Tasks |-> NoRequest]
        /\ found = [t \in Tasks |-> "none"] /\ busy = [t \in Tasks |-> 0]
    BY DEF Init
  <2>2. busy \in [Tasks -> 0..Slack]
    BY <2>1, Constants
  <2> QED BY <2>1, <2>2 DEF TasksOK, TaskOK
<1>5. CachesOK
  BY DEF Init, CachesOK, Verdicts
<1>6. AnswerOK
  BY DEF Init, NoAnswer, AnswerOK, Answered, RevocationTakesEffect, RefusalsHaveACause,
         OpenOnlyWhenKeyless
<1> QED BY <1>3, <1>4, <1>5, <1>6 DEF IInv

LEMMA Inductive == IInv /\ [Next]_vars => IInv'
<1> SUFFICES ASSUME IInv, [Next]_vars PROVE IInv'
  OBVIOUS
<1> QED
  BY StartKeeps, CountKeysKeeps, StoreEnabledKeeps, VerifyKeyKeeps, StoreKeyKeeps,
     RecordRequestKeeps, EditKeyKeeps, TickKeeps, StutterKeeps DEF Next

LEMMA Always == Spec => []IInv
BY InitIInv, Inductive, PTL DEF Spec

(* A revoked key is refused when the lifetime of a cached verification and *)
(* the time one takes have passed, whoever verified it meanwhile.          *)
THEOREM Revocation == Spec => []RevocationTakesEffect
<1>1. IInv => RevocationTakesEffect
  BY DEF IInv, AnswerOK
<1> QED BY <1>1, Always, PTL

(* A key is refused for a reason that held within the lifetime of what is  *)
(* cached of it.                                                           *)
THEOREM Refusal == Spec => []RefusalsHaveACause
<1>1. IInv => RefusalsHaveACause
  BY DEF IInv, AnswerOK
<1> QED BY <1>1, Always, PTL

(* Without a credential there is no way in while keys are known or a       *)
(* password is set, and none that a failing database opens.                *)
THEOREM FailClosed == Spec => []OpenOnlyWhenKeyless
<1>1. IInv => OpenOnlyWhenKeyless
  BY DEF IInv, AnswerOK
<1> QED BY <1>1, Always, PTL
-----------------------------------------------------------------------------
(* What a step of the middleware writes *)

(* The task goes on with a request, or is done with it; the instant for    *)
(* the limit is the one at which the request is granted.                   *)
Advances(t) ==
  \E r \in Requests, p \in {"idle"} \union Working :
    /\ pc' = [pc EXCEPT ![t] = p]
    /\ req' = [req EXCEPT ![t] = IF p = "idle" THEN NoRequest ELSE r]
    /\ busy' = IF p = "idle" THEN [busy EXCEPT ![t] = 0] ELSE busy
    /\ \/ p # "granted" /\ stamp' = stamp
       \/ p = "granted" /\ stamp' = [stamp EXCEPT ![t] = now]
       \/ p = "idle" /\ stamp' = [stamp EXCEPT ![t] = 0]
    /\ answer' = NoAnswer \/ answer' \in [is : Answers, to : Requests]

LEMMA GoingAdvances ==
  ASSUME NEW t \in Tasks, NEW r \in Requests, NEW p \in Working, p # "granted",
         Goes(t, r, p), stamp' = stamp
  PROVE  Advances(t)
<1>1. p # "idle"
  BY DEF Working
<1> QED BY <1>1 DEF Goes, Advances

LEMMA ClosingAdvances ==
  ASSUME NEW t \in Tasks, NEW r \in Requests, Closes(t),
         stamp' = stamp \/ stamp' = [stamp EXCEPT ![t] = 0]
  PROVE  Advances(t)
<1> DEFINE p == "idle"
<1>1. /\ pc' = [pc EXCEPT ![t] = p]
      /\ req' = [req EXCEPT ![t] = IF p = "idle" THEN NoRequest ELSE r]
      /\ busy' = IF p = "idle" THEN [busy EXCEPT ![t] = 0] ELSE busy
      /\ answer' = NoAnswer
  BY DEF Closes
<1> QED BY <1>1 DEF Advances

LEMMA EndingAdvances ==
  ASSUME NEW t \in Tasks, NEW r \in Requests, NEW is \in {"admitted", "denied"}, Ends(t, r, is),
         stamp' = stamp \/ stamp' = [stamp EXCEPT ![t] = 0]
  PROVE  Advances(t)
<1> DEFINE p == "idle"
<1>1. /\ pc' = [pc EXCEPT ![t] = p]
      /\ req' = [req EXCEPT ![t] = IF p = "idle" THEN NoRequest ELSE r]
      /\ busy' = IF p = "idle" THEN [busy EXCEPT ![t] = 0] ELSE busy
      /\ answer' \in [is : Answers, to : Requests]
  BY DEF Ends, Answers
<1> QED BY <1>1 DEF Advances

LEMMA VerdictAdvances ==
  ASSUME NEW t \in Tasks, NEW r \in Requests, NEW is \in {"yes", "no"}, Verified(t, r, is)
  PROVE  Advances(t)
<1>1. CASE is = "yes" /\ ScopeFits(r)
  <2> DEFINE p == "granted"
  <2>1. Grant(t, r)
    BY <1>1 DEF Verified
  <2>2. /\ pc' = [pc EXCEPT ![t] = p]
        /\ req' = [req EXCEPT ![t] = IF p = "idle" THEN NoRequest ELSE r]
        /\ busy' = IF p = "idle" THEN [busy EXCEPT ![t] = 0] ELSE busy
        /\ stamp' = [stamp EXCEPT ![t] = now]
        /\ answer' \in [is : Answers, to : Requests]
    BY <2>1 DEF Grant, Answers
  <2> QED BY <2>2 DEF Advances, Working
<1>2. CASE is = "yes" /\ ~ScopeFits(r)
  BY <1>2, ClosingAdvances DEF Verified
<1>3. CASE is = "no"
  <2>1. Ends(t, r, "denied") /\ stamp' = stamp
    BY <1>3 DEF Verified
  <2> QED BY <2>1, EndingAdvances
<1> QED BY <1>1, <1>2, <1>3

LEMMA DecisionAdvances ==
  ASSUME IInv, NEW t \in Tasks, NEW r \in Requests, NEW hasKeys \in BOOLEAN,
         Decide(t, r, hasKeys)
  PROVE  Advances(t) /\ cache' = cache
<1>1. CASE ~(hasKeys \/ password)
  <2>1. PICK is \in {"admitted", "denied"} : Ends(t, r, is)
    BY <1>1 DEF Decide
  <2>2. UNCHANGED <<stamp, cache>>
    BY <1>1 DEF Decide
  <2> QED BY <2>1, <2>2, EndingAdvances
<1>2. CASE hasKeys \/ password
  <2>0. Credentials(t, r, hasKeys)
    BY <1>2 DEF Decide
  <2>1. CASE r.plain /\ r.path = "api" /\ r.cred \notin Keys
    BY <2>0, <2>1, ClosingAdvances DEF Credentials
  <2>2. CASE /\ ~(r.plain /\ r.path = "api" /\ r.cred \notin Keys)
             /\ password /\ r.cred = DashboardPassword
    <3>1. Ends(t, r, "admitted") /\ UNCHANGED <<stamp, cache>>
      BY <2>0, <2>2 DEF Credentials
    <3> QED BY <3>1, EndingAdvances
  <2>3. CASE /\ ~(r.plain /\ r.path = "api" /\ r.cred \notin Keys)
             /\ ~(password /\ r.cred = DashboardPassword)
             /\ hasKeys /\ r.cred \in Keys
    <3>1. CASE FreshKey(cache[r.cred])
      <4>1. Verified(t, r, cache[r.cred].is) /\ cache' = cache
        BY <2>0, <2>3, <3>1 DEF Credentials, AfterHit
      <4>2. cache[r.cred].is \in {"yes", "no"}
        BY <2>3, <3>1, FreshIsGrounded
      <4> QED BY <4>1, <4>2, VerdictAdvances
    <3>2. CASE ~FreshKey(cache[r.cred])
      <4>1. Goes(t, r, "verifying") /\ UNCHANGED <<stamp, cache>>
        BY <2>0, <2>3, <3>2 DEF Credentials
      <4> QED BY <4>1, GoingAdvances DEF Working
    <3> QED BY <3>1, <3>2
  <2>4. CASE /\ ~(r.plain /\ r.path = "api" /\ r.cred \notin Keys)
             /\ ~(password /\ r.cred = DashboardPassword)
             /\ ~(hasKeys /\ r.cred \in Keys)
    <3>1. Ends(t, r, "denied") /\ UNCHANGED <<stamp, cache>>
      BY <2>0, <2>4 DEF Credentials
    <3> QED BY <3>1, EndingAdvances
  <2> QED BY <2>1, <2>2, <2>3, <2>4
<1> QED BY <1>1, <1>2

TaskStep(t) ==
  Start(t) \/ CountKeys(t) \/ StoreEnabled(t) \/ VerifyKey(t) \/ StoreKey(t) \/ RecordRequest(t)

(* What a step of a task writes besides.                                   *)
LEMMA StepWrites ==
  ASSUME IInv, NEW t \in Tasks, TaskStep(t)
  PROVE  /\ Advances(t)
         /\ UNCHANGED <<now, password, keys, edits>>
         /\ last' = last \/ last' = NotedFailure
         /\ enabled' = enabled \/ \E is \in {"yes", "no"} : enabled' = [is |-> is, at |-> now]
         /\ cache' = cache \/ \E k \in Keys, is \in {"yes", "no"} : cache' = Inserted(k, is)
         /\ UNCHANGED <<window, admitted>> \/ RecordRequest(t)
<1>0. pc[t] # "idle" => req[t] \in Requests
  BY DEF IInv, TasksOK, TaskOK
<1>1. CASE Start(t)
  <2>1. PICK r \in Requests :
          IF FreshEnabled THEN Decide(t, r, enabled.is = "yes")
          ELSE Goes(t, r, "counting") /\ UNCHANGED <<stamp, cache>>
    BY <1>1 DEF Start
  <2>2. Advances(t) /\ cache' = cache
    <3>1. CASE FreshEnabled
      BY <2>1, <3>1, DecisionAdvances
    <3>2. CASE ~FreshEnabled
      BY <2>1, <3>2, GoingAdvances DEF Working
    <3> QED BY <3>1, <3>2
  <2> QED BY <1>1, <2>2 DEF Start
<1>2. CASE CountKeys(t)
  <2>1. Goes(t, req[t], "counted") /\ stamp' = stamp /\ req[t] \in Requests
    BY <1>0, <1>2 DEF CountKeys
  <2>2. Advances(t)
    BY <2>1, GoingAdvances DEF Working
  <2> QED BY <1>2, <2>2 DEF CountKeys
<1>3. CASE StoreEnabled(t)
  <2>1. req[t] \in Requests
    BY <1>0, <1>3 DEF StoreEnabled
  <2>2. Advances(t) /\ cache' = cache
    <3>1. CASE Closes(t) /\ UNCHANGED <<stamp, cache>>
      BY <2>1, <3>1, ClosingAdvances
    <3>2. CASE \E hasKeys \in BOOLEAN : Decide(t, req[t], hasKeys)
      BY <2>1, <3>2, DecisionAdvances
    <3> QED BY <1>3, <3>1, <3>2 DEF StoreEnabled
  <2>3. enabled' = enabled \/ \E is \in {"yes", "no"} : enabled' = [is |-> is, at |-> now]
    BY <1>3 DEF StoreEnabled
  <2> QED BY <1>3, <2>2, <2>3 DEF StoreEnabled
<1>4. CASE VerifyKey(t)
  <2>1. Goes(t, req[t], "verified") /\ stamp' = stamp /\ req[t] \in Requests
    BY <1>0, <1>4 DEF VerifyKey
  <2>2. Advances(t)
    BY <2>1, GoingAdvances DEF Working
  <2> QED BY <1>4, <2>2 DEF VerifyKey
<1>5. CASE StoreKey(t)
  <2>1. req[t] \in Requests /\ req[t].cred \in Keys /\ found[t] \in {"yes", "no"}
    BY <1>5 DEF StoreKey, IInv, TasksOK, TaskOK
  <2>2. Advances(t)
    BY <1>5, <2>1, VerdictAdvances DEF StoreKey
  <2> QED BY <1>5, <2>1, <2>2 DEF StoreKey
<1>6. CASE RecordRequest(t)
  <2>1. req[t] \in Requests
    BY <1>0, <1>6 DEF RecordRequest
  <2>2. /\ Closes(t) \/ Ends(t, req[t], "admitted")
        /\ stamp' = [stamp EXCEPT ![t] = 0]
    BY <1>6 DEF RecordRequest
  <2>3. Advances(t)
    BY <2>1, <2>2, ClosingAdvances, EndingAdvances
  <2> QED BY <1>6, <2>3 DEF RecordRequest
<1> QED BY <1>1, <1>2, <1>3, <1>4, <1>5, <1>6 DEF TaskStep

-----------------------------------------------------------------------------
(* What check_and_record leaves of a key's instants *)

(* A set of natural numbers has a least one.                               *)
LEMMA LeastNatural ==
  ASSUME NEW S \in SUBSET Nat, S # {}
  PROVE  \E x \in S : \A y \in S : x <= y
<1> DEFINE R == OpToRel(<, Nat)
<1>1. IsWellFoundedOn(R, Nat)
  BY NatLessThanWellFounded
<1>2. \A x, y \in Nat : x < y => <<x, y>> \in R
  BY DEF OpToRel
<1> HIDE DEF R
<1>3. PICK x \in S : \A y \in S : ~(<<y, x>> \in R)
  BY <1>1, WFMin
<1>4. ASSUME NEW y \in S PROVE x <= y
  <2>1. x \in Nat /\ y \in Nat /\ ~(y < x)
    BY <1>2, <1>3
  <2> QED BY <2>1
<1> QED BY <1>4

(* Instants leave from the front, and only those older than the window.    *)
Shortened(q, p, d, t) ==
  /\ d \in 0..Len(q) /\ Len(p) = Len(q) - d
  /\ \A i \in 1..Len(p) : p[i] = q[i + d]
  /\ \A i \in 1..d : t - q[i] > Window

LEMMA Elements ==
  ASSUME NEW S, NEW q \in Seq(S)
  PROVE  Len(q) \in Nat /\ \A i \in 1..Len(q) : q[i] \in S
BY ElementOfSeq

LEMMA PrunedShortens ==
  ASSUME NEW S \in SUBSET Int, NEW q \in Seq(S), NEW t \in Int
  PROVE  Pruned(q, t) \in Seq(S) /\ \E d \in 0..Len(q) : Shortened(q, Pruned(q, t), d, t)
<1>0. Len(q) \in Nat /\ Window \in Nat /\ \A i \in 1..Len(q) : q[i] \in Int
  <2>1. Len(q) \in Nat /\ \A i \in 1..Len(q) : q[i] \in S
    BY Elements
  <2>2. Window \in Nat
    BY ClientAuthAssumption
  <2> QED BY <2>1, <2>2
<1> DEFINE F == {i \in 1..Len(q) : t - q[i] <= Window}
<1>1. CASE F = {}
  <2>1. Pruned(q, t) = <<>>
    BY <1>1 DEF Pruned
  <2>2. \A i \in 1..Len(q) : t - q[i] > Window
    BY <1>0, <1>1
  <2>3. Shortened(q, <<>>, Len(q), t)
    BY <1>0, <2>2 DEF Shortened
  <2> QED BY <1>0, <2>1, <2>3
<1>2. CASE F # {}
  <2>1. F \in SUBSET Nat
    BY <1>0
  <2>2. PICK x \in F : \A y \in F : x <= y
    <3> HIDE DEF F
    <3> QED BY <1>2, <2>1, LeastNatural
  <2> DEFINE First(i) == t - q[i] <= Window /\ \A j \in 1..(i - 1) : t - q[j] > Window
  <2>3. x \in 1..Len(q) /\ First(x)
    <3>1. ASSUME NEW j \in 1..(x - 1) PROVE t - q[j] > Window
      <4>1. j \in 1..Len(q) /\ ~(x <= j)
        BY <1>0, <2>2
      <4>2. j \notin F
        BY <2>2, <4>1
      <4> QED BY <1>0, <4>1, <4>2
    <3> QED BY <2>2, <3>1
  <2> DEFINE first == CHOOSE i \in 1..Len(q) : First(i)
  <2>4. first \in 1..Len(q) /\ First(first)
    BY <2>3
  <2>5. Pruned(q, t) = SubSeq(q, first, Len(q))
    BY <2>2 DEF Pruned
  <2> HIDE DEF first
  <2>6. Pruned(q, t) \in Seq(S)
    BY <1>0, <2>4, <2>5
  <2>7. Shortened(q, Pruned(q, t), first - 1, t)
    <3>1. Len(Pruned(q, t)) = Len(q) - (first - 1) /\ first - 1 \in 0..Len(q)
      BY <1>0, <2>4, <2>5
    <3>2. \A i \in 1..Len(Pruned(q, t)) : Pruned(q, t)[i] = q[i + (first - 1)]
      BY <1>0, <2>4, <2>5, <3>1
    <3> QED BY <2>4, <3>1, <3>2 DEF Shortened
  <2> QED BY <1>0, <2>4, <2>6, <2>7
<1> QED BY <1>1, <1>2

-----------------------------------------------------------------------------
(* Types *)

LEMMA Sizes ==
  /\ MaxNow \in Nat /\ MaxEdits \in Nat /\ Window \in Nat
  /\ MaxEntries \in Nat /\ MaxEntries >= 1 /\ Limit \in Nat /\ Limit >= 1
  /\ NoRequest \notin Requests
BY ClientAuthAssumption DEF NoRequest

Cached == {k \in Keys : cache[k].is # "none"}
CachedFinite == IsFiniteSet(Cached)

LEMMA InsertedType ==
  ASSUME TypeOK, CachedFinite, NEW k \in Keys, NEW is \in {"yes", "no"},
         cache' = Inserted(k, is)
  PROVE  /\ cache' \in [Keys -> [is : Verdicts, at : 0..MaxNow]]
         /\ CachedFinite' /\ Cardinality(Cached') <= MaxEntries
<1>1. /\ cache \in [Keys -> [is : Verdicts, at : 0..MaxNow]] /\ now \in 0..MaxNow
      /\ 0 \in 0..MaxNow /\ Cardinality(Cached) <= MaxEntries /\ Cardinality(Cached) \in Nat
  BY Sizes, FS_CardinalityType DEF TypeOK, Cached, CachedFinite
<1>2. cache' \in [Keys -> [is : Verdicts, at : 0..MaxNow]]
  BY <1>1 DEF Inserted, Verdicts
<1>3. CASE Cardinality(Cached) >= MaxEntries
  <2>1. \A j \in Keys : cache'[j].is = IF j = k THEN is ELSE "none"
    BY <1>3 DEF Inserted, Cached
  <2>2. Cached' = {k}
    BY <2>1 DEF Cached
  <2> QED BY <1>2, <2>2, FS_Singleton, Sizes DEF CachedFinite
<1>4. CASE ~(Cardinality(Cached) >= MaxEntries)
  <2>1. \A j \in Keys : cache'[j].is = IF j = k THEN is ELSE cache[j].is
    BY <1>4 DEF Inserted, Cached
  <2>2. Cached' = Cached \cup {k}
    BY <2>1 DEF Cached
  <2>3. CachedFinite' /\ Cardinality(Cached') <= Cardinality(Cached) + 1
    BY <1>1, <2>2, FS_AddElement DEF CachedFinite
  <2>4. Cardinality(Cached') \in Nat
    BY <2>3, FS_CardinalityType DEF CachedFinite
  <2> QED BY <1>1, <1>2, <1>4, <2>3, <2>4, Sizes
<1> QED BY <1>3, <1>4

LEMMA NotedType ==
  ASSUME NEW ks, NEW n \in 0..MaxNow, last \in [Facts -> {Never} \union 0..MaxNow],
         last' = Noted(ks, n)
  PROVE  last' \in [Facts -> {Never} \union 0..MaxNow]
BY DEF Noted

(* The tasks after a step of one.                                          *)
LEMMA AdvancedTypes ==
  ASSUME TypeOK, NEW t \in Tasks, Advances(t)
  PROVE  /\ pc' \in [Tasks -> {"idle"} \union Working]
         /\ req' \in [Tasks -> Requests \union {NoRequest}]
         /\ \A u \in Tasks : (req'[u] = NoRequest) <=> (pc'[u] = "idle")
         /\ stamp' \in [Tasks -> 0..MaxNow]
         /\ busy' \in [Tasks -> 0..Slack]
         /\ \A u \in Tasks : pc'[u] = "idle" => busy'[u] = 0
         /\ answer' \in [is : Answers, to : Requests] \union {NoAnswer}
<1>1. PICK r \in Requests, p \in {"idle"} \union Working :
        /\ pc' = [pc EXCEPT ![t] = p]
        /\ req' = [req EXCEPT ![t] = IF p = "idle" THEN NoRequest ELSE r]
        /\ busy' = IF p = "idle" THEN [busy EXCEPT ![t] = 0] ELSE busy
        /\ \/ p # "granted" /\ stamp' = stamp
           \/ p = "granted" /\ stamp' = [stamp EXCEPT ![t] = now]
           \/ p = "idle" /\ stamp' = [stamp EXCEPT ![t] = 0]
        /\ answer' = NoAnswer \/ answer' \in [is : Answers, to : Requests]
  BY DEF Advances
<1>2. /\ pc \in [Tasks -> {"idle"} \union Working]
      /\ req \in [Tasks -> Requests \union {NoRequest}]
      /\ \A u \in Tasks : (req[u] = NoRequest) <=> (pc[u] = "idle")
      /\ stamp \in [Tasks -> 0..MaxNow] /\ now \in 0..MaxNow /\ 0 \in 0..MaxNow
      /\ busy \in [Tasks -> 0..Slack] /\ 0 \in 0..Slack
      /\ \A u \in Tasks : pc[u] = "idle" => busy[u] = 0
  BY Sizes, Constants DEF TypeOK
<1>3. ASSUME NEW u \in Tasks
      PROVE  /\ (req'[u] = NoRequest) <=> (pc'[u] = "idle")
             /\ pc'[u] = "idle" => busy'[u] = 0
  BY <1>1, <1>2, Sizes
<1>4. /\ pc' \in [Tasks -> {"idle"} \union Working]
      /\ req' \in [Tasks -> Requests \union {NoRequest}]
      /\ busy' \in [Tasks -> 0..Slack]
  BY <1>1, <1>2
<1>5. stamp' \in [Tasks -> 0..MaxNow]
  BY <1>1, <1>2
<1> QED BY <1>1, <1>3, <1>4, <1>5

(* The recorded instants of the keys after a check.                        *)
LEMMA RecordedTypes ==
  ASSUME TypeOK, IInv, NEW t \in Tasks, RecordRequest(t)
  PROVE  /\ window' \in [Keys -> Seq(0..MaxNow)] /\ \A k \in Keys : Len(window'[k]) <= Limit
         /\ admitted' \in [Keys -> Seq(0..MaxNow)]
<1> DEFINE k == req[t].cred
           q == Pruned(window[k], stamp[t])
<1>1. /\ k \in Keys /\ now \in 0..MaxNow /\ stamp[t] \in 0..MaxNow
      /\ window \in [Keys -> Seq(0..MaxNow)] /\ admitted \in [Keys -> Seq(0..MaxNow)]
      /\ \A j \in Keys : Len(window[j]) <= Limit
  BY DEF RecordRequest, IInv, TasksOK, TaskOK, TypeOK
<1>2. q \in Seq(0..MaxNow) /\ Len(q) <= Len(window[k])
  <2>1. window[k] \in Seq(0..MaxNow) /\ (0..MaxNow) \in SUBSET Int /\ stamp[t] \in Int
    BY <1>1
  <2>2. Pruned(window[k], stamp[t]) \in Seq(0..MaxNow)
    BY <2>1, PrunedShortens
  <2>3. \E d \in 0..Len(window[k]) : Shortened(window[k], Pruned(window[k], stamp[t]), d, stamp[t])
    BY <2>1, PrunedShortens
  <2>4. Len(window[k]) \in Nat
    BY <2>1
  <2> QED BY <2>2, <2>3, <2>4 DEF Shortened
<1> HIDE DEF q
<1>3. CASE Full(q)
  <2>1. window' = [window EXCEPT ![k] = q] /\ admitted' = admitted
    BY <1>3 DEF RecordRequest, q
  <2>2. Len(q) <= Limit
    BY <1>1, <1>2, Sizes
  <2> QED BY <1>1, <1>2, <2>1, <2>2
<1>4. CASE ~Full(q)
  <2>1. /\ window' = [window EXCEPT ![k] = Append(q, stamp[t])]
        /\ admitted' = [admitted EXCEPT ![k] = Append(admitted[k], now)]
    BY <1>4 DEF RecordRequest, Recorded, q
  <2>2. Append(q, stamp[t]) \in Seq(0..MaxNow) /\ Append(admitted[k], now) \in Seq(0..MaxNow)
    BY <1>1, <1>2
  <2>3. Len(Append(q, stamp[t])) <= Limit
    BY <1>2, <1>4, Sizes DEF Full
  <2> QED BY <1>1, <2>1, <2>2, <2>3
<1> QED BY <1>3, <1>4

LEMMA TypeInit == Init => TypeOK /\ CachedFinite
<1> SUFFICES ASSUME Init PROVE TypeOK /\ CachedFinite
  OBVIOUS
<1>1. 0 \in 0..MaxNow /\ 0 \in 0..Slack /\ 0 \in 0..MaxEdits
  BY Sizes, Constants
<1>2. password \in BOOLEAN /\ keys \in [Keys -> {"new", "active", "disabled", "deleted"}]
  <2>1. PICK d \in Deployments : password = d.password /\ keys = [k \in Keys |-> d.keys]
    BY DEF Init
  <2>2. d.password \in BOOLEAN /\ d.keys \in {"new", "active"}
    BY ClientAuthAssumption
  <2> QED BY <2>1, <2>2
<1>3. Cached = {}
  BY DEF Init, Cached
<1>4. CachedFinite /\ Cardinality(Cached) <= MaxEntries
  BY <1>3, FS_EmptySet, Sizes DEF CachedFinite
<1>5. last \in [Facts -> {Never} \union 0..MaxNow]
  BY <1>1 DEF Init
<1>6. /\ cache \in [Keys -> [is : Verdicts, at : 0..MaxNow]]
      /\ enabled \in [is : Verdicts, at : 0..MaxNow]
  BY <1>1 DEF Init, Verdicts
<1>7. /\ window \in [Keys -> Seq(0..MaxNow)] /\ admitted \in [Keys -> Seq(0..MaxNow)]
      /\ \A k \in Keys : Len(window[k]) <= Limit
  BY Sizes DEF Init
<1> QED BY <1>1, <1>2, <1>4, <1>5, <1>6, <1>7 DEF Init, TypeOK, Cached

LEMMA TypeNext ==
  TypeOK /\ CachedFinite /\ IInv /\ IInv' /\ [Next]_vars => TypeOK' /\ CachedFinite'
<1> SUFFICES ASSUME TypeOK, CachedFinite, IInv, IInv', [Next]_vars
             PROVE  TypeOK' /\ CachedFinite'
  OBVIOUS
<1>0. found' \in [Tasks -> {"none", "yes", "no", "error"}]
  BY DEF IInv, TasksOK
\* A step that leaves the cache of keys alone.
<1>c. ASSUME cache' = cache
      PROVE  /\ cache' \in [Keys -> [is : Verdicts, at : 0..MaxNow]]
             /\ CachedFinite' /\ Cardinality(Cached') <= MaxEntries
  <2>1. Cached' = Cached
    BY <1>c DEF Cached
  <2> QED BY <1>c, <2>1 DEF TypeOK, Cached, CachedFinite
<1>1. ASSUME NEW t \in Tasks, TaskStep(t) PROVE TypeOK' /\ CachedFinite'
  <2>1. /\ Advances(t) /\ UNCHANGED <<now, password, keys, edits>>
        /\ last' = last \/ last' = NotedFailure
        /\ enabled' = enabled \/ \E is \in {"yes", "no"} : enabled' = [is |-> is, at |-> now]
        /\ cache' = cache \/ \E k \in Keys, is \in {"yes", "no"} : cache' = Inserted(k, is)
        /\ UNCHANGED <<window, admitted>> \/ RecordRequest(t)
    BY <1>1, StepWrites
  <2>2. /\ cache' \in [Keys -> [is : Verdicts, at : 0..MaxNow]]
        /\ CachedFinite' /\ Cardinality(Cached') <= MaxEntries
    BY <1>c, <2>1, InsertedType
  <2>3. /\ window' \in [Keys -> Seq(0..MaxNow)] /\ \A k \in Keys : Len(window'[k]) <= Limit
        /\ admitted' \in [Keys -> Seq(0..MaxNow)]
    <3>1. CASE UNCHANGED <<window, admitted>>
      BY <3>1 DEF TypeOK
    <3> QED BY <2>1, <3>1, RecordedTypes
  <2>4. last' \in [Facts -> {Never} \union 0..MaxNow]
    BY <2>1 DEF NotedFailure, TypeOK
  <2>5. enabled' \in [is : Verdicts, at : 0..MaxNow]
    BY <2>1 DEF TypeOK, Verdicts
  <2>6. /\ now' \in 0..MaxNow /\ password' \in BOOLEAN /\ edits' \in 0..MaxEdits
        /\ keys' \in [Keys -> {"new", "active", "disabled", "deleted"}]
    BY <2>1 DEF TypeOK
  <2> HIDE DEF TypeOK
  <2> QED BY <1>0, <2>1, <2>2, <2>3, <2>4, <2>5, <2>6, AdvancedTypes DEF TypeOK, Cached
<1>2. ASSUME NEW k \in Keys, EditKey(k) PROVE TypeOK' /\ CachedFinite'
  <2>1. keys' \in [Keys -> {"new", "active", "disabled", "deleted"}] /\ edits' \in 0..MaxEdits
    <3>1. keys[k] \in {"new", "active", "disabled", "deleted"}
      BY DEF TypeOK
    <3>2. PICK s \in Edited(keys[k]) : keys' = [keys EXCEPT ![k] = s]
      BY <1>2 DEF EditKey
    <3>3. s \in {"active", "disabled", "deleted"}
      BY <3>1, <3>2 DEF Edited
    <3> QED BY <1>2, <3>2, <3>3, Sizes DEF EditKey, TypeOK
  <2>2. last' \in [Facts -> {Never} \union 0..MaxNow]
    BY <1>2, NotedType DEF EditKey, TypeOK
  <2> QED BY <1>2, <1>c, <2>1, <2>2 DEF EditKey, task, TypeOK, Cached
<1>3. CASE Tick
  <2>1. now' \in 0..MaxNow
    BY <1>3, Sizes DEF Tick, TypeOK
  <2>2. last' \in [Facts -> {Never} \union 0..MaxNow]
    BY <1>3, <2>1, NotedType DEF Tick, TypeOK
  <2>3. busy' \in [Tasks -> 0..Slack] /\ \A t \in Tasks : pc'[t] = "idle" => busy'[t] = 0
    BY <1>3, Constants DEF Tick, TypeOK
  <2> QED BY <1>3, <1>c, <2>1, <2>2, <2>3 DEF Tick, TypeOK, Cached
<1>4. CASE UNCHANGED vars
  BY <1>4, <1>c DEF vars, task, TypeOK, Cached
<1> QED BY <1>1, <1>2, <1>3, <1>4 DEF Next, TaskStep

(* Both caches and the instants of each key stay within their sizes,       *)
(* whatever the tasks do to them at the same time (auth.rs:                *)
(* API_KEY_CACHE_MAX_SIZE; rate_limit.rs: check_and_record).               *)
THEOREM TypeCorrect == Spec => []TypeOK
BY TypeInit, TypeNext, Always, PTL DEF Spec

-----------------------------------------------------------------------------
(* The limit *)

(* The instant of a granted request is at most as old as its task is busy. *)
StampOK == \A t \in Tasks : pc[t] = "granted" => stamp[t] <= now /\ now - stamp[t] <= busy[t]

(* What is recorded of a key are its last admissions, each at an instant   *)
(* no more than Slack before; the earlier ones are out of the window.      *)
RpmKept(k) ==
  \E d \in Nat :
    /\ Len(admitted[k]) = d + Len(window[k])
    /\ \A i \in 1..d : now - admitted[k][i] > Window - Slack
    /\ \A i \in 1..Len(window[k]) : admitted[k][d + i] - window[k][i] <= Slack

RpmInv == StampOK /\ (\A k \in Keys : RpmKept(k)) /\ RpmHolds

LEMMA StampNext == TypeOK /\ IInv /\ StampOK /\ [Next]_vars => StampOK'
<1> SUFFICES ASSUME TypeOK, IInv, StampOK, [Next]_vars, NEW u \in Tasks, pc'[u] = "granted"
             PROVE  stamp'[u] <= now' /\ now' - stamp'[u] <= busy'[u]
  BY DEF StampOK
<1>0. /\ now \in Int /\ stamp \in [Tasks -> 0..MaxNow] /\ busy \in [Tasks -> 0..Slack]
      /\ pc \in [Tasks -> {"idle"} \union Working]
  BY DEF TypeOK
<1>s. ASSUME pc[u] = "granted", now' = now, stamp'[u] = stamp[u], busy'[u] = busy[u]
      PROVE  stamp'[u] <= now' /\ now' - stamp'[u] <= busy'[u]
  BY <1>s DEF StampOK
<1>1. ASSUME NEW t \in Tasks, TaskStep(t)
      PROVE  stamp'[u] <= now' /\ now' - stamp'[u] <= busy'[u]
  <2>1. now' = now /\ Advances(t)
    BY <1>1, StepWrites
  <2>2. PICK r \in Requests, p \in {"idle"} \union Working :
          /\ pc' = [pc EXCEPT ![t] = p]
          /\ busy' = IF p = "idle" THEN [busy EXCEPT ![t] = 0] ELSE busy
          /\ \/ p # "granted" /\ stamp' = stamp
             \/ p = "granted" /\ stamp' = [stamp EXCEPT ![t] = now]
             \/ p = "idle" /\ stamp' = [stamp EXCEPT ![t] = 0]
    BY <2>1 DEF Advances
  <2>3. CASE u = t
    <3>1. p = "granted" /\ stamp'[u] = now /\ busy'[u] = busy[u]
      BY <1>0, <2>2, <2>3
    <3> QED BY <1>0, <2>1, <3>1
  <2>4. CASE u # t
    <3>1. pc[u] = "granted" /\ stamp'[u] = stamp[u] /\ busy'[u] = busy[u]
      BY <1>0, <2>2, <2>4
    <3> QED BY <1>s, <2>1, <3>1
  <2> QED BY <2>3, <2>4
<1>2. CASE \E k \in Keys : EditKey(k)
  BY <1>2, <1>s DEF EditKey, task
<1>3. CASE Tick
  <2>1. now' = now + 1 /\ stamp'[u] = stamp[u] /\ busy'[u] = busy[u] + 1 /\ pc[u] = "granted"
    BY <1>3 DEF Tick
  <2> QED BY <1>0, <2>1 DEF StampOK
<1>4. CASE UNCHANGED vars
  BY <1>4, <1>s DEF vars, task
<1> QED BY <1>1, <1>2, <1>3, <1>4 DEF Next, TaskStep

(* A check of a key, admitted or not.                                      *)
LEMMA CheckKeepsRpm ==
  ASSUME TypeOK, IInv, RpmInv, NEW t \in Tasks, RecordRequest(t), NEW k \in Keys
  PROVE  /\ RpmKept(k)'
         /\ \A i \in 1..(Len(admitted'[k]) - Limit) :
               admitted'[k][i + Limit] - admitted'[k][i] > Window - Slack
<1>0. /\ req[t].cred \in Keys /\ now \in 0..MaxNow /\ now' = now /\ stamp[t] \in 0..MaxNow
      /\ window \in [Keys -> Seq(0..MaxNow)] /\ admitted \in [Keys -> Seq(0..MaxNow)]
      /\ stamp[t] <= now /\ now - stamp[t] <= Slack /\ Slack \in Nat
      /\ Window \in Nat /\ Limit \in Nat /\ Limit >= 1
  <2>1. pc[t] = "granted" /\ busy[t] \in 0..Slack
    BY DEF RecordRequest, TypeOK
  <2>2. stamp[t] <= now /\ now - stamp[t] <= busy[t]
    BY <2>1 DEF RpmInv, StampOK
  <2>3. now \in 0..MaxNow /\ stamp[t] \in 0..MaxNow
    BY DEF TypeOK
  <2>4. now - stamp[t] <= Slack
    BY <2>1, <2>2, <2>3, Constants
  <2> QED BY <2>2, <2>3, <2>4, Sizes, Constants DEF RecordRequest, IInv, TasksOK, TaskOK, TypeOK
<1> DEFINE w == window[k]
           a == admitted[k]
           q == Pruned(w, stamp[t])
<1>1. PICK d \in Nat :
        /\ Len(a) = d + Len(w)
        /\ \A i \in 1..d : now - a[i] > Window - Slack
        /\ \A i \in 1..Len(w) : a[d + i] - w[i] <= Slack
  BY DEF RpmInv, RpmKept
<1>2. /\ Len(w) \in Nat /\ Len(a) \in Nat
      /\ \A i \in 1..Len(w) : w[i] \in Nat
      /\ \A i \in 1..Len(a) : a[i] \in Nat
  <2>1. w \in Seq(0..MaxNow) /\ a \in Seq(0..MaxNow)
    BY <1>0
  <2> HIDE DEF w, a
  <2>2. /\ Len(w) \in Nat /\ Len(a) \in Nat
        /\ \A i \in 1..Len(w) : w[i] \in 0..MaxNow
        /\ \A i \in 1..Len(a) : a[i] \in 0..MaxNow
    BY <2>1, Elements
  <2> QED BY <2>2
<1>3. \A i \in 1..(Len(a) - Limit) : a[i + Limit] - a[i] > Window - Slack
  BY DEF RpmInv, RpmHolds
<1>4. CASE k # req[t].cred
  <2>1. window'[k] = w /\ admitted'[k] = a
    BY <1>0, <1>4 DEF RecordRequest
  <2> QED BY <1>0, <1>1, <1>3, <2>1 DEF RpmKept
<1>5. CASE k = req[t].cred
  <2>1. q \in Seq(0..MaxNow) /\ \E e \in 0..Len(w) : Shortened(w, q, e, stamp[t])
    <3>1. w \in Seq(0..MaxNow) /\ (0..MaxNow) \in SUBSET Int /\ stamp[t] \in Int
      BY <1>0
    <3> QED BY <3>1, PrunedShortens
  <2>2. PICK e \in 0..Len(w) : Shortened(w, q, e, stamp[t])
    BY <2>1
  <2>3. /\ Len(q) = Len(w) - e /\ \A i \in 1..Len(q) : q[i] = w[i + e]
        /\ \A i \in 1..e : stamp[t] - w[i] > Window
    BY <2>2 DEF Shortened
  <2>4. /\ Full(q) => window'[k] = q /\ admitted'[k] = a
        /\ ~Full(q) => window'[k] = Append(q, stamp[t]) /\ admitted'[k] = Append(a, now)
    BY <1>0, <1>5 DEF RecordRequest, Recorded
  <2> HIDE DEF w, a, q
  \* What has left the window is out of it, counted from now.
  <2>5. ASSUME NEW i \in 1..(d + e) PROVE now - a[i] > Window - Slack
    <3>1. CASE i <= d
      BY <1>1, <3>1
    <3>2. CASE i > d
      <4>1. i - d \in 1..e /\ i - d \in 1..Len(w) /\ i \in 1..Len(a)
        BY <1>1, <1>2, <3>2
      <4>2. d + (i - d) = i /\ w[i - d] \in Nat /\ a[i] \in Nat
        BY <1>2, <4>1
      <4>3. stamp[t] - w[i - d] > Window /\ a[i] - w[i - d] <= Slack
        BY <1>1, <2>3, <4>1, <4>2
      <4>4. stamp[t] \in Nat /\ now \in Nat /\ stamp[t] <= now
        BY <1>0
      <4> QED BY <4>2, <4>3, <4>4, Sizes, Constants
    <3> QED BY <3>1, <3>2
  <2>6. ASSUME NEW i \in 1..Len(q) PROVE a[(d + e) + i] - q[i] <= Slack
    <3>1. i + e \in 1..Len(w) /\ d + (i + e) = (d + e) + i /\ q[i] = w[i + e]
      BY <1>2, <2>3
    <3> QED BY <1>1, <3>1
  <2>7. Len(a) = (d + e) + Len(q) /\ d + e \in Nat /\ Len(q) \in Nat
    BY <1>1, <1>2, <2>3
  <2>8. CASE Full(q)
    BY <1>0, <1>3, <2>4, <2>5, <2>6, <2>7, <2>8 DEF RpmKept
  <2>9. CASE ~Full(q)
    <3> DEFINE v == Append(q, stamp[t])
               b == Append(a, now)
    <3>1. window'[k] = v /\ admitted'[k] = b
      BY <2>4, <2>9
    <3>2. Len(q) < Limit
      BY <2>7, <2>9, Sizes DEF Full
    <3>3. /\ Len(v) = Len(q) + 1 /\ Len(b) = Len(a) + 1
          /\ \A i \in 1..Len(q) : v[i] = q[i]
          /\ v[Len(q) + 1] = stamp[t]
          /\ \A i \in 1..Len(a) : b[i] = a[i]
          /\ b[Len(a) + 1] = now
      <4>1. q \in Seq(0..MaxNow) /\ a \in Seq(0..MaxNow)
        BY <1>0, <2>1 DEF a
      <4> QED BY <4>1
    <3> HIDE DEF v, b
    <3>4. ASSUME NEW i \in 1..(Len(b) - Limit) PROVE b[i + Limit] - b[i] > Window - Slack
      <4>0. i \in Nat /\ Limit \in Nat /\ Limit >= 1 /\ Len(a) \in Nat /\ i >= 1 /\ i <= Len(a) + 1 - Limit
        BY <1>2, <3>3, Sizes
      <4>1. i \in 1..Len(a) /\ b[i] = a[i]
        BY <3>3, <4>0
      <4>2. CASE i + Limit <= Len(a)
        <5>1. i + Limit \in 1..Len(a) /\ i \in 1..(Len(a) - Limit)
          BY <4>0, <4>2
        <5> QED BY <1>3, <3>3, <4>1, <5>1
      <4>3. CASE i + Limit > Len(a)
        <5>1. i + Limit = Len(a) + 1
          BY <4>0, <4>3
        <5>2. i \in 1..(d + e)
          BY <2>7, <3>2, <4>0, <5>1
        <5> QED BY <2>5, <3>3, <4>1, <5>1, <5>2
      <4> QED BY <4>0, <4>2, <4>3
    <3>5. /\ Len(b) = (d + e) + Len(v)
          /\ \A i \in 1..(d + e) : now - b[i] > Window - Slack
          /\ \A i \in 1..Len(v) : b[(d + e) + i] - v[i] <= Slack
      <4>1. Len(b) = (d + e) + Len(v)
        BY <2>7, <3>3
      <4>2. ASSUME NEW i \in 1..(d + e) PROVE now - b[i] > Window - Slack
        BY <2>5, <2>7, <3>3
      <4>3. ASSUME NEW i \in 1..Len(v) PROVE b[(d + e) + i] - v[i] <= Slack
        <5>0. Len(q) \in Nat /\ Len(v) = Len(q) + 1 /\ Len(a) = (d + e) + Len(q)
          BY <2>7, <3>3
        <5>1. CASE i <= Len(q)
          <6>1. i \in 1..Len(q) /\ (d + e) + i \in 1..Len(a)
            BY <2>7, <5>1
          <6> QED BY <2>6, <3>3, <6>1
        <5>2. CASE i > Len(q)
          <6>1. i = Len(q) + 1 /\ (d + e) + i = Len(a) + 1
            BY <5>0, <5>2
          <6>2. b[Len(a) + 1] = now /\ v[Len(q) + 1] = stamp[t]
            BY <3>3
          <6> QED BY <1>0, <6>1, <6>2
        <5> QED BY <2>7, <5>1, <5>2
      <4> QED BY <4>1, <4>2, <4>3
    <3> QED BY <1>0, <2>7, <3>1, <3>4, <3>5 DEF RpmKept
  <2> QED BY <2>8, <2>9
<1> QED BY <1>4, <1>5

LEMMA RpmNext == TypeOK /\ IInv /\ RpmInv /\ [Next]_vars => RpmInv'
<1> SUFFICES ASSUME TypeOK, IInv, RpmInv, [Next]_vars PROVE RpmInv'
  OBVIOUS
<1>1. StampOK'
  BY StampNext DEF RpmInv
<1>s. ASSUME UNCHANGED <<window, admitted>>, now' >= now, now' \in Nat PROVE RpmInv'
  <2>1. ASSUME NEW k \in Keys PROVE RpmKept(k)'
    <3>1. PICK d \in Nat :
            /\ Len(admitted[k]) = d + Len(window[k])
            /\ \A i \in 1..d : now - admitted[k][i] > Window - Slack
            /\ \A i \in 1..Len(window[k]) : admitted[k][d + i] - window[k][i] <= Slack
      BY DEF RpmInv, RpmKept
    <3>2. now \in Nat /\ Len(window[k]) \in Nat /\ \A i \in 1..Len(admitted[k]) : admitted[k][i] \in Nat
      <4>1. now \in Nat /\ window[k] \in Seq(0..MaxNow) /\ admitted[k] \in Seq(0..MaxNow)
        BY DEF TypeOK
      <4> DEFINE a == admitted[k]
      <4> HIDE DEF a
      <4>2. \A i \in 1..Len(a) : a[i] \in 0..MaxNow
        BY <4>1, Elements DEF a
      <4> QED BY <4>1, <4>2 DEF a
    <3>3. ASSUME NEW i \in 1..d PROVE now' - admitted[k][i] > Window - Slack
      <4>1. i \in 1..Len(admitted[k]) /\ now - admitted[k][i] > Window - Slack
        BY <3>1, <3>2
      <4> QED BY <1>s, <3>2, <4>1, Sizes, Constants
    <3> QED BY <1>s, <3>1, <3>3 DEF RpmKept
  <2> QED BY <1>1, <1>s, <2>1 DEF RpmInv, RpmHolds
<1>0. now \in Nat
  BY DEF TypeOK
<1>2. ASSUME NEW t \in Tasks, TaskStep(t) PROVE RpmInv'
  <2>1. now' = now /\ (UNCHANGED <<window, admitted>> \/ RecordRequest(t))
    BY <1>2, StepWrites
  <2>2. CASE UNCHANGED <<window, admitted>>
    BY <1>0, <1>s, <2>1, <2>2
  <2>3. CASE RecordRequest(t)
    BY <1>1, <2>3, CheckKeepsRpm DEF RpmInv, RpmHolds
  <2> QED BY <2>1, <2>2, <2>3
<1>3. CASE \E k \in Keys : EditKey(k)
  BY <1>0, <1>3, <1>s DEF EditKey
<1>4. CASE Tick
  BY <1>0, <1>4, <1>s DEF Tick
<1>5. CASE UNCHANGED vars
  BY <1>0, <1>5, <1>s DEF vars
<1> QED BY <1>2, <1>3, <1>4, <1>5 DEF Next, TaskStep

LEMMA RpmInit == Init => RpmInv
<1> SUFFICES ASSUME Init PROVE RpmInv
  OBVIOUS
<1>1. StampOK
  BY DEF Init, StampOK
<1>2. ASSUME NEW k \in Keys PROVE RpmKept(k)
  <2>1. Len(admitted[k]) = 0 + Len(window[k]) /\ Len(window[k]) = 0 /\ 0 \in Nat
    BY DEF Init
  <2> QED BY <2>1 DEF RpmKept
<1>3. RpmHolds
  BY Sizes DEF Init, RpmHolds
<1> QED BY <1>1, <1>2, <1>3 DEF RpmInv

(* Of Limit + 1 requests of a key that are admitted the last comes more    *)
(* than the window, less the time a check takes, after the first, though   *)
(* checks are recorded in another order than their instants were taken     *)
(* (rate_limit.rs: RpmTracker::check_and_record).                          *)
THEOREM LimitHolds == Spec => []RpmHolds
<1>1. RpmInv => RpmHolds
  BY DEF RpmInv
<1> QED BY <1>1, RpmInit, RpmNext, TypeCorrect, Always, PTL DEF Spec
=============================================================================
