----------------------------- MODULE ClientAuth -----------------------------
(***************************************************************************)
(* Who may use the proxy: auth_middleware of crates/proxy/src/auth.rs with *)
(* its two caches, the per-key limit of core/rate_limit.rs, and the        *)
(* management of keys (handlers/api_keys.rs, repositories/api_key.rs)      *)
(* beside it.                                                              *)
(*                                                                         *)
(* One unit of time is what the code's periods are counted in.  A check of *)
(* a request takes at most Slack units from its first step to its last.    *)
(***************************************************************************)
EXTENDS Integers, Sequences, FiniteSets

CONSTANTS
  Tasks,          \* requests in the middleware at the same time
  Keys,           \* the API keys there may be
  Scope,          \* Scope[k]: "admin" or "proxy"
  NoCredential, DashboardPassword,
  Requests,       \* [path, cred, plain]: what clients ask
  Deployments,    \* [password, keys]: what a process may start with
  KeyTTL,         \* API_KEY_CACHE_TTL_SECS
  NegativeTTL,    \* API_KEY_NEGATIVE_CACHE_TTL_SECS
  EnabledTTL,     \* AUTH_ENABLED_CACHE_TTL_SECS
  MaxEntries,     \* API_KEY_CACHE_MAX_SIZE
  Window, Limit,  \* the per-key limit: Limit requests in Window
  Slack, MaxNow,  \* bounds: time a check takes, the clock
  MaxEdits        \* bound: changes of keys by the user

ASSUME ClientAuthAssumption ==
  /\ Requests \subseteq [path : {"v1", "api", "dashboard"},
                         cred : Keys \union {NoCredential, DashboardPassword},
                         plain : BOOLEAN]
  /\ Deployments \subseteq [password : BOOLEAN, keys : {"new", "active"}]
  /\ {KeyTTL, NegativeTTL, EnabledTTL} \subseteq Nat \ {0}
  /\ {Slack, MaxNow, MaxEdits} \subseteq Nat
  /\ MaxEntries \in Nat \ {0} /\ Limit \in Nat \ {0} /\ Window \in Nat
  /\ \A k \in Keys : Scope[k] \in {"admin", "proxy"}
  /\ {NoCredential, DashboardPassword} \cap Keys = {} /\ NoCredential # DashboardPassword

VARIABLES
  now,          \* the clock
  password,     \* DASHBOARD_PASSWORD is set; it does not change
  keys,         \* the table api_keys
  enabled,      \* the cache of whether there are active keys
  cache,        \* the cache of verified keys
  window,       \* RpmTracker: the recorded instants of each key
  pc, req, found, stamp, busy,   \* each task: its place, its request, what it
                                 \* read, its Instant, the time it has taken
  edits,        \* changes of keys so far
  answer,       \* history: the verdict this step reached, and on what request
  last,         \* history: when each fact about the table was last true
  admitted      \* history: when requests of each key were admitted, in order

vars == <<now, password, keys, enabled, cache, window, pc, req, found, stamp, busy,
          edits, answer, last, admitted>>
task == <<pc, req, found, stamp, busy>>

Never == -100
NoRequest == [path |-> "none", cred |-> NoCredential, plain |-> FALSE]
NoAnswer == [is |-> "none", to |-> NoRequest]
Working == {"counting", "counted", "verifying", "verified", "granted"}
Answers == {"admitted", "granted", "denied"}
Verdicts == {"none", "yes", "no"}

Keyless == <<"keyless">>
DbFailed == <<"failed">>
Facts == ({"active", "inactive"} \X Keys) \union {Keyless, DbFailed}

TypeOK ==
  /\ now \in 0..MaxNow
  /\ password \in BOOLEAN
  /\ keys \in [Keys -> {"new", "active", "disabled", "deleted"}]
  /\ enabled \in [is : Verdicts, at : 0..MaxNow]
  /\ cache \in [Keys -> [is : Verdicts, at : 0..MaxNow]]
  /\ Cardinality({k \in Keys : cache[k].is # "none"}) <= MaxEntries
  /\ window \in [Keys -> Seq(0..MaxNow)]
  /\ \A k \in Keys : Len(window[k]) <= Limit
  /\ pc \in [Tasks -> {"idle"} \union Working]
  /\ req \in [Tasks -> Requests \union {NoRequest}]
  /\ \A t \in Tasks : (req[t] = NoRequest) <=> (pc[t] = "idle")
  /\ found \in [Tasks -> {"none", "yes", "no", "error"}]
  /\ stamp \in [Tasks -> 0..MaxNow]
  /\ busy \in [Tasks -> 0..Slack]
  /\ \A t \in Tasks : pc[t] = "idle" => busy[t] = 0
  /\ edits \in 0..MaxEdits
  /\ answer \in [is : Answers, to : Requests] \union {NoAnswer}
  /\ last \in [Facts -> {Never} \union 0..MaxNow]
  /\ admitted \in [Keys -> Seq(0..MaxNow)]

-----------------------------------------------------------------------------
(* The table of keys *)

Active(ks) == {k \in Keys : ks[k] = "active"}

TrueOf(ks) ==
  ({"active"} \X Active(ks)) \union ({"inactive"} \X (Keys \ Active(ks)))
    \union (IF Active(ks) = {} THEN {Keyless} ELSE {})

Noted(ks, t) == [f \in Facts |-> IF f \in TrueOf(ks) THEN t ELSE last[f]]
NotedFailure == [last EXCEPT ![DbFailed] = now]

(* Bound: one outage of the database, no longer than a unit.               *)
MayFail == last[DbFailed] \in {Never, now}

(* generate_key, enable_key, disable_key, delete_key: one statement each;  *)
(* the plaintext of a key is new, so a deleted one does not come back.     *)
Edited(status) ==
  CASE status = "new" -> {"active"}
    [] status = "active" -> {"disabled", "deleted"}
    [] status = "disabled" -> {"active", "deleted"}
    [] status = "deleted" -> {}

EditKey(k) ==
  /\ edits < MaxEdits
  /\ edits' = edits + 1
  /\ \E s \in Edited(keys[k]) : keys' = [keys EXCEPT ![k] = s]
  /\ last' = Noted(keys', now)
  /\ answer' = NoAnswer
  /\ UNCHANGED <<now, password, enabled, cache, window, task, admitted>>

-----------------------------------------------------------------------------
(* The caches *)

(* Fault: a failed verification is kept as long as a good one.             *)
FreshAlike(e) == e.is # "none" /\ now - e.at < KeyTTL

FreshKey(e) ==
  \/ e.is = "yes" /\ now - e.at < KeyTTL
  \/ e.is = "no" /\ now - e.at < NegativeTTL

FreshEnabled == enabled.is # "none" /\ now - enabled.at < EnabledTTL

(* Fault: the lifetime of an entry starts anew with each use.              *)
Touched(k) == [cache EXCEPT ![k].at = now]

(* A hit only reads.                                                       *)
AfterHit(k) == cache

(* A full cache is cleared first, also when the key has an entry.          *)
Inserted(k, is) ==
  LET full == Cardinality({j \in Keys : cache[j].is # "none"}) >= MaxEntries IN
  [j \in Keys |-> IF j = k THEN [is |-> is, at |-> now]
                  ELSE IF full THEN [is |-> "none", at |-> 0] ELSE cache[j]]

-----------------------------------------------------------------------------
(* The middleware, up to its next await *)

(* The task goes on, or is done with an answer, to request r.              *)
Goes(t, r, p) ==
  /\ pc' = [pc EXCEPT ![t] = p] /\ req' = [req EXCEPT ![t] = r]
  /\ answer' = NoAnswer
  /\ UNCHANGED busy
Ends(t, r, is) ==
  /\ pc' = [pc EXCEPT ![t] = "idle"] /\ req' = [req EXCEPT ![t] = NoRequest]
  /\ busy' = [busy EXCEPT ![t] = 0]
  /\ answer' = [is |-> is, to |-> r]

(* 403, 429 or 500, which the properties do not ask about.                 *)
Closes(t) ==
  /\ pc' = [pc EXCEPT ![t] = "idle"] /\ req' = [req EXCEPT ![t] = NoRequest]
  /\ busy' = [busy EXCEPT ![t] = 0]
  /\ answer' = NoAnswer

ScopeFits(r) == ~(Scope[r.cred] = "proxy" /\ r.path = "api")

(* A key that was verified: its scope, then the instant for the limit.     *)
Grant(t, r) ==
  /\ pc' = [pc EXCEPT ![t] = "granted"] /\ req' = [req EXCEPT ![t] = r]
  /\ answer' = [is |-> "granted", to |-> r]
  /\ UNCHANGED busy
  /\ stamp' = [stamp EXCEPT ![t] = now]

Verified(t, r, is) ==
  CASE is = "yes" /\ ScopeFits(r) -> Grant(t, r)
    [] is = "yes" /\ ~ScopeFits(r) -> Closes(t) /\ UNCHANGED stamp
    [] is = "no" -> Ends(t, r, "denied") /\ UNCHANGED stamp

(* With keys or a password to check against: a mutating request without a  *)
(* key needs one of two headers; the password is tried before the key.     *)
Credentials(t, r, hasKeys) ==
  IF r.plain /\ r.path = "api" /\ r.cred \notin Keys
  THEN Closes(t) /\ UNCHANGED <<stamp, cache>>
  ELSE IF password /\ r.cred = DashboardPassword
  THEN Ends(t, r, "admitted") /\ UNCHANGED <<stamp, cache>>
  ELSE IF hasKeys /\ r.cred \in Keys
  THEN IF FreshKey(cache[r.cred])
       THEN Verified(t, r, cache[r.cred].is) /\ cache' = AfterHit(r.cred)
       ELSE Goes(t, r, "verifying") /\ UNCHANGED <<stamp, cache>>
  ELSE Ends(t, r, "denied") /\ UNCHANGED <<stamp, cache>>

(* First run: without keys and password only the dashboard's pages are     *)
(* open.                                                                   *)
Decide(t, r, hasKeys) ==
  IF hasKeys \/ password THEN Credentials(t, r, hasKeys)
  ELSE /\ Ends(t, r, IF r.path = "dashboard" /\ ~r.plain THEN "admitted" ELSE "denied")
       /\ UNCHANGED <<stamp, cache>>

(* The first step: is_auth_enabled from its cache, or a query.             *)
Start(t) ==
  /\ pc[t] = "idle"
  /\ \E r \in Requests :
       IF FreshEnabled
       THEN Decide(t, r, enabled.is = "yes")
       ELSE Goes(t, r, "counting") /\ UNCHANGED <<stamp, cache>>
  /\ UNCHANGED <<now, password, keys, enabled, window, found, edits, last, admitted>>

Found(t, is) == found' = [found EXCEPT ![t] = is]

CountKeys(t) ==
  /\ pc[t] = "counting"
  /\ Goes(t, req[t], "counted")
  /\ \/ Found(t, IF Active(keys) = {} THEN "no" ELSE "yes") /\ UNCHANGED last
     \/ MayFail /\ Found(t, "error") /\ last' = NotedFailure
  /\ UNCHANGED <<now, password, keys, enabled, cache, window, stamp, edits, admitted>>

(* Fault: a failed query counts no keys.                                   *)
FailedOpen(t) == FALSE

Failed(t) == found[t] = "error"

StoreEnabled(t) ==
  /\ pc[t] = "counted"
  /\ IF Failed(t)
     THEN /\ UNCHANGED enabled
          /\ IF password THEN Decide(t, req[t], FALSE)
             ELSE Closes(t) /\ UNCHANGED <<stamp, cache>>
     ELSE /\ enabled' = [is |-> IF found[t] = "yes" THEN "yes" ELSE "no", at |-> now]
          /\ Decide(t, req[t], found[t] = "yes")
  /\ Found(t, "none")
  /\ UNCHANGED <<now, password, keys, window, edits, last, admitted>>

(* verify_api_key_sync on a blocking thread: without a connection no key   *)
(* matches.                                                                *)
VerifyKey(t) ==
  /\ pc[t] = "verifying"
  /\ Goes(t, req[t], "verified")
  /\ \/ Found(t, IF keys[req[t].cred] = "active" THEN "yes" ELSE "no") /\ UNCHANGED last
     \/ MayFail /\ Found(t, "no") /\ last' = NotedFailure
  /\ UNCHANGED <<now, password, keys, enabled, cache, window, stamp, edits, admitted>>

StoreKey(t) ==
  /\ pc[t] = "verified"
  /\ cache' = Inserted(req[t].cred, found[t])
  /\ Verified(t, req[t], found[t])
  /\ Found(t, "none")
  /\ UNCHANGED <<now, password, keys, enabled, window, edits, last, admitted>>

-----------------------------------------------------------------------------
(* RpmTracker::check_and_record: the instant is taken before the lock *)

Pruned(q, t) ==
  IF \E i \in 1..Len(q) : t - q[i] <= Window
  THEN LET first == CHOOSE i \in 1..Len(q) :
                      t - q[i] <= Window /\ \A j \in 1..(i - 1) : t - q[j] > Window IN
       SubSeq(q, first, Len(q))
  ELSE <<>>

(* Fault: one request more than the limit.                                 *)
FullPast(q) == Len(q) > Limit

Full(q) == Len(q) >= Limit

(* Fault: an admitted request is not recorded.                             *)
Unrecorded(q, t) == q

Recorded(q, t) == Append(q, t)

RecordRequest(t) ==
  /\ pc[t] = "granted"
  /\ LET k == req[t].cred
         q == Pruned(window[k], stamp[t]) IN
     IF Full(q)
     THEN /\ window' = [window EXCEPT ![k] = q]
          /\ Closes(t)
          /\ UNCHANGED admitted
     ELSE /\ window' = [window EXCEPT ![k] = Recorded(q, stamp[t])]
          /\ Ends(t, req[t], "admitted")
          /\ admitted' = [admitted EXCEPT ![k] = Append(@, now)]
  /\ stamp' = [stamp EXCEPT ![t] = 0]
  /\ UNCHANGED <<now, password, keys, enabled, cache, found, edits, last>>

-----------------------------------------------------------------------------
Tick ==
  /\ now < MaxNow
  /\ \A t \in Tasks : pc[t] # "idle" => busy[t] < Slack
  /\ now' = now + 1
  /\ busy' = [t \in Tasks |-> IF pc[t] = "idle" THEN 0 ELSE busy[t] + 1]
  /\ last' = Noted(keys, now + 1)
  /\ answer' = NoAnswer
  /\ UNCHANGED <<password, keys, enabled, cache, window, pc, req, found, stamp,
                 edits, admitted>>

Init ==
  /\ now = 0
  /\ \E d \in Deployments : password = d.password /\ keys = [k \in Keys |-> d.keys]
  /\ enabled = [is |-> "none", at |-> 0]
  /\ cache = [k \in Keys |-> [is |-> "none", at |-> 0]]
  /\ window = [k \in Keys |-> <<>>]
  /\ pc = [t \in Tasks |-> "idle"]
  /\ req = [t \in Tasks |-> NoRequest]
  /\ found = [t \in Tasks |-> "none"]
  /\ stamp = [t \in Tasks |-> 0]
  /\ busy = [t \in Tasks |-> 0]
  /\ edits = 0
  /\ answer = NoAnswer
  /\ last = [f \in Facts |-> IF f \in TrueOf(keys) THEN 0 ELSE Never]
  /\ admitted = [k \in Keys |-> <<>>]

Next ==
  \/ \E t \in Tasks :
       Start(t) \/ CountKeys(t) \/ StoreEnabled(t) \/ VerifyKey(t) \/ StoreKey(t)
         \/ RecordRequest(t)
  \/ \E k \in Keys : EditKey(k)
  \/ Tick

Spec == Init /\ [][Next]_vars
-----------------------------------------------------------------------------
(* Properties *)

Recently(fact, period) == now - last[fact] <= period

Answered(is) == answer.is = is

(* A key that was disabled or deleted is refused when the lifetime of a    *)
(* cached verification, and the time one takes, have passed: whatever      *)
(* tasks verified it meanwhile (auth.rs: verify_api_key_cached).           *)
RevocationTakesEffect ==
  Answered("granted") => Recently(<<"active", answer.to.cred>>, KeyTTL - 1 + Slack)

(* A request with a key is refused only if the key was not active, or the  *)
(* database failed, within the lifetime of what is cached of that          *)
(* (auth.rs: the negative entries, and is_auth_enabled).                   *)
RefusalsHaveACause ==
  Answered("denied") /\ answer.to.cred \in Keys =>
    \/ Recently(<<"inactive", answer.to.cred>>, NegativeTTL - 1 + Slack)
    \/ Recently(DbFailed, NegativeTTL - 1 + Slack)
    \/ Recently(Keyless, EnabledTTL - 1 + Slack)

(* Once there is a password, or have been keys for longer than the cached  *)
(* count of them lives, nobody gets in without a credential, and a failing *)
(* database opens nothing (auth.rs: is_auth_enabled, fail closed).  It     *)
(* says nothing of a first run, with neither keys nor a password.          *)
OpenOnlyWhenKeyless ==
  password \/ ~Recently(Keyless, EnabledTTL - 1 + Slack) =>
    ~(Answered("admitted") /\ answer.to.cred = NoCredential)

(* No more than Limit requests of a key in any Window, less the time       *)
(* between taking the instant and recording it: of Limit + 1 in a row the  *)
(* last comes that much later than the first (rate_limit.rs).              *)
RpmHolds ==
  \A k \in Keys : \A i \in 1..(Len(admitted[k]) - Limit) :
    admitted[k][i + Limit] - admitted[k][i] > Window - Slack
=============================================================================
