------------------------------ MODULE Capacity ------------------------------
(***************************************************************************)
(* What is known of the capacity of one account: the usage the poller      *)
(* fetches (providers/usage_polling.rs), the cache that keeps it, and the  *)
(* X-factor service (proxy/xfactor) that sets it against the tokens this   *)
(* proxy has served, in memory, in the table of requests and over a        *)
(* restart of the process.                                                 *)
(*                                                                         *)
(* A request costs the provider Cost of its capacity, and this proxy takes *)
(* it for Weight (xfactor/state.rs: model_weight, an approximation); used  *)
(* and Total stand for a utilization of used/Total.  The estimate kept     *)
(* here is c_i_hard_lower: the mean, the variance and the Kalman filter    *)
(* are floating-point numbers no property is about.                        *)
(***************************************************************************)
EXTENDS Integers, FiniteSets

CONSTANTS
  Requests,       \* the requests the account serves
  Cost, Weight,   \* what each uses of it: in truth, and as it is estimated
  MaxTokens,      \* the largest of these
  Total,          \* the account's true capacity of a window
  MaxExternal,    \* bound: use of the account by others
  Window,         \* WINDOW_5H_MS
  MaxAge,         \* MAX_CACHE_AGE_MS
  Interval,       \* DEFAULT_POLL_INTERVAL
  MaxFactor,      \* the largest backoff_multiplier
  Readers, Updater,   \* who reads the usage; the X-factor service is one
  MaxNow, MaxRestarts   \* bounds

ASSUME CapacityAssumption ==
  /\ IsFiniteSet(Requests) /\ Updater \in Readers
  /\ MaxTokens \in Nat
  /\ {Cost, Weight} \subseteq [Requests -> 1..MaxTokens]
  /\ Total \in Nat \ {0} /\ Interval \in Nat \ {0} /\ MaxFactor \in Nat \ {0}
  /\ {MaxExternal, Window, MaxAge, MaxNow, MaxRestarts} \subseteq Nat

VARIABLES
  now,
  pc,           \* each request: where its recording is
  row,          \* the table requests: when each row was written
  counted,      \* the requests in the provider's window of now
  external,     \* what others used in it
  poller,       \* "asleep", or "asked" for an answer
  wake, factor, \* when the poller goes on, and its backoff_multiplier
  sample,       \* the usage the provider saw when it was asked
  cache,        \* the UsageCache
  reader,       \* each reader: "idle", or it found a stale entry
  boot,         \* the X-factor service: "starting", "building", "ready"
  found,        \* the rows initialize_cache has read
  state,        \* the AccountCapacityState
  stored,       \* account_xfactor_state: the persisted bound
  restarts,
  built,        \* history: how this process came to its state
  late,         \* history: the rows written since the rows were read
  told,         \* history: the requests counted when there was a state
  fetched,      \* history: when the poller last stored a usage
  raced         \* history: a reader removed a usage that was not stale

poll == <<poller, wake, factor, sample>>
xfactor == <<boot, found, state, stored>>
provider == <<counted, external>>
overlap == <<built, late, told>>
vars == <<now, pc, row, provider, poll, cache, reader, xfactor, restarts,
          overlap, fetched, raced>>

None == -1
NoSample == [used |-> None, seen |-> {}]
Blank == [used |-> None, seen |-> {}, at |-> None]
NoState == [known |-> FALSE, window |-> {}, lower |-> 0]

(* The tokens of some requests, and those of a window, one by one.         *)
Spent(rs) == Cardinality(UNION {{r} \X (1..Cost[r]) : r \in rs})
Tokens(w) == Cardinality(UNION {{e} \X (1..Weight[e.of]) : e \in w})

MaxUsed == Spent(Requests) + MaxExternal
Samples == [used : 0..MaxUsed, seen : SUBSET Requests]
Usages == [used : 0..MaxUsed, seen : SUBSET Requests, at : 0..MaxNow]
Entries == [ts : 0..MaxNow, of : Requests, from : {"row", "summary"}]

TypeOK ==
  /\ now \in 0..MaxNow
  /\ pc \in [Requests -> {"new", "served", "saved", "done"}]
  /\ row \in [Requests -> {None} \union 0..MaxNow]
  /\ counted \subseteq Requests /\ external \in 0..MaxExternal
  /\ poller \in {"asleep", "asked"}
  /\ wake \in 0..(MaxNow + Interval * MaxFactor) /\ factor \in 1..MaxFactor
  /\ sample \in Samples \union {NoSample}
  /\ cache \in Usages \union {Blank}
  /\ reader \in [Readers -> {"idle", "stale"}]
  /\ boot \in {"starting", "building", "ready"}
  /\ found \subseteq Entries
  /\ state \in [known : BOOLEAN, window : SUBSET Entries, lower : Nat]
  /\ stored \in Nat
  /\ restarts \in 0..MaxRestarts
  /\ built \in {"not", "whole", "bare", "failed"}
  /\ late \subseteq Requests /\ told \subseteq Requests
  /\ raced \in BOOLEAN /\ fetched \in {None} \union 0..MaxNow

-----------------------------------------------------------------------------
(* The provider: it counts a request when it serves it, up to its limit,   *)
(* and its window of five hours is a fixed one: all at once it is empty.   *)

Serve(r) ==
  /\ pc[r] = "new" /\ Spent(counted \union {r}) + external <= Total
  /\ pc' = [pc EXCEPT ![r] = "served"]
  /\ counted' = counted \union {r}
  /\ UNCHANGED <<now, row, external, poll, cache, reader, xfactor, restarts,
                 overlap, fetched, raced>>

UseElsewhere ==
  /\ external < MaxExternal /\ Spent(counted) + external < Total
  /\ external' = external + 1
  /\ UNCHANGED <<now, pc, row, counted, poll, cache, reader, xfactor, restarts,
                 overlap, fetched, raced>>

ResetWindow ==
  /\ counted # {}
  /\ counted' = {} /\ external' = 0
  /\ UNCHANGED <<now, pc, row, poll, cache, reader, xfactor, restarts,
                 overlap, fetched, raced>>

-----------------------------------------------------------------------------
(* The usage cache and the poller *)

(* Fault: an entry is stale one unit early.                                *)
StaleEarly(e) == e # Blank /\ now - e.at >= MaxAge

Stale(e) == e # Blank /\ now - e.at > MaxAge

(* get: the guard is dropped before a stale entry is removed.              *)
SeeStale(d) ==
  /\ reader[d] = "idle" /\ Stale(cache)
  /\ reader' = [reader EXCEPT ![d] = "stale"]
  /\ UNCHANGED <<now, pc, row, provider, poll, cache, xfactor, restarts,
                 overlap, fetched, raced>>

RemoveStale(d) ==
  /\ reader[d] = "stale"
  /\ reader' = [reader EXCEPT ![d] = "idle"]
  /\ cache' = Blank
  /\ raced' = (raced \/ (cache # Blank /\ ~Stale(cache)))
  /\ UNCHANGED <<now, pc, row, provider, poll, xfactor, restarts, overlap, fetched>>

Ask ==
  /\ poller = "asleep" /\ wake <= now
  /\ poller' = "asked"
  /\ sample' = [used |-> Spent(counted) + external, seen |-> counted]
  /\ UNCHANGED <<now, pc, row, provider, wake, factor, cache, reader, xfactor,
                 restarts, overlap, fetched, raced>>

Least(m, n) == IF m <= n THEN m ELSE n

Cleaned(e) == IF Stale(e) THEN Blank ELSE e

(* Fault: the multiplier is doubled once more where it is stored.          *)
SleepsTwice(n) ==
  /\ poller' = "asleep" /\ sample' = NoSample
  /\ factor' = 2 * n /\ wake' = now + 2 * Interval * n

Sleeps(n) ==
  /\ poller' = "asleep" /\ sample' = NoSample
  /\ factor' = n /\ wake' = now + Interval * n

(* Every poll ends with cleanup_stale; only a 429 slows the next one down. *)
Answered ==
  /\ poller = "asked"
  /\ \/ /\ cache' = [used |-> sample.used, seen |-> sample.seen, at |-> now]
        /\ fetched' = now /\ raced' = FALSE
        /\ Sleeps(1)
     \/ cache' = Cleaned(cache) /\ Sleeps(Least(factor * 2, MaxFactor))   \* 429
          /\ UNCHANGED <<fetched, raced>>
     \/ cache' = Cleaned(cache) /\ Sleeps(1) /\ UNCHANGED <<fetched, raced>>  \* an error
     \/ cache' = Blank /\ fetched' = None /\ Sleeps(1) /\ UNCHANGED raced    \* revoked
  /\ UNCHANGED <<now, pc, row, provider, reader, xfactor, restarts, overlap>>

-----------------------------------------------------------------------------
(* Recording a request: DbSummaryReceiver::on_summary, on a thread each *)

(* evict_old: the entries are in the order of their times.                 *)
Evicted(w) == {e \in w : e.ts >= now - Window}

(* The rows are inserted by the post-processor; a row that cannot be saved *)
(* is counted all the same, and without a connection nothing is.           *)
Save(r) ==
  /\ pc[r] = "served"
  /\ \/ /\ pc' = [pc EXCEPT ![r] = "saved"] /\ row' = [row EXCEPT ![r] = now]
        /\ late' = IF built = "whole" THEN late \union {r} ELSE late
     \/ pc' = [pc EXCEPT ![r] = "saved"] /\ UNCHANGED <<row, late>>
     \/ pc' = [pc EXCEPT ![r] = "done"] /\ UNCHANGED <<row, late>>
  /\ UNCHANGED <<now, provider, poll, cache, reader, xfactor, restarts, built, told,
                 fetched, raced>>

(* Fault: the tokens go in twice.                                          *)
RecordedTwice(w, r) == Evicted(w) \union [ts : {now}, of : {r}, from : {"row", "summary"}]

Recorded(w, r) == Evicted(w) \union {[ts |-> now, of |-> r, from |-> "summary"]}

(* XFactorCache::on_request: an account that has no state yet is left out. *)
Count(r) ==
  /\ pc[r] = "saved"
  /\ pc' = [pc EXCEPT ![r] = "done"]
  /\ state' = IF state.known THEN [state EXCEPT !.window = Recorded(@, r)] ELSE state
  /\ told' = IF state.known THEN told \union {r} ELSE told
  /\ UNCHANGED <<now, row, provider, poll, cache, reader, boot, found, stored, restarts,
                 built, late, fetched, raced>>

-----------------------------------------------------------------------------
(* The X-factor service *)

(* Fault: the rows of the last window are not read.                        *)
NoRows == {}

RecentRows ==
  {[ts |-> row[r], of |-> r, from |-> "row"] :
     r \in {q \in Requests : row[q] # None /\ row[q] >= now - Window}}

(* initialize_cache: the posteriors and the rows are read, then the state  *)
(* is put into the map; requests are served and recorded meanwhile.  When  *)
(* only the rows cannot be read, the state gets a window without them.     *)
StartBuilding ==
  /\ boot = "starting"
  /\ boot' = "building"
  /\ \/ found' = RecentRows /\ built' = "whole"
     \/ found' = {} /\ built' = "bare"
  /\ UNCHANGED <<now, pc, row, provider, poll, cache, reader, state, stored, restarts,
                 late, told, fetched, raced>>

(* Fault: what was persisted is not put into the state.                    *)
Unrestored(w) == [known |-> TRUE, window |-> w, lower |-> 0]

Restored(w) == [known |-> TRUE, window |-> w, lower |-> stored]

Build ==
  /\ boot = "building"
  /\ boot' = "ready"
  /\ state' = Restored(found)
  /\ found' = {}
  /\ UNCHANGED <<now, pc, row, provider, poll, cache, reader, stored, restarts,
                 overlap, fetched, raced>>

(* Without a connection, the accounts or the posteriors there is no state. *)
FailToBuild ==
  /\ boot = "starting"
  /\ boot' = "ready"
  /\ built' = "failed"
  /\ UNCHANGED <<now, pc, row, provider, poll, cache, reader, found, state, stored, restarts,
                 late, told, fetched, raced>>

Most(m, n) == IF m >= n THEN m ELSE n

(* on_usage_poll: the bound only rises.  Near the limit it is taken as it  *)
(* is, near zero not at all, and otherwise nine tenths of it.              *)
Bound(s, used) ==
  LET tokens == Tokens(s.window) IN
  IF 100 * used >= 95 * Total
  THEN IF tokens > 0 THEN Most(s.lower, (tokens * Total) \div used) ELSE s.lower
  ELSE IF 100 * used < 5 * Total \/ tokens = 0 THEN s.lower
  ELSE Most(s.lower, (9 * tokens * Total) \div (10 * used))

(* update_from_usage_cache: an account without a state gets a fresh one;   *)
(* whatever the cache has is taken for the usage of now.                   *)
Update ==
  /\ boot = "ready" /\ reader[Updater] = "idle"
  /\ LET s == [state EXCEPT !.known = TRUE]
         e == [s EXCEPT !.window = Evicted(@)] IN
     state' = IF cache # Blank /\ ~Stale(cache)
              THEN [e EXCEPT !.lower = Bound(e, cache.used)] ELSE s
  /\ UNCHANGED <<now, pc, row, provider, poll, cache, reader, boot, found, stored, restarts,
                 overlap, fetched, raced>>

Persist ==
  /\ boot = "ready" /\ state.known
  /\ stored' = state.lower
  /\ UNCHANGED <<now, pc, row, provider, poll, cache, reader, boot, found, state, restarts,
                 overlap, fetched, raced>>

-----------------------------------------------------------------------------
Tick ==
  /\ now < MaxNow /\ now' = now + 1
  /\ UNCHANGED <<pc, row, provider, poll, cache, reader, xfactor, restarts,
                 overlap, fetched, raced>>

(* The process ends at any point, and starts again.                        *)
Restart ==
  /\ restarts < MaxRestarts /\ restarts' = restarts + 1
  /\ pc' = [r \in Requests |-> IF pc[r] = "new" THEN "new" ELSE "done"]
  /\ poller' = "asleep" /\ wake' = now /\ factor' = 1 /\ sample' = NoSample
  /\ cache' = Blank /\ fetched' = None /\ raced' = FALSE
  /\ reader' = [d \in Readers |-> "idle"]
  /\ boot' = "starting" /\ found' = {} /\ state' = NoState
  /\ built' = "not" /\ late' = {} /\ told' = {}
  /\ UNCHANGED <<now, row, provider, stored>>

Init ==
  /\ now = 0 /\ restarts = 0
  /\ pc = [r \in Requests |-> "new"]
  /\ row = [r \in Requests |-> None]
  /\ counted = {} /\ external = 0
  /\ poller = "asleep" /\ wake = 0 /\ factor = 1 /\ sample = NoSample
  /\ cache = Blank
  /\ reader = [d \in Readers |-> "idle"]
  /\ boot = "starting" /\ found = {} /\ state = NoState /\ stored = 0
  /\ built = "not" /\ late = {} /\ told = {}
  /\ fetched = None /\ raced = FALSE

Next ==
  \/ \E r \in Requests : Serve(r) \/ Save(r) \/ Count(r)
  \/ \E d \in Readers : SeeStale(d) \/ RemoveStale(d)
  \/ UseElsewhere \/ ResetWindow \/ Ask \/ Answered
  \/ StartBuilding \/ Build \/ FailToBuild \/ Update \/ Persist
  \/ Tick \/ Restart

Spec == Init /\ [][Next]_vars
-----------------------------------------------------------------------------
(* Properties *)

(* The rows read at the start have r; its summary came to a state.         *)
InRows(r) == built = "whole" /\ row[r] # None /\ r \notin late
InState(r) == r \in told

(* A recent request is in the window once, over restarts, however many are *)
(* recorded beside the start; but twice if its row came before the rows    *)
(* were read and its summary after the state was put into the map, and not *)
(* at all if the row came after and the summary before, or if the rows     *)
(* could not be read (xfactor/mod.rs: initialize_cache beside on_request). *)
CountedOnce ==
  \A r \in Requests :
    boot = "ready" /\ state.known /\ pc[r] = "done" /\ row[r] # None /\ row[r] >= now - Window
    => LET n == Cardinality({e \in state.window : e.of = r}) IN
       /\ n \in 0..2
       /\ n = 2 <=> InRows(r) /\ InState(r)
       /\ n = 0 <=> ~InRows(r) /\ ~InState(r)

(* Each step that puts the bound above the account's capacity sets a usage *)
(* against tokens that are not part of it: of a request served after the   *)
(* usage was measured or before the provider's window began, of one in the *)
(* window twice, or of one whose weight is above its cost                  *)
(* (xfactor/state.rs: on_usage_poll).                                      *)
LowerBoundExplained ==
  [][state'.lower > Total /\ state'.lower > Most(state.lower, stored)
     => \E e \in state'.window : \/ e.of \notin cache.seen
                                 \/ InRows(e.of) /\ InState(e.of)
                                 \/ Weight[e.of] > Cost[e.of]]_vars

(* What was learned of the capacity is not unlearned: the persisted bound  *)
(* falls only in a process that could not read it when it started          *)
(* (xfactor/mod.rs: initialize_cache, update_from_usage_cache and          *)
(* persist_to_db).                                                         *)
BoundUnlearned == [][stored' < stored => built = "failed"]_vars

(* What the poller stored is there for as long as it is fresh, but for a   *)
(* reader that removes it in place of the stale entry it had seen          *)
(* (usage_polling.rs: UsageCache::get).                                    *)
FreshUsageKept ==
  fetched # None /\ now - fetched <= MaxAge /\ cache = Blank => raced
=============================================================================
