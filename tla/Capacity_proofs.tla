-------------------------- MODULE Capacity_proofs ---------------------------
(***************************************************************************)
(* Theorems of Capacity, for every set of requests and of readers, every   *)
(* capacity, window and age, all costs and weights, and all bounds.        *)
(***************************************************************************)
EXTENDS Capacity, FiniteSetTheorems, TLAPS

LEMMA Constants ==
  /\ IsFiniteSet(Requests) /\ Updater \in Readers
  /\ Total \in Nat /\ Total >= 1 /\ Interval \in Nat /\ Interval >= 1
  /\ MaxFactor \in Nat /\ MaxFactor >= 1
  /\ MaxExternal \in Nat /\ Window \in Nat /\ MaxAge \in Nat /\ MaxNow \in Nat
  /\ MaxRestarts \in Nat /\ MaxTokens \in Nat
  /\ Cost \in [Requests -> 1..MaxTokens] /\ Weight \in [Requests -> 1..MaxTokens]
BY CapacityAssumption

-----------------------------------------------------------------------------
(* Sets of requests and of entries are finite *)

Costs(S) == UNION {{r} \X (1..Cost[r]) : r \in S}
Weights(w) == UNION {{e} \X (1..Weight[e.of]) : e \in w}

\* The members of these unions, without their sets of pairs.
LEMMA Pairs ==
  /\ \A S \in SUBSET Requests : Costs(S) \subseteq Requests \X (1..MaxTokens)
  /\ \A S \in SUBSET Requests : \A r \in S : \A i \in 1..Cost[r] : <<r, i>> \in Costs(S)
  /\ \A w \in SUBSET Entries : Weights(w) \subseteq Entries \X (1..MaxTokens)
  /\ \A w \in SUBSET Entries : \A x \in Weights(w) :
       \E e \in w : \E i \in 1..Weight[e.of] : x = <<e, i>>
<1>1. \A r \in Requests : Cost[r] \in 1..MaxTokens /\ Weight[r] \in 1..MaxTokens
  BY Constants
<1>2. \A r \in Requests : 1..Cost[r] \subseteq 1..MaxTokens /\ 1..Weight[r] \subseteq 1..MaxTokens
  BY <1>1, Constants
<1>3. \A e \in Entries : e.of \in Requests
  BY DEF Entries
<1>4. ASSUME NEW S \in SUBSET Requests PROVE Costs(S) \subseteq Requests \X (1..MaxTokens)
  BY <1>2 DEF Costs
<1>5. ASSUME NEW S \in SUBSET Requests, NEW r \in S, NEW i \in 1..Cost[r]
      PROVE  <<r, i>> \in Costs(S)
  BY DEF Costs
<1>6. ASSUME NEW w \in SUBSET Entries PROVE Weights(w) \subseteq Entries \X (1..MaxTokens)
  BY <1>2, <1>3 DEF Weights
<1>7. ASSUME NEW w \in SUBSET Entries, NEW x \in Weights(w)
      PROVE  \E e \in w : \E i \in 1..Weight[e.of] : x = <<e, i>>
  BY DEF Weights
<1> QED BY <1>4, <1>5, <1>6, <1>7

LEMMA RequestSets ==
  ASSUME NEW S \in SUBSET Requests
  PROVE  IsFiniteSet(Costs(S)) /\ Spent(S) \in Nat /\ Spent(S) <= Spent(Requests)
<1>1. IsFiniteSet(1..MaxTokens)
  BY Constants, FS_Interval
<1>2. IsFiniteSet(Requests \X (1..MaxTokens))
  BY <1>1, Constants, FS_Product
<1>3. IsFiniteSet(Costs(S)) /\ IsFiniteSet(Costs(Requests))
  BY <1>2, Pairs, FS_Subset
<1>4. Costs(S) \subseteq Costs(Requests)
  BY DEF Costs
<1>5. Cardinality(Costs(S)) \in Nat /\ Cardinality(Costs(S)) <= Cardinality(Costs(Requests))
  BY <1>3, <1>4, FS_Subset, FS_CardinalityType
<1> QED BY <1>3, <1>5 DEF Spent, Costs

LEMMA EntriesFinite == IsFiniteSet(Entries)
<1> DEFINE T == (0..MaxNow) \X Requests
           P == T \X {"row", "summary"}
           f == [e \in Entries |-> <<<<e.ts, e.of>>, e.from>>]
<1>1. IsFiniteSet(0..MaxNow)
  BY Constants, FS_Interval
<1>2. IsFiniteSet({"row", "summary"})
  <2>1. IsFiniteSet({"row"} \cup {"summary"})
    BY FS_Singleton, FS_Union
  <2>2. {"row"} \cup {"summary"} = {"row", "summary"}
    OBVIOUS
  <2> QED BY <2>1, <2>2
<1>3. IsFiniteSet(T)
  BY <1>1, Constants, FS_Product
<1>4. IsFiniteSet(P)
  BY <1>2, <1>3, FS_Product
<1>5. f \in Injection(Entries, P)
  <2>1. f \in [Entries -> P]
    BY DEF Entries
  <2>2. ASSUME NEW d \in Entries, NEW e \in Entries, f[d] = f[e] PROVE d = e
    <3>1. /\ f[d] = <<<<d.ts, d.of>>, d.from>> /\ f[e] = <<<<e.ts, e.of>>, e.from>>
          /\ d = [ts |-> d.ts, of |-> d.of, from |-> d.from]
          /\ e = [ts |-> e.ts, of |-> e.of, from |-> e.from]
      BY DEF Entries
    <3>2. <<d.ts, d.of>> = <<e.ts, e.of>> /\ d.from = e.from
      BY <2>2, <3>1
    <3> QED BY <3>1, <3>2
  <2> QED BY <2>1, <2>2 DEF Injection, IsInjective
<1> QED BY <1>4, <1>5, FS_Injection

LEMMA EntrySets ==
  ASSUME NEW w \in SUBSET Entries
  PROVE  IsFiniteSet(Weights(w)) /\ Tokens(w) \in Nat
<1>1. IsFiniteSet(1..MaxTokens)
  BY Constants, FS_Interval
<1>2. IsFiniteSet(Entries \X (1..MaxTokens))
  BY <1>1, EntriesFinite, FS_Product
<1>3. IsFiniteSet(Weights(w))
  BY <1>2, Pairs, FS_Subset
<1>4. Cardinality(Weights(w)) \in Nat
  BY <1>3, FS_CardinalityType
<1> QED BY <1>3, <1>4 DEF Tokens, Weights

-----------------------------------------------------------------------------
(* Numbers *)

\* A quotient by a positive number.
LEMMA Quotients ==
  ASSUME NEW x \in Nat, NEW y \in Nat, y >= 1
  PROVE  x \div y \in Nat /\ (x \div y) * y <= x
OBVIOUS

LEMMA Grows ==
  ASSUME NEW x \in Nat, NEW y \in Nat, NEW z \in Nat, x <= y
  PROVE  x * z <= y * z /\ x * z \in Nat
OBVIOUS

\* A number of tokens set against a usage of at least as many.
LEMMA AtMostTotal ==
  ASSUME NEW tokens \in Nat, NEW used \in Nat, used >= 1, tokens <= used
  PROVE  /\ (tokens * Total) \div used \in Nat /\ (tokens * Total) \div used <= Total
         /\ (9 * tokens * Total) \div (10 * used) \in Nat
         /\ (9 * tokens * Total) \div (10 * used) <= Total
<1>1. ASSUME NEW x \in Nat, NEW y \in Nat, y >= 1, x <= Total * y
      PROVE  x \div y \in Nat /\ x \div y <= Total
  <2> DEFINE q == x \div y
  <2>1. q \in Nat /\ q * y <= x
    BY <1>1, Quotients
  <2> HIDE DEF q
  <2>0. q \in Nat
    BY <2>1
  <2>2. ASSUME q >= Total + 1 PROVE FALSE
    <3>1. (Total + 1) * y <= q * y
      BY <1>1, <2>1, <2>2, Grows, Constants
    <3>2. (Total + 1) * y = Total * y + y /\ Total * y \in Nat
      BY <1>1, Constants
    <3>3. q * y \in Nat
      BY <2>1, <1>1
    <3> HIDE DEF q
    <3> QED BY <1>1, <2>1, <3>1, <3>2, <3>3
  <2>3. q <= Total
    BY <2>0, <2>2, Constants
  <2> QED BY <2>0, <2>3 DEF q
<1>2. tokens * Total \in Nat /\ tokens * Total <= Total * used
  <2>1. tokens * Total <= used * Total /\ tokens * Total \in Nat
    BY Constants, Grows
  <2>2. used * Total = Total * used
    BY Constants
  <2> QED BY <2>1, <2>2
<1>3. 9 * tokens * Total \in Nat /\ 9 * tokens * Total <= Total * (10 * used)
  <2>1. 9 * tokens * Total = 9 * (tokens * Total) /\ Total * (10 * used) = 10 * (Total * used)
    BY Constants
  <2>2. Total * used \in Nat
    BY Constants
  <2> QED BY <1>2, <2>1, <2>2
<1> QED BY <1>1, <1>2, <1>3

-----------------------------------------------------------------------------
(* Types *)

\* The windows the actions build are sets of entries.
LEMMA WindowTypes ==
  ASSUME TypeOK
  PROVE  /\ RecentRows \subseteq Entries
         /\ \A w \in SUBSET Entries : Evicted(w) \subseteq Entries
         /\ \A w \in SUBSET Entries, r \in Requests : Recorded(w, r) \subseteq Entries
<1>1. RecentRows \subseteq Entries
  <2> SUFFICES ASSUME NEW r \in Requests, row[r] # None
               PROVE  [ts |-> row[r], of |-> r, from |-> "row"] \in Entries
    BY DEF RecentRows
  <2>1. row[r] \in 0..MaxNow
    BY DEF TypeOK
  <2> QED BY <2>1 DEF Entries
<1>2. ASSUME NEW w \in SUBSET Entries PROVE Evicted(w) \subseteq Entries
  BY DEF Evicted
<1>3. ASSUME NEW w \in SUBSET Entries, NEW r \in Requests PROVE Recorded(w, r) \subseteq Entries
  <2>1. [ts |-> now, of |-> r, from |-> "summary"] \in Entries
    BY DEF Entries, TypeOK
  <2> QED BY <1>2, <2>1 DEF Recorded
<1> QED BY <1>1, <1>2, <1>3

\* The bound a usage gives is a number, and no smaller than it was.
LEMMA BoundGrows ==
  ASSUME NEW s, s.window \in SUBSET Entries, s.lower \in Nat, NEW used \in Nat
  PROVE  Bound(s, used) \in Nat /\ Bound(s, used) >= s.lower
<1> DEFINE tokens == Tokens(s.window)
<1>1. tokens \in Nat
  BY EntrySets
<1>2. tokens * Total \in Nat /\ 9 * tokens * Total \in Nat
  BY <1>1, Constants
<1> HIDE DEF tokens
<1>3. CASE 100 * used >= 5 * Total
  <2>1. used >= 1 /\ 10 * used \in Nat /\ 10 * used >= 1
    BY <1>3, Constants
  <2>2. (tokens * Total) \div used \in Nat /\ (9 * tokens * Total) \div (10 * used) \in Nat
    BY <1>2, <2>1, Quotients
  <2> QED BY <2>2 DEF Bound, Most, tokens
<1>4. CASE ~(100 * used >= 5 * Total)
  <2>1. 100 * used < 5 * Total /\ ~(100 * used >= 95 * Total)
    BY <1>4, Constants
  <2> QED BY <2>1 DEF Bound
<1> QED BY <1>3, <1>4

LEMMA SampleTypes ==
  ASSUME TypeOK
  PROVE  [used |-> Spent(counted) + external, seen |-> counted] \in Samples
<1>1. Spent(counted) \in 0..Spent(Requests) /\ external \in 0..MaxExternal
  BY RequestSets, Constants DEF TypeOK
<1>2. Spent(Requests) \in Nat
  BY RequestSets
<1>3. Spent(counted) + external \in 0..MaxUsed
  BY <1>1, <1>2, Constants DEF MaxUsed
<1> QED BY <1>3 DEF Samples, TypeOK

LEMMA SleepTypes ==
  ASSUME TypeOK, NEW n \in 1..MaxFactor, Sleeps(n)
  PROVE  /\ poller' = "asleep" /\ sample' = NoSample
         /\ factor' \in 1..MaxFactor /\ wake' \in 0..(MaxNow + Interval * MaxFactor)
<1>1. n * Interval <= MaxFactor * Interval /\ n * Interval \in Nat
  BY Constants, Grows
<1>2. Interval * n = n * Interval /\ Interval * MaxFactor = MaxFactor * Interval
  BY Constants
<1>3. now \in 0..MaxNow /\ Interval * MaxFactor \in Nat
  BY Constants DEF TypeOK
<1>4. now + Interval * n \in 0..(MaxNow + Interval * MaxFactor)
  BY <1>1, <1>2, <1>3, Constants
<1> QED BY <1>4 DEF Sleeps

\* While the provider is asked there is something to store.
SampleOK == poller = "asked" => sample \in Samples

LEMMA TypeInit == Init => TypeOK /\ SampleOK
<1> SUFFICES ASSUME Init PROVE TypeOK /\ SampleOK
  OBVIOUS
<1>1. 0 \in 0..MaxNow /\ 0 \in 0..MaxExternal /\ 1 \in 1..MaxFactor /\ 0 \in 0..MaxRestarts
  BY Constants
<1>2. 0 \in 0..(MaxNow + Interval * MaxFactor)
  BY Constants
<1> QED BY <1>1, <1>2 DEF Init, TypeOK, SampleOK, NoState

LEMMA TypeNext == TypeOK /\ SampleOK /\ [Next]_vars => TypeOK' /\ SampleOK'
<1> SUFFICES ASSUME TypeOK, SampleOK, [Next]_vars PROVE TypeOK' /\ SampleOK'
  OBVIOUS
<1> USE DEF TypeOK, SampleOK, poll, provider, xfactor, overlap
<1>1. ASSUME NEW r \in Requests, Serve(r) PROVE TypeOK' /\ SampleOK'
  BY <1>1 DEF Serve
<1>2. ASSUME NEW r \in Requests, Save(r) PROVE TypeOK' /\ SampleOK'
  BY <1>2 DEF Save
<1>3. ASSUME NEW r \in Requests, Count(r) PROVE TypeOK' /\ SampleOK'
  <2>0. told' \subseteq Requests
    BY <1>3 DEF Count
  <2>1. state' \in [known : BOOLEAN, window : SUBSET Entries, lower : Nat]
    <3>1. CASE state.known
      <4>1. state' = [state EXCEPT !.window = Recorded(state.window, r)]
        BY <1>3, <3>1 DEF Count
      <4>2. Recorded(state.window, r) \subseteq Entries
        BY WindowTypes
      <4> QED BY <4>1, <4>2
    <3>2. CASE ~state.known
      BY <1>3, <3>2 DEF Count
    <3> QED BY <3>1, <3>2
  <2> QED BY <1>3, <2>0, <2>1 DEF Count
<1>4. ASSUME NEW d \in Readers, SeeStale(d) PROVE TypeOK' /\ SampleOK'
  BY <1>4 DEF SeeStale
<1>5. ASSUME NEW d \in Readers, RemoveStale(d) PROVE TypeOK' /\ SampleOK'
  BY <1>5 DEF RemoveStale
<1>6. CASE UseElsewhere
  BY <1>6, Constants DEF UseElsewhere
<1>7. CASE ResetWindow
  BY <1>7, Constants DEF ResetWindow
<1>8. CASE Ask
  BY <1>8, SampleTypes DEF Ask
<1>9. CASE Answered
  <2> USE <1>9 DEF Answered
  <2>0. 1 \in 1..MaxFactor /\ Least(factor * 2, MaxFactor) \in 1..MaxFactor
    BY Constants DEF Least
  <2>1. PICK n \in 1..MaxFactor : Sleeps(n)
    BY <2>0
  <2>2. /\ poller' = "asleep" /\ sample' = NoSample
        /\ factor' \in 1..MaxFactor /\ wake' \in 0..(MaxNow + Interval * MaxFactor)
    BY <2>1, SleepTypes
  <2>3. sample \in Samples /\ now \in 0..MaxNow
    OBVIOUS
  <2>4. cache' \in Usages \union {Blank}
    <3>1. [used |-> sample.used, seen |-> sample.seen, at |-> now] \in Usages
      BY <2>3 DEF Samples, Usages
    <3>2. Cleaned(cache) \in Usages \union {Blank}
      BY DEF Cleaned
    <3> QED BY <3>1, <3>2
  <2>5. fetched' \in {None} \union 0..MaxNow /\ raced' \in BOOLEAN
    BY <2>3
  <2> QED BY <2>2, <2>4, <2>5
<1>10. CASE StartBuilding
  BY <1>10, WindowTypes DEF StartBuilding
<1>11. CASE Build
  BY <1>11 DEF Build, Restored
<1>12. CASE FailToBuild
  BY <1>12 DEF FailToBuild
<1>13. CASE Update
  <2> DEFINE s == [state EXCEPT !.known = TRUE]
             e == [s EXCEPT !.window = Evicted(s.window)]
  <2>1. /\ s \in [known : BOOLEAN, window : SUBSET Entries, lower : Nat]
        /\ e \in [known : BOOLEAN, window : SUBSET Entries, lower : Nat]
    BY WindowTypes
  <2>2. state' \in [known : BOOLEAN, window : SUBSET Entries, lower : Nat]
    <3>1. CASE cache # Blank /\ ~Stale(cache)
      <4>0. cache.used \in Nat
        BY <3>1 DEF Usages
      <4>1. Bound(e, cache.used) \in Nat
        <5> HIDE DEF e
        <5>1. e.window \in SUBSET Entries /\ e.lower \in Nat
          BY <2>1
        <5> QED BY <4>0, <5>1, BoundGrows
      <4>2. state' = [e EXCEPT !.lower = Bound(e, cache.used)]
        BY <1>13, <3>1 DEF Update
      <4> HIDE DEF e
      <4> QED BY <2>1, <4>1, <4>2
    <3>2. CASE ~(cache # Blank /\ ~Stale(cache))
      <4>1. state' = s
        BY <1>13, <3>2 DEF Update
      <4> QED BY <2>1, <4>1
    <3> QED BY <3>1, <3>2
  <2> QED BY <1>13, <2>2 DEF Update
<1>14. CASE Persist
  BY <1>14 DEF Persist
<1>15. CASE Tick
  BY <1>15, Constants DEF Tick
<1>16. CASE Restart
  <2>1. /\ wake' = now /\ Interval * MaxFactor \in Nat
        /\ 1 \in 1..MaxFactor /\ restarts' \in 0..MaxRestarts
    BY <1>16, Constants DEF Restart
  <2>2. wake' \in 0..(MaxNow + Interval * MaxFactor)
    BY <2>1, Constants
  <2>3. state' \in [known : BOOLEAN, window : SUBSET Entries, lower : Nat]
    BY <1>16 DEF Restart, NoState
  <2> QED BY <1>16, <2>1, <2>2, <2>3 DEF Restart
<1>17. CASE UNCHANGED vars
  BY <1>17 DEF vars
<1> QED
  BY <1>1, <1>2, <1>3, <1>4, <1>5, <1>6, <1>7, <1>8, <1>9, <1>10, <1>11, <1>12, <1>13, <1>14,
     <1>15, <1>16, <1>17 DEF Next

\* Every variable stays within its type, whatever the sizes and bounds; a bound
\* of the capacity is a natural number in particular: no division by a usage of
\* zero (xfactor/state.rs: on_usage_poll).
THEOREM TypeCorrect == Spec => []TypeOK
<1> QED BY TypeInit, TypeNext, PTL DEF Spec

-----------------------------------------------------------------------------
(* Fresh usage *)

\* What the poller stored last is what the cache has, while it is fresh.
FreshInv ==
  fetched # None /\ now - fetched <= MaxAge /\ ~raced => cache # Blank /\ cache.at = fetched

LEMMA FreshInit == Init => FreshInv
BY DEF Init, FreshInv

LEMMA FreshNext == TypeOK /\ FreshInv /\ [Next]_vars => FreshInv'
<1> SUFFICES ASSUME TypeOK, FreshInv, [Next]_vars PROVE FreshInv'
  OBVIOUS
<1>0. now \in Nat /\ fetched \in Int /\ cache \in Usages \union {Blank} /\ MaxAge \in Nat
  BY Constants DEF TypeOK, None
\* What the cache has of the last poll is not stale.
<1>s. ASSUME fetched # None, now - fetched <= MaxAge, ~raced
      PROVE  cache # Blank /\ cache.at = fetched /\ ~Stale(cache) /\ Cleaned(cache) = cache
  BY <1>0, <1>s DEF FreshInv, Stale, Cleaned
<1>1. ASSUME UNCHANGED <<now, cache, fetched, raced>> PROVE FreshInv'
  BY <1>1 DEF FreshInv
<1>2. CASE Answered
  BY <1>0, <1>2, <1>s DEF Answered, FreshInv, Blank, None
<1>3. ASSUME NEW d \in Readers, RemoveStale(d) PROVE FreshInv'
  BY <1>0, <1>3, <1>s DEF RemoveStale, FreshInv
<1>4. CASE Tick
  BY <1>0, <1>4 DEF Tick, FreshInv
<1>5. CASE Restart
  BY <1>5 DEF Restart, FreshInv
<1>6. CASE UNCHANGED vars
  BY <1>1, <1>6 DEF vars
<1>7. CASE \E r \in Requests : Serve(r) \/ Save(r) \/ Count(r)
  BY <1>1, <1>7 DEF Serve, Save, Count
<1>8. CASE \E d \in Readers : SeeStale(d)
  BY <1>1, <1>8 DEF SeeStale
<1>9. CASE UseElsewhere \/ ResetWindow \/ Ask
  BY <1>1, <1>9 DEF UseElsewhere, ResetWindow, Ask
<1>10. CASE StartBuilding \/ Build \/ FailToBuild \/ Update \/ Persist
  BY <1>1, <1>10 DEF StartBuilding, Build, FailToBuild, Update, Persist
<1> QED BY <1>2, <1>3, <1>4, <1>5, <1>6, <1>7, <1>8, <1>9, <1>10 DEF Next

\* A usage the poller stored does not leave the cache before its time, unless a
\* reader that had seen an older one stale removes it
\* (usage_polling.rs: UsageCache::get drops its guard before it removes).
THEOREM FreshUsageStays == Spec => []FreshUsageKept
<1>1. TypeOK /\ FreshInv => FreshUsageKept
  BY DEF FreshInv, FreshUsageKept
<1> QED BY <1>1, TypeCorrect, FreshInit, FreshNext, PTL DEF Spec

-----------------------------------------------------------------------------
(* Every request once *)

ReadRows == {r \in Requests : InRows(r)}

\* A window has one entry of each row that was read, one of each request that was
\* counted, and no other; what is too old may be missing.
Tracks(w, rows, read, tells, n) ==
  /\ \A e \in w : e.from = "row" => e.of \in read /\ e.ts = rows[e.of]
  /\ \A e \in w : e.from = "summary" => e.of \in tells
  /\ \A d, e \in w : d.from = "summary" /\ e.from = "summary" /\ d.of = e.of => d = e
  /\ \A r \in read : rows[r] >= n - Window => \E e \in w : e.from = "row" /\ e.of = r
  /\ \A r \in tells : rows[r] # None /\ rows[r] >= n - Window
       => \E e \in w : e.from = "summary" /\ e.of = r /\ e.ts >= rows[r]

RowsOK == \A r \in Requests : row[r] <= now /\ (pc[r] \in {"new", "served"} => row[r] = None)

CountInv ==
  /\ RowsOK
  /\ \A r \in told : pc[r] = "done"
  /\ boot = "starting" <=> built = "not"
  /\ boot = "starting" => late = {}
  /\ boot # "ready" => state = NoState /\ told = {}
  /\ boot = "building" => Tracks(found, row, ReadRows, told, now)
  /\ boot = "ready" => Tracks(state.window, row, ReadRows, told, now)

\* Time, and rows that were neither read nor counted, do not disturb a window.
LEMMA TracksStay ==
  ASSUME NEW w, NEW rows \in [Requests -> Int], NEW rows1 \in [Requests -> Int],
         NEW read \in SUBSET Requests, NEW tells \in SUBSET Requests,
         NEW n \in Int, NEW n1 \in Int, n <= n1,
         Tracks(w, rows, read, tells, n),
         \A r \in read \union tells : rows1[r] = rows[r]
  PROVE  Tracks(w, rows1, read, tells, n1)
<1>1. \A r \in Requests : rows[r] \in Int /\ rows[r] >= n1 - Window => rows[r] >= n - Window
  BY Constants
<1> QED BY <1>1 DEF Tracks

LEMMA EvictionTracks ==
  ASSUME TypeOK, NEW w \in SUBSET Entries, Tracks(w, row, ReadRows, told, now)
  PROVE  Tracks(Evicted(w), row, ReadRows, told, now)
<1>1. Evicted(w) \subseteq w
  BY DEF Evicted
<1>2. ASSUME NEW r \in Requests, row[r] >= now - Window, NEW e \in w, e.ts >= row[r]
      PROVE  e \in Evicted(w)
  <2>1. e.ts \in Int /\ row[r] \in Int /\ now - Window \in Int
    BY Constants DEF Entries, TypeOK, None
  <2> QED BY <1>2, <2>1 DEF Evicted
<1>3. ASSUME NEW r \in ReadRows, row[r] >= now - Window
      PROVE  \E e \in Evicted(w) : e.from = "row" /\ e.of = r
  <2>1. PICK e \in w : e.from = "row" /\ e.of = r
    BY <1>3 DEF Tracks
  <2>2. e.ts = row[r] /\ r \in Requests /\ row[r] \in Int
    BY <2>1 DEF Tracks, ReadRows, TypeOK, None
  <2>3. e \in Evicted(w)
    BY <1>2, <1>3, <2>2
  <2> QED BY <2>1, <2>3
<1>4. ASSUME NEW r \in told, row[r] # None, row[r] >= now - Window
      PROVE  \E e \in Evicted(w) : e.from = "summary" /\ e.of = r /\ e.ts >= row[r]
  <2>1. PICK e \in w : e.from = "summary" /\ e.of = r /\ e.ts >= row[r]
    BY <1>4 DEF Tracks
  <2>2. r \in Requests
    BY DEF TypeOK
  <2>3. e \in Evicted(w)
    BY <1>2, <1>4, <2>1, <2>2
  <2> QED BY <2>1, <2>3
<1> QED BY <1>1, <1>3, <1>4 DEF Tracks

LEMMA CountInit == Init => CountInv
BY DEF Init, CountInv, RowsOK, None

LEMMA CountNext == TypeOK /\ TypeOK' /\ CountInv /\ [Next]_vars => CountInv'
<1> SUFFICES ASSUME TypeOK, TypeOK', CountInv, [Next]_vars PROVE CountInv'
  OBVIOUS
<1> USE DEF poll, provider, xfactor, overlap
<1>0. /\ now \in Nat /\ now' \in Nat /\ pc \in [Requests -> {"new", "served", "saved", "done"}]
      /\ row \in [Requests -> {None} \union 0..MaxNow]
      /\ row \in [Requests -> Int] /\ row' \in [Requests -> Int]
      /\ state \in [known : BOOLEAN, window : SUBSET Entries, lower : Nat]
      /\ found \in SUBSET Entries /\ told \in SUBSET Requests /\ told' \in SUBSET Requests
      /\ ReadRows \in SUBSET Requests /\ ReadRows' \in SUBSET Requests
      /\ \A r \in Requests : row[r] \in Int
  BY Constants DEF TypeOK, None, ReadRows
<1>1. /\ RowsOK
      /\ \A r \in told : pc[r] = "done"
      /\ boot = "starting" <=> built = "not"
      /\ boot = "starting" => late = {}
      /\ boot # "ready" => state = NoState /\ told = {}
      /\ boot = "building" => Tracks(found, row, ReadRows, told, now)
      /\ boot = "ready" => Tracks(state.window, row, ReadRows, told, now)
  BY DEF CountInv
\* A step that leaves the windows and what they track alone.
<1>s. ASSUME UNCHANGED <<boot, found, built, told>>, now' >= now, RowsOK',
             state'.window = state.window, boot # "ready" => state' = state,
             \A r \in told : pc'[r] = "done" /\ row'[r] = row[r],
             boot = "starting" => late' = late,
             boot # "starting" => /\ ReadRows' = ReadRows
                                  /\ \A r \in ReadRows : row'[r] = row[r]
      PROVE  CountInv'
  <2>1. ASSUME NEW w, Tracks(w, row, ReadRows, told, now), boot # "starting"
        PROVE  Tracks(w, row', ReadRows, told, now')
    BY <1>0, <1>s, <2>1, TracksStay
  <2>2. boot' = "building" => Tracks(found', row', ReadRows', told', now')
    BY <1>1, <1>s, <2>1
  <2>3. boot' = "ready" => Tracks(state'.window, row', ReadRows', told', now')
    BY <1>1, <1>s, <2>1
  <2> QED BY <1>1, <1>s, <2>2, <2>3 DEF CountInv
\* One that leaves the rows alone besides.
<1>t. ASSUME UNCHANGED <<row, boot, found, built, told, late>>, now' >= now,
             state'.window = state.window, boot # "ready" => state' = state,
             \A r \in Requests : \/ pc'[r] = pc[r]
                                 \/ pc[r] = "new" /\ pc'[r] = "served"
      PROVE  CountInv'
  <2>1. RowsOK'
    BY <1>0, <1>1, <1>t DEF RowsOK
  <2>2. ReadRows' = ReadRows
    BY <1>t DEF ReadRows, InRows
  <2>3. \A r \in told : pc'[r] = "done" /\ row'[r] = row[r]
    BY <1>0, <1>1, <1>t
  <2> QED BY <1>s, <1>t, <2>1, <2>2, <2>3
<1>2. ASSUME NEW r \in Requests, Serve(r) PROVE CountInv'
  BY <1>0, <1>2, <1>t DEF Serve
<1>3. ASSUME NEW r \in Requests, Save(r) PROVE CountInv'
  <2>1. /\ pc[r] = "served" /\ row[r] = None /\ r \notin told
        /\ UNCHANGED <<now, boot, found, state, built, told>>
    BY <1>1, <1>3 DEF Save, RowsOK
  <2>2. \A q \in Requests \ {r} : pc'[q] = pc[q] /\ row'[q] = row[q]
    BY <1>0, <1>3 DEF Save
  <2>3. /\ pc'[r] \in {"saved", "done"} /\ row'[r] \in {None, now}
        /\ row'[r] = None \/ (built = "whole" => r \in late')
        /\ \A q \in Requests \ {r} : q \in late' <=> q \in late
        /\ built # "whole" => late' = late
    BY <1>0, <1>3, <2>1 DEF Save
  <2>4. RowsOK'
    BY <1>0, <1>1, <2>1, <2>2, <2>3 DEF RowsOK, None
  <2>5. boot # "starting" => ReadRows' = ReadRows /\ r \notin ReadRows
    BY <1>1, <2>1, <2>2, <2>3 DEF ReadRows, InRows
  <2>6. boot = "starting" => late' = late
    BY <1>1, <2>3
  <2> QED BY <1>0, <1>1, <1>s, <2>1, <2>2, <2>4, <2>5, <2>6 DEF ReadRows
<1>4. ASSUME NEW r \in Requests, Count(r) PROVE CountInv'
  <2>1. /\ pc[r] = "saved" /\ UNCHANGED <<now, row, boot, found, built, late>>
        /\ pc'[r] = "done" /\ \A q \in Requests \ {r} : pc'[q] = pc[q]
        /\ r \notin told
    BY <1>0, <1>1, <1>4 DEF Count
  <2>2. RowsOK' /\ ReadRows' = ReadRows
    BY <1>1, <2>1 DEF RowsOK, ReadRows, InRows
  <2>3. CASE ~state.known
    <3>1. state' = state /\ told' = told
      BY <1>4, <2>3 DEF Count
    <3> QED BY <1>0, <1>1, <1>s, <2>1, <2>2, <3>1
  <2>4. CASE state.known
    <3> DEFINE w == state.window
               v == Evicted(w)
               entry == [ts |-> now, of |-> r, from |-> "summary"]
    <3>0. boot = "ready"
      BY <1>1, <2>4 DEF NoState
    <3>1. state'.window = v \cup {entry} /\ w \in SUBSET Entries /\ told' = told \cup {r}
      BY <1>0, <1>4, <2>4 DEF Count, Recorded
    <3>2. Tracks(v, row, ReadRows, told, now)
      BY <1>1, <3>0, <3>1, EvictionTracks
    <3>3. entry.of = r /\ entry.ts = now /\ entry.from = "summary" /\ row[r] <= now
      BY <1>1 DEF RowsOK
    <3>4. state'.window = v \cup {entry}
      BY <3>1
    <3> HIDE DEF entry, v, w
    <3>5. \A e \in v : e.from = "summary" => e.of # r
      BY <2>1, <3>2 DEF Tracks
    <3>6. Tracks(v \cup {entry}, row, ReadRows, told', now)
      BY <3>1, <3>2, <3>3, <3>5 DEF Tracks
    <3>7. Tracks(state'.window, row', ReadRows', told', now')
      BY <2>1, <2>2, <3>4, <3>6
    <3>8. \A q \in told' : pc'[q] = "done"
      BY <1>0, <1>1, <2>1, <3>1
    <3> QED BY <1>1, <2>1, <2>2, <3>0, <3>7, <3>8 DEF CountInv
  <2> QED BY <2>3, <2>4 DEF TypeOK
<1>5. CASE StartBuilding
  <2>1. /\ boot = "starting" /\ boot' = "building" /\ UNCHANGED <<now, pc, row, state, told, late>>
        /\ late = {} /\ told = {} /\ state = NoState
        /\ \/ found' = RecentRows /\ built' = "whole"
           \/ found' = {} /\ built' = "bare"
    BY <1>1, <1>5 DEF StartBuilding
  <2>2. RowsOK'
    BY <1>1, <2>1 DEF RowsOK
  <2>3. CASE built' = "whole"
    <3>1. ReadRows' = {r \in Requests : row[r] # None} /\ found' = RecentRows
      BY <2>1, <2>3 DEF ReadRows, InRows
    <3>2. ASSUME NEW e \in RecentRows
          PROVE  /\ e.from = "row" /\ e.of \in Requests /\ row[e.of] # None
                 /\ e.ts = row[e.of]
      BY DEF RecentRows
    <3>3. ASSUME NEW r \in Requests, row[r] # None, row[r] >= now - Window
          PROVE  \E e \in RecentRows : e.from = "row" /\ e.of = r
      <4>1. [ts |-> row[r], of |-> r, from |-> "row"] \in RecentRows
        BY <3>3 DEF RecentRows
      <4> QED BY <4>1
    <3>4. Tracks(RecentRows, row, ReadRows', told, now)
      BY <2>1, <3>1, <3>2, <3>3 DEF Tracks
    <3> QED BY <2>1, <2>2, <2>3, <3>1, <3>4 DEF CountInv
  <2>4. CASE built' = "bare"
    <3>1. ReadRows' = {} /\ found' = {}
      BY <2>1, <2>4 DEF ReadRows, InRows
    <3>2. Tracks({}, row, {}, {}, now)
      BY DEF Tracks
    <3> QED BY <2>1, <2>2, <2>4, <3>1, <3>2 DEF CountInv
  <2> QED BY <2>1, <2>3, <2>4
<1>6. CASE Build
  <2>1. /\ boot = "building" /\ boot' = "ready" /\ state'.window = found
        /\ UNCHANGED <<now, pc, row, built, told, late>>
    BY <1>6 DEF Build, Restored
  <2>2. RowsOK' /\ ReadRows' = ReadRows
    BY <1>1, <2>1 DEF RowsOK, ReadRows, InRows
  <2> QED BY <1>1, <2>1, <2>2 DEF CountInv
<1>7. CASE FailToBuild
  <2>1. /\ boot' = "ready" /\ state'.window = {} /\ UNCHANGED <<now, pc, row, told>>
        /\ built' = "failed" /\ told = {}
    BY <1>1, <1>7 DEF FailToBuild, NoState
  <2>2. RowsOK' /\ ReadRows' = {}
    BY <1>1, <2>1 DEF RowsOK, ReadRows, InRows
  <2>3. Tracks({}, row, {}, {}, now)
    BY DEF Tracks
  <2> QED BY <2>1, <2>2, <2>3 DEF CountInv
<1>8. CASE Update
  <2>1. boot = "ready" /\ UNCHANGED <<now, pc, row, boot, found, built, told, late>>
    BY <1>8 DEF Update
  <2>2. state'.window \in {state.window, Evicted(state.window)}
    BY <1>0, <1>8 DEF Update
  <2>3. Tracks(state'.window, row, ReadRows, told, now)
    BY <1>0, <1>1, <2>1, <2>2, EvictionTracks
  <2>4. RowsOK' /\ ReadRows' = ReadRows
    BY <1>1, <2>1 DEF RowsOK, ReadRows, InRows
  <2> QED BY <1>1, <2>1, <2>3, <2>4 DEF CountInv
<1>9. CASE Restart
  BY <1>0, <1>1, <1>9 DEF Restart, CountInv, RowsOK
<1>10. CASE Tick
  BY <1>0, <1>10, <1>t DEF Tick
<1>11. CASE UNCHANGED vars
  BY <1>0, <1>11, <1>t DEF vars
<1>12. CASE \E d \in Readers : SeeStale(d) \/ RemoveStale(d)
  BY <1>0, <1>12, <1>t DEF SeeStale, RemoveStale
<1>13. CASE UseElsewhere \/ ResetWindow \/ Ask \/ Answered \/ Persist
  BY <1>0, <1>13, <1>t DEF UseElsewhere, ResetWindow, Ask, Answered, Persist
<1> QED
  BY <1>2, <1>3, <1>4, <1>5, <1>6, <1>7, <1>8, <1>9, <1>10, <1>11, <1>12, <1>13 DEF Next

LEMMA CountHolds == Spec => []CountInv
BY TypeCorrect, CountInit, CountNext, PTL DEF Spec

\* Every recent request is in the window once, also over restarts and however many
\* are recorded beside the start; it is there twice, or not at all, exactly when
\* its recording has the reading of the rows and the insertion of the state on the
\* wrong sides, or the rows could not be read
\* (xfactor/mod.rs: initialize_cache beside on_request).
THEOREM RequestsCountedOnce == Spec => []CountedOnce
<1>1. TypeOK /\ CountInv => CountedOnce
  <2> DEFINE Of(r) == {e \in state.window : e.of = r}
  <2> SUFFICES ASSUME TypeOK, CountInv, NEW r \in Requests,
                      boot = "ready", row[r] # None, row[r] >= now - Window
               PROVE  /\ Cardinality(Of(r)) \in 0..2
                      /\ Cardinality(Of(r)) = 2 <=> InRows(r) /\ InState(r)
                      /\ Cardinality(Of(r)) = 0 <=> ~InRows(r) /\ ~InState(r)
    BY DEF CountedOnce
  <2>1. Tracks(state.window, row, ReadRows, told, now)
    BY DEF CountInv
  <2>2. \A e \in Of(r) : /\ e = [ts |-> e.ts, of |-> r, from |-> e.from]
                          /\ e.from \in {"row", "summary"}
    BY DEF TypeOK, Entries
  <2>3. \A d, e \in Of(r) : d.from = e.from => d = e
    BY <2>1, <2>2 DEF Tracks
  <2>4. InRows(r) <=> \E e \in Of(r) : e.from = "row"
    BY <2>1 DEF Tracks, ReadRows
  <2>5. InState(r) <=> \E e \in Of(r) : e.from = "summary"
    BY <2>1 DEF Tracks, InState
  <2> HIDE DEF Of
  <2>6. CASE InRows(r) /\ InState(r)
    <3>1. PICK d \in Of(r) : d.from = "row"
      BY <2>4, <2>6
    <3>2. PICK e \in Of(r) : e.from = "summary"
      BY <2>5, <2>6
    <3>3. d # e /\ Of(r) = {d} \cup {e}
      BY <2>2, <2>3, <3>1, <3>2
    <3>4. Cardinality({d} \cup {e}) = 2
      <4>1. IsFiniteSet({d}) /\ Cardinality({d}) = 1 /\ e \notin {d}
        BY <3>3, FS_Singleton
      <4> QED BY <4>1, FS_AddElement
    <3> QED BY <2>6, <3>3, <3>4
  <2>7. CASE InRows(r) /\ ~InState(r)
    <3>1. PICK d \in Of(r) : d.from = "row"
      BY <2>4, <2>7
    <3>2. Of(r) = {d}
      BY <2>2, <2>3, <2>5, <2>7, <3>1
    <3>3. Cardinality(Of(r)) = 1
      BY <3>2, FS_Singleton
    <3> QED BY <2>7, <3>3
  <2>8. CASE ~InRows(r) /\ InState(r)
    <3>1. PICK d \in Of(r) : d.from = "summary"
      BY <2>5, <2>8
    <3>2. Of(r) = {d}
      BY <2>2, <2>3, <2>4, <2>8, <3>1
    <3>3. Cardinality(Of(r)) = 1
      BY <3>2, FS_Singleton
    <3> QED BY <2>8, <3>3
  <2>9. CASE ~InRows(r) /\ ~InState(r)
    <3>1. Of(r) = {}
      BY <2>2, <2>4, <2>5, <2>9
    <3> QED BY <2>9, <3>1, FS_EmptySet
  <2> QED BY <2>6, <2>7, <2>8, <2>9
<1> QED BY <1>1, TypeCorrect, CountHolds, PTL

-----------------------------------------------------------------------------
(* The lower bound *)

\* A usage is at least what the requests it counts have cost.
UsageInv ==
  /\ poller = "asked" => Spent(sample.seen) <= sample.used
  /\ cache # Blank => Spent(cache.seen) <= cache.used

\* The tokens of a window are at most the usage that counts its requests, when
\* none is there twice or weighs too much.
LEMMA WindowWithinUsage ==
  ASSUME TypeOK, NEW w \in SUBSET Entries, NEW seen \in SUBSET Requests,
         Tracks(w, row, ReadRows, told, now),
         \A e \in w : /\ e.of \in seen /\ ~(InRows(e.of) /\ InState(e.of))
                     /\ Weight[e.of] <= Cost[e.of]
  PROVE  Tokens(w) <= Spent(seen)
<1> DEFINE f == [x \in Weights(w) |-> <<x[1].of, x[2]>>]
<1>0. \A d, e \in w : d.of = e.of => d = e
  <2> SUFFICES ASSUME NEW d \in w, NEW e \in w, d.of = e.of PROVE d = e
    OBVIOUS
  <2>1. /\ d = [ts |-> d.ts, of |-> d.of, from |-> d.from] /\ d.from \in {"row", "summary"}
        /\ e = [ts |-> e.ts, of |-> e.of, from |-> e.from] /\ e.from \in {"row", "summary"}
        /\ e.of \in Requests
    BY DEF Entries
  <2>2. d.from = e.from
    BY <2>1 DEF Tracks, ReadRows, InState
  <2>3. CASE d.from = "row"
    <3>0. \A x \in w : x.from = "row" => x.ts = row[x.of]
      BY DEF Tracks
    <3>1. d.ts = row[d.of] /\ e.ts = row[e.of]
      BY <2>2, <2>3, <3>0
    <3> QED BY <2>1, <2>2, <3>1
  <2>4. CASE d.from = "summary"
    BY <2>2, <2>4 DEF Tracks
  <2> QED BY <2>1, <2>3, <2>4
<1>1. ASSUME NEW x \in Weights(w) PROVE f[x] \in Costs(seen)
  <2>0. PICK e \in w : \E i \in 1..Weight[e.of] : x = <<e, i>>
    BY Pairs
  <2>1. PICK i \in 1..Weight[e.of] : x = <<e, i>>
    BY <2>0
  <2>2. f[x] = <<e.of, i>> /\ e.of \in seen
    BY <2>1
  <2>3. i \in 1..Cost[e.of]
    <3>1. Weight[e.of] \in Int /\ Cost[e.of] \in Int /\ Weight[e.of] <= Cost[e.of]
      BY <2>2, Constants
    <3> QED BY <3>1
  <2>4. <<e.of, i>> \in Costs(seen)
    BY <2>2, <2>3, Pairs
  <2> QED BY <2>2, <2>4
<1>2. f \in [Weights(w) -> Costs(seen)]
  BY <1>1
<1>3. ASSUME NEW x \in Weights(w), NEW y \in Weights(w), f[x] = f[y] PROVE x = y
  <2>1. PICK d \in w : \E i \in 1..Weight[d.of] : x = <<d, i>>
    BY Pairs
  <2>2. PICK e \in w : \E j \in 1..Weight[e.of] : y = <<e, j>>
    BY Pairs
  <2>a. PICK i \in 1..Weight[d.of] : x = <<d, i>>
    BY <2>1
  <2>b. PICK j \in 1..Weight[e.of] : y = <<e, j>>
    BY <2>2
  <2>3. f[x] = <<d.of, i>> /\ f[y] = <<e.of, j>>
    BY <2>a, <2>b
  <2>4. d.of = e.of /\ i = j
    BY <1>3, <2>3
  <2> QED BY <1>0, <2>a, <2>b, <2>4
<1>4. f \in Injection(Weights(w), Costs(seen))
  BY <1>2, <1>3 DEF Injection, IsInjective
<1>5. Cardinality(Weights(w)) <= Cardinality(Costs(seen))
  <2>1. IsFiniteSet(Costs(seen))
    BY RequestSets
  <2> HIDE DEF f
  <2> QED BY <1>4, <2>1, FS_Injection
<1> QED BY <1>5 DEF Tokens, Spent, Weights, Costs

\* A usage that counts every token of the window does not raise a bound above the
\* total.
LEMMA BoundExplained ==
  ASSUME NEW s, s.window \in SUBSET Entries, s.lower \in Nat,
         NEW used \in Nat, Tokens(s.window) <= used
  PROVE  Bound(s, used) <= Total \/ Bound(s, used) = s.lower
<1> DEFINE tokens == Tokens(s.window)
<1>1. tokens \in Nat /\ tokens <= used
  BY EntrySets
<1> HIDE DEF tokens
<1>2. CASE used >= 1
  <2>1. (tokens * Total) \div used <= Total /\ (9 * tokens * Total) \div (10 * used) <= Total
    BY <1>1, <1>2, AtMostTotal
  <2> QED BY <2>1 DEF Bound, Most, tokens
<1>3. CASE used = 0
  <2>1. 100 * used < 5 * Total /\ ~(100 * used >= 95 * Total)
    BY <1>3, Constants
  <2> QED BY <2>1 DEF Bound
<1> QED BY <1>2, <1>3

LEMMA UsageInit == Init => UsageInv
BY DEF Init, UsageInv

LEMMA UsageNext == TypeOK /\ UsageInv /\ [Next]_vars => UsageInv'
<1> SUFFICES ASSUME TypeOK, UsageInv, [Next]_vars PROVE UsageInv'
  OBVIOUS
<1> USE DEF poll, provider, xfactor, overlap
<1>1. ASSUME UNCHANGED <<poller, sample>>, cache' \in {cache, Blank} PROVE UsageInv'
  BY <1>1 DEF UsageInv
<1>2. CASE Ask
  <2>1. Spent(counted) \in Nat /\ external \in Nat
    BY RequestSets DEF TypeOK
  <2>2. Spent(sample'.seen) <= sample'.used
    BY <1>2, <2>1 DEF Ask
  <2> QED BY <1>2, <2>2 DEF Ask, UsageInv
<1>3. CASE Answered
  <2>1. poller' = "asleep"
    BY <1>3 DEF Answered, Sleeps
  <2>2. \/ cache' \in {cache, Blank}
        \/ poller = "asked" /\ cache'.seen = sample.seen /\ cache'.used = sample.used
    BY <1>3 DEF Answered, Cleaned
  <2> QED BY <2>1, <2>2 DEF UsageInv
<1>4. ASSUME NEW d \in Readers, RemoveStale(d) PROVE UsageInv'
  BY <1>1, <1>4 DEF RemoveStale
<1>5. CASE Restart
  BY <1>5 DEF Restart, UsageInv
<1>6. CASE UNCHANGED vars
  BY <1>1, <1>6 DEF vars
<1>7. CASE \E r \in Requests : Serve(r) \/ Save(r) \/ Count(r)
  BY <1>1, <1>7 DEF Serve, Save, Count
<1>8. CASE (\E d \in Readers : SeeStale(d)) \/ UseElsewhere \/ ResetWindow \/ Tick
  BY <1>1, <1>8 DEF SeeStale, UseElsewhere, ResetWindow, Tick
<1>9. CASE StartBuilding \/ Build \/ FailToBuild \/ Update \/ Persist
  BY <1>1, <1>9 DEF StartBuilding, Build, FailToBuild, Update, Persist
<1> QED BY <1>2, <1>3, <1>4, <1>5, <1>6, <1>7, <1>8, <1>9 DEF Next

LEMMA UsageHolds == Spec => []UsageInv
BY TypeCorrect, UsageInit, UsageNext, PTL DEF Spec

\* Every step that puts the lower bound above the capacity sets a usage against
\* tokens it does not count, that are counted twice or that weigh too much
\* (xfactor/state.rs: on_usage_poll; xfactor/mod.rs: update_from_usage_cache).
THEOREM LowerBoundSound == Spec => LowerBoundExplained
<1> DEFINE Raises == state'.lower > Total /\ state'.lower > Most(state.lower, stored)
           Excess == \E e \in state'.window : \/ e.of \notin cache.seen
                                              \/ InRows(e.of) /\ InState(e.of)
                                              \/ Weight[e.of] > Cost[e.of]
<1>1. ASSUME TypeOK, CountInv, UsageInv, [Next]_vars, Raises PROVE Excess
  <2> USE DEF poll, provider, xfactor, overlap
  <2>0. /\ state \in [known : BOOLEAN, window : SUBSET Entries, lower : Nat]
        /\ stored \in Nat
    BY <1>1 DEF TypeOK
  <2>1. ~(state'.lower \in {state.lower, stored, 0})
    BY <1>1, <2>0, Constants DEF Most
  <2>2. Update
    <3>1. \A r \in Requests : ~Serve(r) /\ ~Save(r) /\ ~Count(r)
      BY <2>0, <2>1 DEF Serve, Save, Count
    <3>2. \A d \in Readers : ~SeeStale(d) /\ ~RemoveStale(d)
      BY <2>1 DEF SeeStale, RemoveStale
    <3>3. ~UseElsewhere /\ ~ResetWindow /\ ~Ask /\ ~Answered /\ ~Tick
      BY <2>1 DEF UseElsewhere, ResetWindow, Ask, Answered, Tick
    <3>4. ~StartBuilding /\ ~Build /\ ~FailToBuild /\ ~Persist /\ ~Restart
      BY <2>1 DEF StartBuilding, Build, Restored, FailToBuild, Persist, Restart, NoState
    <3>5. ~(UNCHANGED vars)
      BY <2>1 DEF vars
    <3> QED BY <1>1, <3>1, <3>2, <3>3, <3>4, <3>5 DEF Next
  <2> DEFINE s == [state EXCEPT !.known = TRUE]
             e == [s EXCEPT !.window = Evicted(s.window)]
  <2>3. /\ s.lower = state.lower /\ e.lower = state.lower /\ e.window = Evicted(state.window)
        /\ e \in [known : BOOLEAN, window : SUBSET Entries, lower : Nat]
    BY <1>1, <2>0, WindowTypes
  <2>4. /\ cache # Blank /\ boot = "ready"
        /\ state' = [e EXCEPT !.lower = Bound(e, cache.used)]
    BY <2>1, <2>2, <2>3 DEF Update
  <2> HIDE DEF e
  <2>5. state'.window = e.window /\ state'.lower = Bound(e, cache.used)
    BY <2>3, <2>4
  <2>6. SUFFICES ASSUME ~Excess PROVE FALSE
    OBVIOUS
  <2>7. \A d \in e.window : d.of \in Requests
    BY <2>3 DEF Entries
  <2>8. \A d \in e.window : /\ d.of \in cache.seen /\ ~(InRows(d.of) /\ InState(d.of))
                            /\ Weight[d.of] <= Cost[d.of]
    <3>1. \A r \in Requests : Weight[r] \in Int /\ Cost[r] \in Int
      BY Constants
    <3> QED BY <2>5, <2>6, <2>7, <3>1
  <2>9. cache.seen \in SUBSET Requests /\ cache.used \in Nat
    BY <1>1, <2>4 DEF TypeOK, Usages
  <2>10. Tracks(e.window, row, ReadRows, told, now)
    BY <1>1, <2>0, <2>3, <2>4, EvictionTracks DEF CountInv
  <2>11. Tokens(e.window) <= Spent(cache.seen)
    BY <1>1, <2>3, <2>8, <2>9, <2>10, WindowWithinUsage
  <2>12. Tokens(e.window) <= cache.used
    <3>1. Spent(cache.seen) <= cache.used
      BY <1>1, <2>4 DEF UsageInv
    <3>2. Tokens(e.window) \in Nat /\ Spent(cache.seen) \in Nat
      BY <2>3, <2>9, EntrySets, RequestSets
    <3> QED BY <2>9, <2>11, <3>1, <3>2
  <2>13. Bound(e, cache.used) <= Total \/ Bound(e, cache.used) = state.lower
    <3>1. e.window \in SUBSET Entries /\ e.lower \in Nat /\ e.lower = state.lower
      BY <2>3
    <3> QED BY <2>9, <2>12, <3>1, BoundExplained
  <2>14. Bound(e, cache.used) \in Nat
    <3>1. e.window \in SUBSET Entries /\ e.lower \in Nat
      BY <2>3
    <3> QED BY <2>9, <3>1, BoundGrows
  <2> QED BY <1>1, <2>1, <2>5, <2>13, <2>14, Constants
<1>2. TypeOK /\ CountInv /\ UsageInv /\ [Next]_vars => [Raises => Excess]_vars
  BY <1>1
<1> QED BY <1>2, TypeCorrect, CountHolds, UsageHolds, PTL DEF Spec, LowerBoundExplained

-----------------------------------------------------------------------------
(* The persisted bound *)

\* The state has what was persisted, once it was restored.
StoredInv ==
  /\ boot = "starting" <=> built = "not"
  /\ built # "failed" /\ boot = "ready" => state.lower >= stored

LEMMA StoredInit == Init => StoredInv
BY DEF Init, StoredInv

LEMMA StoredNext == TypeOK /\ StoredInv /\ [Next]_vars => StoredInv'
<1> SUFFICES ASSUME TypeOK, StoredInv, [Next]_vars PROVE StoredInv'
  OBVIOUS
<1> USE DEF poll, provider, xfactor, overlap
<1>0. /\ state \in [known : BOOLEAN, window : SUBSET Entries, lower : Nat]
      /\ stored \in Nat
  BY DEF TypeOK
<1>1. ASSUME UNCHANGED <<boot, built, stored>>, state'.lower = state.lower PROVE StoredInv'
  BY <1>1 DEF StoredInv
<1>2. ASSUME NEW r \in Requests, Count(r) PROVE StoredInv'
  <2>1. state'.lower = state.lower
    BY <1>0, <1>2 DEF Count
  <2> QED BY <1>1, <1>2, <2>1 DEF Count
<1>3. CASE StartBuilding
  BY <1>3 DEF StartBuilding, StoredInv
<1>4. CASE Build
  BY <1>0, <1>4 DEF Build, Restored, StoredInv
<1>5. CASE FailToBuild
  BY <1>5 DEF FailToBuild, StoredInv
<1>6. CASE Update
  <2> DEFINE s == [state EXCEPT !.known = TRUE]
             e == [s EXCEPT !.window = Evicted(s.window)]
  <2>1. /\ s.lower = state.lower /\ e.lower = state.lower
        /\ e \in [known : BOOLEAN, window : SUBSET Entries, lower : Nat]
    BY <1>0, WindowTypes
  <2>2. state' = s \/ state' = [e EXCEPT !.lower = Bound(e, cache.used)]
    BY <1>6 DEF Update
  <2> HIDE DEF e
  <2>3. CASE state' = s
    BY <1>1, <1>6, <2>1, <2>3 DEF Update
  <2>4. CASE state' = [e EXCEPT !.lower = Bound(e, cache.used)] /\ state' # s
    <3>1. cache.used \in Nat
      BY <1>6, <2>4 DEF Update, TypeOK, Usages
    <3>2. Bound(e, cache.used) \in Nat /\ Bound(e, cache.used) >= e.lower
      BY <2>1, <3>1, BoundGrows
    <3>3. state'.lower >= state.lower /\ state'.lower \in Nat
      BY <2>1, <2>4, <3>2
    <3> QED BY <1>0, <1>6, <3>3 DEF Update, StoredInv
  <2> QED BY <2>2, <2>3, <2>4
<1>7. CASE Persist
  BY <1>0, <1>7 DEF Persist, StoredInv
<1>8. CASE Restart
  BY <1>8 DEF Restart, StoredInv
<1>9. CASE UNCHANGED vars
  BY <1>1, <1>9 DEF vars
<1>10. CASE \E r \in Requests : Serve(r) \/ Save(r)
  BY <1>1, <1>10 DEF Serve, Save
<1>11. CASE \E d \in Readers : SeeStale(d) \/ RemoveStale(d)
  BY <1>1, <1>11 DEF SeeStale, RemoveStale
<1>12. CASE UseElsewhere \/ ResetWindow \/ Ask \/ Answered \/ Tick
  BY <1>1, <1>12 DEF UseElsewhere, ResetWindow, Ask, Answered, Tick
<1> QED
  BY <1>2, <1>3, <1>4, <1>5, <1>6, <1>7, <1>8, <1>9, <1>10, <1>11, <1>12 DEF Next

\* The persisted bound never falls, over any number of restarts, in a process that
\* could read it when it started (xfactor/mod.rs: initialize_cache, persist_to_db).
THEOREM BoundKept == Spec => BoundUnlearned
<1>1. ASSUME TypeOK, StoredInv, [Next]_vars, stored' < stored PROVE built = "failed"
  <2> USE DEF poll, provider, xfactor, overlap
  <2>1. stored \in Nat /\ state.lower \in Nat /\ stored' # stored
    BY <1>1 DEF TypeOK
  <2>2. Persist
    <3>1. \A r \in Requests : ~Serve(r) /\ ~Save(r) /\ ~Count(r)
      BY <2>1 DEF Serve, Save, Count
    <3>2. \A d \in Readers : ~SeeStale(d) /\ ~RemoveStale(d)
      BY <2>1 DEF SeeStale, RemoveStale
    <3>3. ~UseElsewhere /\ ~ResetWindow /\ ~Ask /\ ~Answered /\ ~Tick
      BY <2>1 DEF UseElsewhere, ResetWindow, Ask, Answered, Tick
    <3>4. ~StartBuilding /\ ~Build /\ ~FailToBuild /\ ~Update /\ ~Restart
      BY <2>1 DEF StartBuilding, Build, FailToBuild, Update, Restart
    <3>5. ~(UNCHANGED vars)
      BY <2>1 DEF vars
    <3> QED BY <1>1, <3>1, <3>2, <3>3, <3>4, <3>5 DEF Next
  <2> QED BY <1>1, <2>1, <2>2 DEF Persist, StoredInv, TypeOK
<1>2. TypeOK /\ StoredInv /\ [Next]_vars => [stored' < stored => built = "failed"]_vars
  BY <1>1
<1> QED BY <1>2, TypeCorrect, StoredInit, StoredNext, PTL DEF Spec, BoundUnlearned
=============================================================================
