--------------------------- MODULE Routing_proofs ---------------------------
(***************************************************************************)
(* Theorems of Routing, for every number of accounts, every set of         *)
(* requests, usages and settings, and all periods.                         *)
(***************************************************************************)
EXTENDS Routing, FiniteSetTheorems, FunctionTheorems, SequenceTheorems, TLAPS

LEMMA Constants ==
  /\ N \in Nat /\ MaxAttempts \in Nat /\ MaxAttempts >= 1 /\ Wrap \in Nat /\ Wrap >= 1
  /\ CacheTTL \in Nat /\ Debounce \in Nat /\ Window \in Nat /\ Limit \in Nat
  /\ SessionDuration \in Nat
  /\ Changing \subseteq Accounts
BY RoutingAssumption

LEMMA AccountsFinite == IsFiniteSet(Accounts) /\ Cardinality(Accounts) = N
<1>1. /\ IsFiniteSet(1..N)
      /\ Cardinality(1..N) = IF 1 > N THEN 0 ELSE N - 1 + 1
  BY Constants, FS_Interval
<1> QED BY <1>1, Constants DEF Accounts

LEMMA SubsetFinite ==
  ASSUME NEW S \in SUBSET Accounts
  PROVE  IsFiniteSet(S) /\ Cardinality(S) \in 0..N
<1>1. IsFiniteSet(S) /\ Cardinality(S) <= Cardinality(Accounts)
  BY AccountsFinite, FS_Subset
<1> QED BY <1>1, AccountsFinite, FS_CardinalityType, Constants

-----------------------------------------------------------------------------
(* The order of sort_accounts_usage_aware *)

Usages == [Accounts -> UsageLevels \cup {Missing}]

(* The settings are those of a scene.                                      *)
PoolOK == \E C \in Scenes : pool = C.pool

LEMMA Priorities ==
  ASSUME PoolOK
  PROVE  /\ \A a \in Accounts : pool[a].priority \in Int
         /\ \A a, b \in Accounts : a < b => pool[a].priority <= pool[b].priority
BY RoutingAssumption DEF PoolOK

LEMMA UsageFacts ==
  ASSUME NEW u \in Usages, NEW a \in Accounts
  PROVE  u[a].resets \in Instants /\ AtReserve(a, u) \in BOOLEAN
<1>1. Missing.low \in BOOLEAN /\ Missing.resets \in Instants
  BY DEF Missing, Instants
<1>2. u[a].low \in BOOLEAN /\ u[a].resets \in Instants
  BY <1>1, RoutingAssumption DEF Usages
<1> QED BY <1>2 DEF AtReserve

(* Sooner is a strict order on instants, with None at the end.             *)
LEMMA SoonerOrder ==
  ASSUME NEW x \in Instants, NEW y \in Instants, NEW z \in Instants
  PROVE  /\ ~Sooner(x, x)
         /\ Sooner(x, y) => ~Sooner(y, x)
         /\ x = y \/ Sooner(x, y) \/ Sooner(y, x)
         /\ Sooner(x, y) /\ Sooner(y, z) => Sooner(x, z)
BY DEF Sooner, Instants, None

(* Before is a strict total order on the accounts.                         *)
LEMMA BeforeOrder ==
  ASSUME PoolOK, NEW u \in Usages,
         NEW a \in Accounts, NEW b \in Accounts, NEW c \in Accounts
  PROVE  /\ ~Before(a, a, u)
         /\ a = b \/ Before(a, b, u) \/ Before(b, a, u)
         /\ Before(a, b, u) /\ Before(b, c, u) => Before(a, c, u)
<1> DEFINE P(x) == pool[x].priority
           L(x) == AtReserve(x, u)
           R(x) == u[x].resets
<1>1. /\ P(a) \in Int /\ P(b) \in Int /\ P(c) \in Int
      /\ a \in Int /\ b \in Int /\ c \in Int
  BY Priorities DEF Accounts
<1>2. /\ R(a) \in Instants /\ R(b) \in Instants /\ R(c) \in Instants
      /\ L(a) \in BOOLEAN /\ L(b) \in BOOLEAN /\ L(c) \in BOOLEAN
  BY UsageFacts
<1>3. ASSUME NEW x, NEW y
      PROVE  Before(x, y, u) <=>
                \/ P(x) < P(y)
                \/ /\ P(x) = P(y)
                   /\ \/ ~L(x) /\ L(y)
                      \/ /\ L(x) = L(y)
                         /\ \/ Sooner(R(x), R(y))
                            \/ R(x) = R(y) /\ x < y
  BY DEF Before
<1> HIDE DEF P, L, R
<1>4. ~Before(a, a, u)
  BY <1>1, <1>2, <1>3, SoonerOrder
<1>5. a = b \/ Before(a, b, u) \/ Before(b, a, u)
  BY <1>1, <1>2, <1>3, SoonerOrder
<1>6. ASSUME Before(a, b, u), Before(b, c, u) PROVE Before(a, c, u)
  <2>1. /\ ~Sooner(R(a), R(a)) /\ (Sooner(R(a), R(b)) /\ Sooner(R(b), R(c)) => Sooner(R(a), R(c)))
    BY <1>2, SoonerOrder
  <2> QED BY <1>1, <1>2, <1>3, <1>6, <2>1
<1> QED BY <1>4, <1>5, <1>6

(* How many accounts of S come before a.                                   *)
Rank(a, S, u) == Cardinality({b \in S : Before(b, a, u)})

LEMMA RankFacts ==
  ASSUME PoolOK, NEW u \in Usages, NEW S \in SUBSET Accounts
  PROVE  /\ \A a \in S : Rank(a, S, u) \in 0..(Cardinality(S) - 1)
         /\ \A a, b \in S : Before(a, b, u) => Rank(a, S, u) < Rank(b, S, u)
         /\ \A a, b \in S : Rank(a, S, u) = Rank(b, S, u) => a = b
<1> DEFINE Pred(a) == {b \in S : Before(b, a, u)}
<1>1. ASSUME NEW a \in S PROVE Rank(a, S, u) \in 0..(Cardinality(S) - 1)
  <2>1. Pred(a) \in SUBSET (S \ {a})
    BY BeforeOrder
  <2>2. IsFiniteSet(S \ {a}) /\ Cardinality(S \ {a}) = Cardinality(S) - 1
    BY SubsetFinite, FS_RemoveElement
  <2>3. Cardinality(Pred(a)) <= Cardinality(S) - 1 /\ IsFiniteSet(Pred(a))
    BY <2>1, <2>2, FS_Subset
  <2>4. Cardinality(Pred(a)) \in Nat
    BY <2>3, FS_CardinalityType
  <2> QED BY <2>3, <2>4, SubsetFinite DEF Rank
<1>2. ASSUME NEW a \in S, NEW b \in S, Before(a, b, u) PROVE Rank(a, S, u) < Rank(b, S, u)
  <2>1. Pred(a) \in SUBSET Pred(b)
    BY <1>2, BeforeOrder
  <2>2. a \in Pred(b) /\ a \notin Pred(a)
    BY <1>2, BeforeOrder
  <2>3. IsFiniteSet(Pred(b))
    BY SubsetFinite
  <2>4. Cardinality(Pred(a)) <= Cardinality(Pred(b)) /\ Cardinality(Pred(a)) # Cardinality(Pred(b))
    BY <2>1, <2>2, <2>3, FS_Subset
  <2> QED BY <1>1, <2>4 DEF Rank
<1>3. ASSUME NEW a \in S, NEW b \in S, Rank(a, S, u) = Rank(b, S, u) PROVE a = b
  BY <1>1, <1>2, <1>3, BeforeOrder
<1> QED BY <1>1, <1>2, <1>3

(* What a sort returns: all of S, each once, none after one it precedes.   *)
Arranged(s, S, u) ==
  /\ s \in [1..Cardinality(S) -> S]
  /\ \A j, k \in 1..Cardinality(S) : s[j] = s[k] => j = k
  /\ \A a \in S : \E k \in 1..Cardinality(S) : s[k] = a
  /\ \A j, k \in 1..Cardinality(S) : j < k => Before(s[j], s[k], u)

LEMMA SortedArranges ==
  ASSUME PoolOK, NEW u \in Usages, NEW S \in SUBSET Accounts
  PROVE  Arranged(Sorted(S, u), S, u) /\ \A k \in 1..Cardinality(S) : Rank(Sorted(S, u)[k], S, u) = k - 1
<1> DEFINE n == Cardinality(S)
           f == [a \in S |-> Rank(a, S, u)]
           s == Sorted(S, u)
<1>1. n \in Nat /\ IsFiniteSet(S)
  BY SubsetFinite
<1>2. f \in [S -> 0..(n - 1)] /\ \A a, b \in S : f[a] = f[b] => a = b
  BY RankFacts
<1>3. IsFiniteSet(0..(n - 1)) /\ Cardinality(0..(n - 1)) = n
  <2>1. /\ IsFiniteSet(0..(n - 1))
        /\ Cardinality(0..(n - 1)) = IF 0 > n - 1 THEN 0 ELSE n - 1 - 0 + 1
    BY <1>1, FS_Interval
  <2> QED BY <1>1, <2>1
<1>4. f \in Injection(S, 0..(n - 1))
  BY <1>2, Fun_IsInj
<1>5. f \in Surjection(S, 0..(n - 1))
  BY <1>3, <1>4, FS_Injection
<1>6. \A t \in 0..(n - 1) : \E a \in S : f[a] = t
  <2>1. ASSUME NEW F, F \in Surjection(S, 0..(n - 1))
        PROVE  \A t \in 0..(n - 1) : \E a \in S : F[a] = t
    BY <2>1 DEF Surjection
  <2> QED BY <1>5, <2>1
<1>7. ASSUME NEW k \in 1..n PROVE s[k] \in S /\ Rank(s[k], S, u) = k - 1
  <2>1. \E a \in S : Rank(a, S, u) = k - 1
    BY <1>1, <1>6
  <2>2. s[k] = CHOOSE a \in S : Rank(a, S, u) = k - 1
    BY DEF Sorted, Rank
  <2> QED BY <2>1, <2>2
<1>8. s \in [1..n -> S]
  BY <1>7 DEF Sorted
<1>9. \A j, k \in 1..n : s[j] = s[k] => j = k
  BY <1>1, <1>7
<1>10. ASSUME NEW a \in S PROVE \E k \in 1..n : s[k] = a
  <2>1. Rank(a, S, u) \in 0..(n - 1)
    BY RankFacts
  <2>2. Rank(a, S, u) + 1 \in 1..n
    BY <1>1, <2>1
  <2>3. s[Rank(a, S, u) + 1] \in S /\ Rank(s[Rank(a, S, u) + 1], S, u) = Rank(a, S, u)
    BY <1>1, <1>7, <2>1, <2>2
  <2>4. s[Rank(a, S, u) + 1] = a
    BY <2>3, RankFacts
  <2> QED BY <2>2, <2>4
<1>11. ASSUME NEW j \in 1..n, NEW k \in 1..n, j < k PROVE Before(s[j], s[k], u)
  <2>1. s[j] \in S /\ s[k] \in S /\ Rank(s[j], S, u) = j - 1 /\ Rank(s[k], S, u) = k - 1
    BY <1>7
  <2>2. s[j] # s[k] /\ ~Before(s[k], s[j], u)
    BY <1>1, <1>11, <2>1, RankFacts
  <2> QED BY <2>1, <2>2, BeforeOrder
<1> QED BY <1>7, <1>8, <1>9, <1>10, <1>11 DEF Arranged

LEMMA EarlierIsHigher ==
  ASSUME PoolOK, NEW u \in Usages, NEW S \in SUBSET Accounts, NEW s, Arranged(s, S, u),
         NEW j \in 1..Cardinality(S), NEW k \in 1..Cardinality(S), j < k
  PROVE  pool[s[j]].priority <= pool[s[k]].priority
<1>1. s[j] \in Accounts /\ s[k] \in Accounts /\ Before(s[j], s[k], u)
  BY DEF Arranged
<1> QED BY <1>1, Priorities DEF Before

-----------------------------------------------------------------------------
(* What select chooses *)

(* The places of a tier come first.                                        *)
LEMMA TierComesFirst ==
  ASSUME PoolOK, NEW u \in Usages, NEW S \in SUBSET Accounts,
         NEW k \in 1..Cardinality(S), k <= Cardinality(TopTier(S)) \/ k = 1
  PROVE  Sorted(S, u)[k] \in TopTier(S)
<1> DEFINE s == Sorted(S, u)
           a == s[k]
<1>1. /\ Arranged(s, S, u) /\ a \in S /\ Rank(a, S, u) = k - 1
      /\ Cardinality(S) \in Nat
  BY SortedArranges, SubsetFinite DEF Arranged
<1> SUFFICES ASSUME a \notin TopTier(S) PROVE FALSE
  OBVIOUS
<1>2. PICK c \in S : ~(pool[a].priority <= pool[c].priority)
  BY <1>1 DEF TopTier
<1>3. k # 1
  <2>1. PICK j \in 1..Cardinality(S) : s[j] = c
    BY <1>1 DEF Arranged
  <2>2. k = 1 => j = 1 \/ k < j
    BY <1>1, <2>1
  <2>3. k = 1 /\ j # 1 => pool[a].priority <= pool[c].priority
    BY <1>1, <2>1, <2>2, EarlierIsHigher
  <2>4. pool[a].priority \in Int
    BY <1>1, Priorities
  <2> QED BY <1>2, <2>1, <2>2, <2>3, <2>4
<1>4. TopTier(S) \in SUBSET {b \in S : Before(b, a, u)}
  <2>1. ASSUME NEW b \in TopTier(S) PROVE b \in S /\ pool[b].priority < pool[a].priority
    <3>1. b \in S /\ pool[b].priority <= pool[c].priority
      BY <2>1, <1>2 DEF TopTier
    <3>2. pool[a].priority \in Int /\ pool[b].priority \in Int /\ pool[c].priority \in Int
      BY <1>1, <1>2, <3>1, Priorities
    <3> QED BY <1>2, <3>1, <3>2
  <2> QED BY <2>1 DEF Before
<1>5. Cardinality(TopTier(S)) <= k - 1
  <2>1. IsFiniteSet({b \in S : Before(b, a, u)})
    BY SubsetFinite
  <2> QED BY <1>1, <1>4, <2>1, FS_Subset DEF Rank
<1>6. TopTier(S) \in SUBSET Accounts
  BY DEF TopTier
<1>7. Cardinality(TopTier(S)) \in Nat
  BY <1>6, SubsetFinite
<1> QED BY <1>1, <1>3, <1>5, <1>7

(* A turn falls to a place of the tier.                                    *)
LEMMA TurnInTier ==
  ASSUME NEW S \in SUBSET Accounts, S # {}, counter \in Nat
  PROVE  /\ Turn(S) \in 1..Cardinality(S)
         /\ Turn(S) <= Cardinality(TopTier(S)) \/ Turn(S) = 1
<1>1. TopTier(S) \in SUBSET S
  BY DEF TopTier
<1>2. /\ IsFiniteSet(S) /\ Cardinality(S) \in Nat /\ Cardinality(TopTier(S)) \in Nat
      /\ Cardinality(TopTier(S)) <= Cardinality(S)
  BY <1>1, SubsetFinite, FS_Subset
<1>3. Cardinality(S) >= 1
  BY <1>2, FS_EmptySet
<1>4. CASE TakeTurns(S)
  <2>1. Cardinality(TopTier(S)) > 1
    BY <1>4 DEF TakeTurns
  <2>2. counter % Cardinality(TopTier(S)) \in 0..(Cardinality(TopTier(S)) - 1)
    BY <1>2, <2>1
  <2> QED BY <1>2, <1>4, <2>1, <2>2 DEF Turn
<1>5. CASE ~TakeTurns(S)
  BY <1>2, <1>3, <1>5 DEF Turn
<1> QED BY <1>4, <1>5

(* There is at most one holder of a session.                               *)
LEMMA OneHolder ==
  ASSUME NEW rows \in Rows, NEW t \in Nat,
         NEW a \in Holders(rows, t), NEW b \in Holders(rows, t)
  PROVE  a = b
<1>1. /\ a \in Accounts /\ b \in Accounts /\ a \in Int /\ b \in Int
  BY DEF Holders, Accounts
<1>2. /\ rows[a].start \in Instants /\ rows[b].start \in Instants
  BY <1>1 DEF Rows
<1>3. /\ \/ rows[b].start < rows[a].start
         \/ rows[b].start = rows[a].start /\ b <= a
      /\ \/ rows[a].start < rows[b].start
         \/ rows[a].start = rows[b].start /\ a <= b
  BY DEF Holders
<1> QED BY <1>1, <1>2, <1>3 DEF Instants, None

(* The account to begin with is open, and there is a reason for it.        *)
Reason(first, m, rows, S, t) ==
  \/ first = m.pin
  \/ \E a \in S : pool[a].fallback /\ Passed(rows[a].reset, t)
  \/ pool[first].provider = "anthropic" /\ Running(rows[first], t)
  \/ first \in TopTier(S)

LEMMA FirstHasReason ==
  ASSUME PoolOK, NEW u \in Usages, NEW rows \in Rows, NEW t \in Nat, NEW m,
         NEW S \in SUBSET Accounts, counter \in Nat,
         Rule(m, rows, S, t) # "unavailable"
  PROVE  LET first == First(Rule(m, rows, S, t), m, rows, u, S, t) IN
         first \in S /\ Reason(first, m, rows, S, t)
<1>1. CASE m.pin \in S
  BY <1>1 DEF Rule, First, Reason
<1>2. CASE m.pin \notin S
  <2>1. ~(m.strict /\ Here(rows, m.pin))
    BY <1>2 DEF Rule
  <2>2. Rule(m, rows, S, t) = IF Recovered(rows, S, t) # {} THEN "fallback"
                              ELSE IF Holders(rows, t) \cap S # {} THEN "session"
                              ELSE IF S # {} THEN "priority" ELSE "unavailable"
    BY <1>2, <2>1 DEF Rule
  <2>3. CASE Recovered(rows, S, t) # {}
    <3>1. First(Rule(m, rows, S, t), m, rows, u, S, t) = CHOOSE a \in Recovered(rows, S, t) : TRUE
      BY <2>2, <2>3 DEF First
    <3>2. First(Rule(m, rows, S, t), m, rows, u, S, t) \in Recovered(rows, S, t)
      BY <2>3, <3>1
    <3> QED BY <3>2 DEF Recovered, Reason
  <2>4. CASE Recovered(rows, S, t) = {} /\ Holders(rows, t) \cap S # {}
    <3>1. First(Rule(m, rows, S, t), m, rows, u, S, t) = CHOOSE a \in Holders(rows, t) : TRUE
      BY <2>2, <2>4 DEF First
    <3>2. First(Rule(m, rows, S, t), m, rows, u, S, t) \in Holders(rows, t) \cap S
      BY <2>4, <3>1, OneHolder
    <3> QED BY <3>2 DEF Holders, Anthropic, Running, Reason
  <2>5. CASE Recovered(rows, S, t) = {} /\ Holders(rows, t) \cap S = {}
    <3>1. S # {}
      BY <2>2, <2>5
    <3>2. First(Rule(m, rows, S, t), m, rows, u, S, t) = Sorted(S, u)[Turn(S)]
      BY <2>2, <2>5, <3>1 DEF First
    <3>3. Sorted(S, u)[Turn(S)] \in TopTier(S)
      BY <3>1, TurnInTier, TierComesFirst
    <3> QED BY <3>2, <3>3 DEF TopTier, Reason
  <2> QED BY <2>3, <2>4, <2>5
<1> QED BY <1>1, <1>2

-----------------------------------------------------------------------------
(* The list of accounts to try *)

(* Every account on it is there once.                                      *)
GoodOrder(o) ==
  /\ o \in Seq(Accounts)
  /\ Len(o) <= N
  /\ \A j, k \in 1..Len(o) : o[j] = o[k] => j = k

LEMMA EmptyOrder == GoodOrder(<<>>)
<1>1. <<>> \in Seq(Accounts) /\ Len(<<>>) = 0
  BY EmptySeq
<1> QED BY <1>1, Constants DEF GoodOrder

LEMMA Prepended ==
  ASSUME NEW A, NEW a \in A, NEW s \in Seq(A)
  PROVE  /\ <<a>> \o s \in Seq(A) /\ Len(<<a>> \o s) = 1 + Len(s)
         /\ \A k \in 1..(1 + Len(s)) : (<<a>> \o s)[k] = IF k = 1 THEN a ELSE s[k - 1]
<1>1. <<a>> \in Seq(A) /\ Len(<<a>>) = 1 /\ <<a>>[1] = a
  OBVIOUS
<1>2. /\ <<a>> \o s \in Seq(A) /\ Len(<<a>> \o s) = Len(<<a>>) + Len(s)
      /\ \A k \in 1..(Len(<<a>>) + Len(s)) :
            (<<a>> \o s)[k] = IF k <= Len(<<a>>) THEN <<a>>[k] ELSE s[k - Len(<<a>>)]
  BY <1>1, ConcatProperties
<1>3. Len(s) \in Nat
  BY LenProperties
<1> QED BY <1>1, <1>2, <1>3

(* o is an account of S before a list s of the others.                     *)
Begins(o, first, s, n, S) ==
  /\ S \in SUBSET Accounts /\ first \in S /\ n \in Nat /\ n + 1 <= N
  /\ s \in [1..n -> S \ {first}]
  /\ \A j, k \in 1..n : s[j] = s[k] => j = k
  /\ \A a \in S \ {first} : \E k \in 1..n : s[k] = a
  /\ o \in Seq(Accounts) /\ Len(o) = 1 + n
  /\ \A k \in 1..(1 + n) : o[k] = IF k = 1 THEN first ELSE s[k - 1]

LEMMA FirstOfAll ==
  ASSUME NEW o, NEW first, NEW s, NEW n, NEW S, Begins(o, first, s, n, S)
  PROVE  GoodOrder(o) /\ {o[k] : k \in DOMAIN o} = S
<1> USE DEF Begins
<1>1. \A k \in 1..(1 + n) : k = 1 \/ (k - 1 \in 1..n /\ o[k] = s[k - 1] /\ o[k] \in S \ {first})
  OBVIOUS
<1>2. ASSUME NEW j \in 1..(1 + n), NEW k \in 1..(1 + n), o[j] = o[k] PROVE j = k
  <2>1. o[1] = first /\ 1 \in 1..(1 + n)
    OBVIOUS
  <2>2. CASE j = 1 \/ k = 1
    BY <1>1, <1>2, <2>1, <2>2
  <2>3. CASE j # 1 /\ k # 1
    <3>1. s[j - 1] = s[k - 1] /\ j - 1 \in 1..n /\ k - 1 \in 1..n
      BY <1>1, <1>2, <2>3
    <3>2. j - 1 = k - 1
      BY <3>1
    <3> QED BY <3>2
  <2> QED BY <2>2, <2>3
<1>3. GoodOrder(o)
  BY <1>2, Constants DEF GoodOrder
<1>4. DOMAIN o = 1..(1 + n)
  BY LenProperties
<1>5. ASSUME NEW a \in S PROVE \E k \in DOMAIN o : o[k] = a
  <2>1. CASE a = first
    BY <1>4, <2>1
  <2>2. CASE a # first
    <3>1. PICK k \in 1..n : s[k] = a
      BY <2>2
    <3>2. k + 1 \in 1..(1 + n) /\ k + 1 # 1 /\ (k + 1) - 1 = k
      OBVIOUS
    <3>3. o[k + 1] = a
      BY <3>1, <3>2
    <3> QED BY <1>4, <3>2, <3>3
  <2> QED BY <2>1, <2>2
<1>6. \A k \in DOMAIN o : o[k] \in S
  BY <1>1, <1>4
<1> QED BY <1>3, <1>5, <1>6

(* The first of all, then the rest as it is sorted.                        *)
Lists(o, first, S) ==
  /\ GoodOrder(o)
  /\ Len(o) >= 1 /\ o[1] = first
  /\ {o[k] : k \in DOMAIN o} = S
  /\ \A j, k \in 2..Len(o) : j < k => pool[o[j]].priority <= pool[o[k]].priority

LEMMA FirstThenSorted ==
  ASSUME PoolOK, NEW u \in Usages, NEW S \in SUBSET Accounts, NEW first \in S
  PROVE  Lists(<<first>> \o Sorted(S \ {first}, u), first, S)
<1>1. S \ {first} \in SUBSET Accounts /\ first \in Accounts
  OBVIOUS
<1>2. PICK s : s = Sorted(S \ {first}, u)
  OBVIOUS
<1>3. Arranged(s, S \ {first}, u)
  BY <1>1, <1>2, SortedArranges
<1>4. PICK n : n = Cardinality(S \ {first})
  OBVIOUS
<1>5. n \in Nat /\ n + 1 <= N
  <2>1. IsFiniteSet(S) /\ Cardinality(S) \in 0..N
    BY SubsetFinite
  <2>2. Cardinality(S \ {first}) = Cardinality(S) - 1
    BY <2>1, FS_RemoveElement
  <2>3. n \in Nat
    BY <1>1, <1>4, SubsetFinite
  <2> QED BY <1>4, <2>1, <2>2, <2>3, Constants
<1>6. /\ s \in [1..n -> S \ {first}]
      /\ \A j, k \in 1..n : s[j] = s[k] => j = k
      /\ \A a \in S \ {first} : \E k \in 1..n : s[k] = a
  BY <1>3, <1>4 DEF Arranged
<1>7. s \in Seq(Accounts) /\ Len(s) = n
  BY <1>1, <1>5, <1>6
<1>8. PICK o : o = <<first>> \o s
  OBVIOUS
<1>9. /\ o \in Seq(Accounts) /\ Len(o) = 1 + n
      /\ \A k \in 1..(1 + n) : o[k] = IF k = 1 THEN first ELSE s[k - 1]
  BY <1>1, <1>7, <1>8, Prepended
<1>10. GoodOrder(o) /\ {o[k] : k \in DOMAIN o} = S
  <2>1. Begins(o, first, s, n, S)
    BY <1>5, <1>6, <1>9 DEF Begins
  <2> QED BY <2>1, FirstOfAll
<1>11. ASSUME NEW j \in 2..Len(o), NEW k \in 2..Len(o), j < k
       PROVE  pool[o[j]].priority <= pool[o[k]].priority
  <2>1. j - 1 \in 1..n /\ k - 1 \in 1..n /\ j - 1 < k - 1 /\ o[j] = s[j - 1] /\ o[k] = s[k - 1]
    BY <1>5, <1>9, <1>11
  <2>2. pool[s[j - 1]].priority <= pool[s[k - 1]].priority
    BY <1>1, <1>3, <1>4, <2>1, EarlierIsHigher
  <2> QED BY <2>1, <2>2
<1>12. Len(o) >= 1 /\ o[1] = first
  BY <1>5, <1>9
<1> QED BY <1>2, <1>8, <1>10, <1>11, <1>12 DEF Lists

(* Nothing but a strict pin.                                               *)
LEMMA FirstAlone ==
  ASSUME NEW a \in Accounts
  PROVE  GoodOrder(<<a>> \o <<>>) /\ <<a>> \o <<>> = <<a>>
<1>1. <<a>> \in Seq(Accounts) /\ Len(<<a>>) = 1
  OBVIOUS
<1>2. <<a>> \o <<>> = <<a>>
  BY <1>1, ConcatEmptySeq
<1>3. N >= 1
  BY Constants DEF Accounts
<1> QED BY <1>1, <1>2, <1>3 DEF GoodOrder

-----------------------------------------------------------------------------
(* A request *)

Providers == {C.pool[a].provider : C \in Scenes, a \in Accounts}

Request ==
  [pc : {"idle", "reading", "storing", "trying", "unavailable", "served", "failed"},
   now : Nat, meta : Metas \cup {NoMeta}, rows : Rows \cup {NoRows},
   order : Seq(Accounts), i : Nat, refused : SUBSET Providers,
   got : [Accounts -> {"none", "limited", "other"}]]

Limit1(o) == IF Len(o) < MaxAttempts THEN Len(o) ELSE MaxAttempts

(* The verdict on the k-th account of the list, and what its provider says *)
(* before that.                                                            *)
Got(q, k) == q.got[q.order[k]]
ProviderOf(q, k) == pool[q.order[k]].provider
RefusedBefore(q, k) ==
  \E j \in 1..(k - 1) : Got(q, j) = "limited" /\ ProviderOf(q, j) = ProviderOf(q, k)

(* Behind it the request has answers or providers at rest, ahead nothing;  *)
(* a provider is at rest exactly when it answered 429 to this request.     *)
Tried(q) ==
  /\ q.i >= 1
  /\ \A k \in 1..Len(q.order) : k < q.i => Got(q, k) \in {"limited", "other"} \/ RefusedBefore(q, k)
  /\ \A k \in 1..Len(q.order) : k >= q.i => Got(q, k) = "none"
  /\ \A k \in 1..Len(q.order) : Got(q, k) = "limited" => ProviderOf(q, k) \in q.refused
  /\ \A p \in q.refused :
        \E k \in 1..Len(q.order) : k < q.i /\ Got(q, k) = "limited" /\ ProviderOf(q, k) = p
  /\ \A k \in 1..Len(q.order) : RefusedBefore(q, k) => Got(q, k) = "none"

Sound(q) ==
  /\ q \in Request
  /\ GoodOrder(q.order)
  /\ q.pc = "storing" => q.rows \in Rows
  /\ q.pc = "trying" => q.i \in 1..Limit1(q.order)
  /\ q.pc = "failed" => q.i > Limit1(q.order)
  /\ Tried(q)

LEMMA IdleSound ==
  ASSUME NEW p \in {"idle", "reading", "unavailable", "served"}, NEW t \in Nat,
         NEW m \in Metas \cup {NoMeta}
  PROVE  Sound([Idle EXCEPT !.pc = p, !.now = t, !.meta = m])
<1> DEFINE q == [Idle EXCEPT !.pc = p, !.now = t, !.meta = m]
<1>1. q \in Request
  BY EmptyOrder DEF Idle, Request, GoodOrder
<1>2. /\ q.pc = p /\ q.order = <<>> /\ q.i = 1 /\ q.refused = {}
  BY DEF Idle
<1>3. Len(<<>>) = 0 /\ GoodOrder(<<>>)
  BY EmptyOrder
<1> HIDE DEF q
<1>4. Tried(q)
  BY <1>2, <1>3 DEF Tried
<1>5. Sound(q)
  BY <1>1, <1>2, <1>3, <1>4 DEF Sound
<1> QED BY <1>5 DEF q

(* A request with no list.                                                 *)
LEMMA EmptySound ==
  /\ Sound(Idle)
  /\ Sound([Idle EXCEPT !.pc = "served"])
<1>1. ASSUME NEW q \in Request, q.pc \in {"idle", "served"}, q.order = <<>>, q.i = 1, q.refused = {}
      PROVE  Sound(q)
  <2>1. Len(<<>>) = 0 /\ GoodOrder(<<>>)
    BY EmptyOrder
  <2>2. Tried(q)
    BY <1>1, <2>1 DEF Tried
  <2> QED BY <1>1, <2>1, <2>2 DEF Sound
<1> DEFINE z == [Idle EXCEPT !.pc = "served"]
<1>2. <<>> \in Seq(Accounts) /\ NoRows \in Rows \cup {NoRows}
  OBVIOUS
<1>3. Idle \in Request /\ Idle.pc = "idle" /\ Idle.order = <<>> /\ Idle.i = 1 /\ Idle.refused = {}
  BY <1>2 DEF Idle, Request
<1>4. z \in Request /\ z.pc = "served" /\ z.order = <<>> /\ z.i = 1 /\ z.refused = {}
  BY <1>3 DEF Request
<1> HIDE DEF z
<1>5. Sound(Idle) /\ Sound(z)
  BY <1>1, <1>3, <1>4
<1> QED BY <1>5 DEF z

LEMMA FreshSound ==
  ASSUME NEW o, GoodOrder(o), Len(o) >= 1, NEW t \in Nat, NEW m \in Metas \cup {NoMeta}
  PROVE  Sound([Idle EXCEPT !.pc = "trying", !.now = t, !.meta = m, !.order = o])
<1> DEFINE q == [Idle EXCEPT !.pc = "trying", !.now = t, !.meta = m, !.order = o]
<1>1. q \in Request
  BY DEF Idle, Request, GoodOrder
<1>2. /\ q.pc = "trying" /\ q.order = o /\ q.i = 1 /\ q.refused = {}
      /\ \A a \in Accounts : q.got[a] = "none"
  BY DEF Idle
<1>3. Len(o) \in Nat /\ \A k \in 1..Len(o) : o[k] \in Accounts
  BY LenProperties, ElementOfSeq DEF GoodOrder
<1> HIDE DEF q
<1>4. \A k \in 1..Len(o) : Got(q, k) = "none"
  BY <1>2, <1>3 DEF Got
<1>5. \A k \in 1..Len(o) : k < 1 => FALSE
  BY <1>3
<1>6. Tried(q)
  BY <1>2, <1>3, <1>4, <1>5 DEF Tried
<1>7. q.i \in 1..Limit1(o)
  BY <1>2, <1>3, Constants DEF Limit1
<1>8. Sound(q)
  BY <1>1, <1>2, <1>6, <1>7 DEF Sound
<1> QED BY <1>8 DEF q

(* The request goes on after it skipped an account.                        *)
LEMMA SkipSound ==
  ASSUME NEW q, Sound(q), q.pc = "trying", ProviderOf(q, q.i) \in q.refused
  PROVE  Sound(After(q, Limit1(q.order)))
<1> DEFINE n == Limit1(q.order)
           z == After(q, n)
<1>1. q \in Request /\ GoodOrder(q.order) /\ q.i \in 1..n /\ Tried(q)
  BY DEF Sound
<1>2. n \in Nat /\ n <= Len(q.order) /\ Len(q.order) \in Nat
  BY <1>1, LenProperties, Constants DEF Limit1, GoodOrder
<1>3. z = [q EXCEPT !.i = q.i + 1, !.pc = IF q.i < n THEN "trying" ELSE "failed",
                    !.now = 0, !.meta = NoMeta]
  BY <1>1 DEF After, Request
<1> HIDE DEF z, n
<1>4. z \in Request
  <2>1. q.i + 1 \in Nat /\ 0 \in Nat /\ NoMeta \in Metas \cup {NoMeta}
    BY <1>1, <1>2
  <2>2. (IF q.i < n THEN "trying" ELSE "failed") \in {"trying", "failed"}
    OBVIOUS
  <2> QED BY <1>1, <1>3, <2>1, <2>2 DEF Request
<1>5. /\ z.order = q.order /\ z.i = q.i + 1 /\ z.got = q.got /\ z.refused = q.refused
      /\ z.pc = IF q.i < n THEN "trying" ELSE "failed"
  BY <1>1, <1>3 DEF Request
<1>6. \A k : Got(z, k) = Got(q, k) /\ ProviderOf(z, k) = ProviderOf(q, k)
              /\ (RefusedBefore(z, k) <=> RefusedBefore(q, k))
  BY <1>5 DEF Got, ProviderOf, RefusedBefore
<1>7. RefusedBefore(q, q.i)
  BY <1>1, <1>2 DEF Tried, RefusedBefore
<1>8. Tried(z)
  BY <1>1, <1>2, <1>5, <1>6, <1>7 DEF Tried
<1>9. Sound(z)
  BY <1>1, <1>2, <1>4, <1>5, <1>8 DEF Sound, n
<1> QED BY <1>9 DEF z, n

(* And after an account that gave nothing.                                 *)
LEMMA AskedSound ==
  ASSUME PoolOK, NEW q, Sound(q), q.pc = "trying", ProviderOf(q, q.i) \notin q.refused,
         NEW v \in {"limited", "other"}
  PROVE  Sound(After([q EXCEPT !.got[q.order[q.i]] = v,
                               !.refused = IF v = "limited" THEN @ \cup {pool[q.order[q.i]].provider}
                                           ELSE @],
                     Limit1(q.order)))
<1> DEFINE n == Limit1(q.order)
           a == q.order[q.i]
           y == [q EXCEPT !.got[a] = v,
                          !.refused = IF v = "limited" THEN @ \cup {pool[a].provider} ELSE @]
           z == After(y, n)
<1>1. q \in Request /\ GoodOrder(q.order) /\ q.i \in 1..n /\ Tried(q)
  BY DEF Sound
<1>2. n \in Nat /\ n <= Len(q.order) /\ Len(q.order) \in Nat
      /\ \A k \in 1..Len(q.order) : q.order[k] \in Accounts
  BY <1>1, LenProperties, ElementOfSeq, Constants DEF Limit1, GoodOrder
<1>3. a \in Accounts /\ pool[a].provider \in Providers
  BY <1>1, <1>2 DEF PoolOK, Providers
<1>4. /\ y \in Request /\ y.order = q.order /\ y.i = q.i
      /\ y.got = [q.got EXCEPT ![a] = v]
      /\ y.refused = IF v = "limited" THEN q.refused \cup {pool[a].provider} ELSE q.refused
  BY <1>1, <1>3 DEF Request
<1> HIDE DEF y
<1>5. z = [y EXCEPT !.i = y.i + 1, !.pc = IF y.i < n THEN "trying" ELSE "failed",
                    !.now = 0, !.meta = NoMeta]
  BY <1>4 DEF After, Request
<1> HIDE DEF z, n
<1>6. z \in Request
  <2>1. y.i + 1 \in Nat /\ 0 \in Nat /\ NoMeta \in Metas \cup {NoMeta}
    BY <1>1, <1>2, <1>4
  <2>2. (IF y.i < n THEN "trying" ELSE "failed") \in {"trying", "failed"}
    OBVIOUS
  <2> QED BY <1>4, <1>5, <2>1, <2>2 DEF Request
<1>7. /\ z.order = q.order /\ z.i = q.i + 1 /\ z.got = y.got /\ z.refused = y.refused
      /\ z.pc = IF q.i < n THEN "trying" ELSE "failed"
  BY <1>4, <1>5 DEF Request
<1>8. \A k \in 1..Len(q.order) :
        /\ Got(z, k) = IF k = q.i THEN v ELSE Got(q, k)
        /\ ProviderOf(z, k) = ProviderOf(q, k)
  <2>1. \A k \in 1..Len(q.order) : q.order[k] = a => k = q.i
    BY <1>1, <1>2 DEF GoodOrder
  <2>2. q.got \in [Accounts -> {"none", "limited", "other"}]
    BY <1>1 DEF Request
  <2> QED BY <1>2, <1>4, <1>7, <2>1, <2>2 DEF Got, ProviderOf
<1>9. q.i \in 1..Len(q.order) /\ pool[a].provider = ProviderOf(q, q.i)
  BY <1>1, <1>2 DEF ProviderOf
<1>10. \A k \in 1..Len(q.order) : k < q.i => Got(z, k) = Got(q, k) /\ (RefusedBefore(z, k) <=> RefusedBefore(q, k))
  BY <1>2, <1>8, <1>9 DEF RefusedBefore
<1>11. ASSUME NEW k \in 1..Len(z.order), k < z.i
       PROVE  Got(z, k) \in {"limited", "other"} \/ RefusedBefore(z, k)
  <2>1. k < q.i \/ k = q.i
    BY <1>1, <1>2, <1>7, <1>11
  <2> QED BY <1>1, <1>2, <1>7, <1>8, <1>9, <1>10, <2>1 DEF Tried
<1>12. ASSUME NEW k \in 1..Len(z.order), k >= z.i PROVE Got(z, k) = "none"
  BY <1>1, <1>2, <1>7, <1>8, <1>9, <1>12 DEF Tried
<1>13. ASSUME NEW k \in 1..Len(z.order), Got(z, k) = "limited" PROVE ProviderOf(z, k) \in z.refused
  BY <1>1, <1>4, <1>7, <1>8, <1>9, <1>13 DEF Tried
<1>14. ASSUME NEW p \in z.refused
       PROVE  \E k \in 1..Len(z.order) : k < z.i /\ Got(z, k) = "limited" /\ ProviderOf(z, k) = p
  <2>1. CASE p \in q.refused
    <3>1. PICK k \in 1..Len(q.order) : k < q.i /\ Got(q, k) = "limited" /\ ProviderOf(q, k) = p
      BY <1>1, <2>1 DEF Tried
    <3> QED BY <1>2, <1>7, <1>8, <1>9, <3>1
  <2>2. CASE p \notin q.refused
    BY <1>2, <1>4, <1>7, <1>8, <1>9, <1>14, <2>2
  <2> QED BY <2>1, <2>2
<1>15. ASSUME NEW k \in 1..Len(z.order), RefusedBefore(z, k) PROVE Got(z, k) = "none"
  <2>1. PICK j \in 1..(k - 1) : Got(z, j) = "limited" /\ ProviderOf(z, j) = ProviderOf(z, k)
    BY <1>15 DEF RefusedBefore
  <2>2. j \in 1..Len(q.order) /\ k \in 1..Len(q.order) /\ j < k
    BY <1>2, <1>7
  <2>3. ~(j > q.i) /\ (j = q.i \/ j < q.i)
    <3>1. j > q.i => Got(z, j) = "none"
      BY <1>1, <1>8, <1>9, <2>2 DEF Tried
    <3> QED BY <1>9, <2>1, <2>2, <3>1
  <2>4. CASE k > q.i
    BY <1>1, <1>8, <1>9, <2>2, <2>4 DEF Tried
  <2>5. CASE k <= q.i
    <3>1. j < q.i /\ Got(q, j) = "limited" /\ ProviderOf(q, j) = ProviderOf(q, k)
      BY <1>8, <1>9, <2>1, <2>2, <2>5
    <3>2. k # q.i
      BY <1>1, <2>2, <3>1 DEF Tried
    <3>3. RefusedBefore(q, k)
      BY <2>2, <3>1 DEF RefusedBefore
    <3> QED BY <1>1, <1>8, <2>2, <3>2, <3>3 DEF Tried
  <2> QED BY <1>9, <2>2, <2>4, <2>5
<1>16. Tried(z)
  BY <1>7, <1>9, <1>11, <1>12, <1>13, <1>14, <1>15 DEF Tried
<1>17. z.pc = "trying" => z.i \in 1..Limit1(z.order)
  BY <1>1, <1>2, <1>7 DEF n
<1>18. z.pc = "failed" => z.i > Limit1(z.order)
  BY <1>1, <1>2, <1>7 DEF n
<1>19. Sound(z)
  BY <1>1, <1>6, <1>7, <1>16, <1>17, <1>18 DEF Sound
<1> QED BY <1>19 DEF z, y, n

-----------------------------------------------------------------------------
(* The inductive invariant *)

Writes == [kind : {"session", "limit", "status", "marked"}, acct : Accounts, at : Instants]

WorldOK ==
  /\ PoolOK
  /\ db \in Rows
  /\ usage \in Usages
  /\ cache.rows \in Rows \cup {NoRows} /\ cache.at \in Instants
  /\ cache.at # None => cache.rows \in Rows
  /\ counter \in 0..(Wrap - 1)
  /\ clock \in Nat

RequestsOK == req \in [Requests -> Request] /\ \A r \in Requests : Sound(req[r])
PendOK == pend \in [Requests -> SUBSET Writes]

Inv == WorldOK /\ RequestsOK /\ PendOK

LEMMA SoundKept ==
  ASSUME NEW q, Sound(q), UNCHANGED pool
  PROVE  Sound(q)'
BY DEF Sound, Tried, RefusedBefore, ProviderOf, Got

(* One request takes a step.                                               *)
LEMMA RequestMoves ==
  ASSUME RequestsOK, NEW r \in Requests, NEW q, Sound(q),
         req' = [req EXCEPT ![r] = q], UNCHANGED pool
  PROVE  RequestsOK'
<1>1. q \in Request
  BY DEF Sound
<1>2. req' \in [Requests -> Request]
  BY <1>1 DEF RequestsOK
<1>3. ASSUME NEW s \in Requests PROVE Sound(req[s])'
  <2>1. req'[s] = IF s = r THEN q ELSE req[s]
    BY DEF RequestsOK
  <2>2. Sound(req'[s])
    BY <2>1 DEF RequestsOK
  <2> QED BY <2>2 DEF Sound, Tried, RefusedBefore, ProviderOf, Got
<1> QED BY <1>2, <1>3 DEF RequestsOK

LEMMA RequestsStay ==
  ASSUME RequestsOK, UNCHANGED <<pool, req>>
  PROVE  RequestsOK'
BY SoundKept DEF RequestsOK

LEMMA OpenIsAvailable ==
  ASSUME NEW rows \in Rows, NEW u, NEW t \in Nat
  PROVE  {a \in Accounts : Available(a, rows, u, t)} = Open(rows, u, t)
<1>1. ASSUME NEW a \in Accounts
      PROVE  Available(a, rows, u, t) <=> a \in Open(rows, u, t)
  <2>1. rows[a].until \in Instants
    BY DEF Rows
  <2>2. (rows[a].until # None => rows[a].until < t) <=> rows[a].until < t
    BY <2>1 DEF Instants, None
  <2> QED BY <2>2 DEF Available, Open, Here, AtReserve
<1> QED BY <1>1 DEF Open

(* select keeps the invariant, and its list follows the rules.             *)
LEMMA SelectKeeps ==
  ASSUME WorldOK, RequestsOK, PendOK, NEW r \in Requests, NEW rows \in Rows,
         NEW m \in Metas \cup {NoMeta}, NEW t \in Nat,
         Select(r, rows, m, t), UNCHANGED pool
  PROVE  /\ RequestsOK' /\ PendOK' /\ counter' \in 0..(Wrap - 1)
         /\ \A s \in Requests \ {r} : req'[s] = req[s]
         /\ req'[r].pc = "trying" => Follows(req'[r], rows, usage)
<1> DEFINE S == {a \in Accounts : Available(a, rows, usage, t)}
           rule == Rule(m, rows, S, t)
           first == First(rule, m, rows, usage, S, t)
           alone == rule = "pinned" /\ m.strict
           rest == IF alone THEN <<>> ELSE Sorted(S \ {first}, usage)
           o == <<first>> \o rest
           takes == rule = "priority" /\ TakeTurns(S)
           q == [Idle EXCEPT !.pc = "trying", !.now = t, !.meta = m, !.order = o]
           none == [Idle EXCEPT !.pc = "unavailable", !.now = t, !.meta = m]
<1>1. S \in SUBSET Accounts /\ S = Open(rows, usage, t)
  BY OpenIsAvailable
<1>2. counter \in Nat /\ PoolOK /\ usage \in Usages
  BY Constants DEF WorldOK
<1>3. CASE rule = "unavailable"
  <2>1. req' = [req EXCEPT ![r] = none] /\ UNCHANGED <<pend, counter, turns>>
    BY <1>3 DEF Select
  <2>2. Sound(none) /\ none.pc # "trying"
    BY IdleSound DEF Idle
  <2> HIDE DEF none
  <2>3. RequestsOK'
    BY <2>1, <2>2, RequestMoves
  <2>4. req'[r] = none /\ \A s \in Requests \ {r} : req'[s] = req[s]
    BY <2>1 DEF RequestsOK
  <2> QED BY <2>1, <2>2, <2>3, <2>4 DEF PendOK, WorldOK
<1>4. CASE rule # "unavailable"
  <2>1. /\ req' = [req EXCEPT ![r] = q]
        /\ pend' = [pend EXCEPT ![r] = IF ~m.bypass /\ ResetDue(first, rows[first], t)
                                       THEN {[kind |-> "session", acct |-> first, at |-> t]} ELSE {}]
        /\ counter' = IF takes THEN (counter + 1) % Wrap ELSE counter
    BY <1>4 DEF Select
  <2>2. first \in S /\ Reason(first, m, rows, S, t)
    BY <1>1, <1>2, <1>4, FirstHasReason
  <2>3. counter' \in 0..(Wrap - 1)
    <3>1. (counter + 1) % Wrap \in 0..(Wrap - 1)
      BY <1>2, Constants
    <3> QED BY <2>1, <3>1 DEF WorldOK
  <2>4. PendOK'
    <3>1. [kind |-> "session", acct |-> first, at |-> t] \in Writes
      BY <1>1, <2>2 DEF Writes, Instants
    <3> QED BY <2>1, <3>1 DEF PendOK
  <2>5. /\ GoodOrder(o) /\ Len(o) >= 1 /\ o[1] = first
        /\ IF alone THEN o = <<first>> ELSE {o[k] : k \in DOMAIN o} = S
        /\ \A j, k \in 2..Len(o) : j < k => pool[o[j]].priority <= pool[o[k]].priority
    <3> HIDE DEF S, first, rule
    <3>1. CASE alone
      <4>1. o = <<first>> \o <<>> /\ first \in Accounts
        BY <1>1, <2>2, <3>1
      <4>2. GoodOrder(o) /\ o = <<first>>
        BY <4>1, FirstAlone
      <4> QED BY <3>1, <4>2
    <3>2. CASE ~alone
      <4>1. o = <<first>> \o Sorted(S \ {first}, usage)
        BY <3>2
      <4>2. Lists(o, first, S)
        BY <1>1, <1>2, <2>2, <4>1, FirstThenSorted
      <4> HIDE DEF o, alone
      <4> QED BY <3>2, <4>2 DEF Lists
    <3> QED BY <3>1, <3>2
  <2>6. /\ q.order = o /\ q.meta = m /\ q.now = t
    BY DEF Idle
  <2> HIDE DEF o
  <2>7. Sound(q)
    BY <2>5, FreshSound
  <2> HIDE DEF q
  <2>8. RequestsOK'
    BY <2>1, <2>7, RequestMoves
  <2>9. req'[r] = q /\ \A s \in Requests \ {r} : req'[s] = req[s]
    BY <2>1 DEF RequestsOK
  <2>10. {o[k] : k \in DOMAIN o} \subseteq S
    <3>1. CASE alone
      BY <2>2, <2>5, <3>1
    <3>2. CASE ~alone
      BY <2>5, <3>2
    <3> QED BY <3>1, <3>2
  <2>11. DOMAIN o = 1..Len(o)
    BY <2>5, LenProperties DEF GoodOrder
  <2>12. IF m.strict /\ rows[m.pin].life = "here"
         THEN o = <<m.pin>>
         ELSE {o[k] : k \in DOMAIN o} = S
    <3>1. CASE m.pin \in S
      <4>1. rule = "pinned" /\ first = m.pin /\ rows[m.pin].life = "here"
        BY <3>1 DEF Rule, First, Available, Here
      <4> QED BY <2>5, <4>1
    <3>2. CASE m.pin \notin S
      <4>1. ~(m.strict /\ rows[m.pin].life = "here") /\ rule # "pinned"
        BY <1>4, <3>2 DEF Rule, Here
      <4> QED BY <2>5, <4>1
    <3> QED BY <3>1, <3>2
  <2>13. \/ first = m.pin
         \/ \E a \in {o[k] : k \in DOMAIN o} : pool[a].fallback /\ Passed(rows[a].reset, t)
         \/ pool[first].provider = "anthropic" /\ Running(rows[first], t)
         \/ \A a \in {o[k] : k \in DOMAIN o} : pool[first].priority <= pool[a].priority
    <3> HIDE DEF S, first, rule
    <3>1. first \in TopTier(S) => \A a \in S : pool[first].priority <= pool[a].priority
      BY DEF TopTier
    <3>2. CASE m.strict /\ rows[m.pin].life = "here"
      <4>1. o = <<m.pin>> /\ o[1] = first
        BY <2>5, <2>12, <3>2
      <4> QED BY <4>1
    <3>3. CASE ~(m.strict /\ rows[m.pin].life = "here")
      <4>1. {o[k] : k \in DOMAIN o} = S
        BY <2>12, <3>3
      <4> QED BY <2>2, <3>1, <4>1 DEF Reason
    <3> QED BY <3>2, <3>3
  <2>14. Follows(q, rows, usage)
    <3> HIDE DEF S, first, rule
    <3>1. {o[k] : k \in DOMAIN o} \subseteq Open(rows, usage, t)
      BY <1>1, <2>10
    <3>2. \A j, k \in DOMAIN o : o[j] = o[k] => j = k
      BY <2>5, <2>11 DEF GoodOrder
    <3>3. IF m.strict /\ rows[m.pin].life = "here"
          THEN o = <<m.pin>>
          ELSE {o[k] : k \in DOMAIN o} = Open(rows, usage, t)
      BY <1>1, <2>12
    <3> QED BY <2>5, <2>6, <2>13, <3>1, <3>2, <3>3 DEF Follows
  <2> QED BY <2>3, <2>4, <2>8, <2>9, <2>14
<1> QED BY <1>3, <1>4

-----------------------------------------------------------------------------
(* Every step keeps it *)

LEMMA InitInv == Init => Inv
<1> SUFFICES ASSUME Init PROVE Inv
  OBVIOUS
<1>1. WorldOK
  <2>1. PICK C \in Scenes : pool = C.pool /\ db = C.rows /\ usage = C.usage
    BY DEF Init
  <2>2. PoolOK /\ db \in Rows /\ usage \in Usages
    BY <2>1, RoutingAssumption DEF PoolOK, Usages
  <2>3. /\ cache.rows = NoRows /\ cache.at = None /\ counter = 0 /\ clock = 1
    BY DEF Init
  <2> QED BY <2>2, <2>3, Constants DEF WorldOK, Instants
<1>2. Sound(Idle)
  BY EmptySound
<1>3. RequestsOK
  BY <1>2 DEF Init, RequestsOK, Sound
<1>4. PendOK
  BY DEF Init, PendOK
<1> QED BY <1>1, <1>3, <1>4 DEF Inv

LEMMA PendStays ==
  ASSUME PendOK, UNCHANGED pend
  PROVE  PendOK'
BY DEF PendOK

LEMMA WorldStays ==
  ASSUME WorldOK, UNCHANGED <<world, db, cache, counter>>
  PROVE  WorldOK'
BY DEF WorldOK, PoolOK, world

(* A request that reads its rows, or gives up.                             *)
LEMMA ReadingKeeps ==
  ASSUME Inv, NEW r \in Requests,
         \/ \E m \in Metas : ArriveUncached(r, m)
         \/ ReadRows(r)
         \/ Disconnect(r)
  PROVE  Inv'
<1>1. UNCHANGED <<world, db, cache, counter, pend>>
  BY DEF ArriveUncached, Arrives, ReadRows, Disconnect
<1>2. \E q : Sound(q) /\ req' = [req EXCEPT ![r] = q]
  <2>1. ASSUME NEW m \in Metas, ArriveUncached(r, m) PROVE \E q : Sound(q) /\ req' = [req EXCEPT ![r] = q]
    <3>1. Sound([Idle EXCEPT !.pc = "reading", !.now = clock, !.meta = m])
      BY IdleSound DEF Inv, WorldOK
    <3> QED BY <2>1, <3>1 DEF ArriveUncached
  <2>2. CASE ReadRows(r)
    <3> DEFINE q == [req[r] EXCEPT !.pc = "storing", !.rows = db]
    <3>1. req[r] \in Request /\ Sound(req[r]) /\ db \in Rows
      BY DEF Inv, RequestsOK, WorldOK
    <3>2. req' = [req EXCEPT ![r] = q]
      BY <2>2, <3>1 DEF ReadRows, Inv, RequestsOK
    <3>3. q \in Request
      BY <3>1 DEF Request
    <3>4. /\ q.pc = "storing" /\ q.rows \in Rows /\ q.order = req[r].order /\ q.i = req[r].i
          /\ q.got = req[r].got /\ q.refused = req[r].refused
      BY <3>1 DEF Request
    <3> HIDE DEF q
    <3>5. Sound(q)
      BY <3>1, <3>3, <3>4 DEF Sound, Tried, RefusedBefore, ProviderOf, Got
    <3> QED BY <3>2, <3>5
  <2>3. CASE Disconnect(r)
    BY <2>3, EmptySound DEF Disconnect
  <2> QED BY <2>1, <2>2, <2>3
<1>3. PICK q : Sound(q) /\ req' = [req EXCEPT ![r] = q]
  BY <1>2
<1>4. RequestsOK'
  BY <1>1, <1>3, RequestMoves DEF Inv, world
<1> QED BY <1>1, <1>4, WorldStays, PendStays DEF Inv

(* A request that selects.                                                 *)
LEMMA SelectingKeeps ==
  ASSUME Inv, NEW r \in Requests,
         \/ \E m \in Metas : ArriveCached(r, m)
         \/ StoreRows(r)
  PROVE  /\ Inv'
         /\ \A s \in Requests \ {r} : req'[s] = req[s]
         /\ req'[r].pc = "trying" => Follows(req'[r], Seen(r), usage)
<1>1. ASSUME NEW m \in Metas, ArriveCached(r, m)
      PROVE  /\ Inv'
             /\ \A s \in Requests \ {r} : req'[s] = req[s]
             /\ req'[r].pc = "trying" => Follows(req'[r], Seen(r), usage)
  <2>1. /\ UNCHANGED <<world, db, cache>> /\ Select(r, cache.rows, m, clock)
        /\ cache.at # None /\ req[r].pc # "storing"
    BY <1>1 DEF ArriveCached, Arrives, CacheFresh
  <2>2. cache.rows \in Rows /\ clock \in Nat /\ UNCHANGED pool /\ m \in Metas \cup {NoMeta}
    BY <2>1 DEF Inv, WorldOK, world
  <2>3. /\ RequestsOK' /\ PendOK' /\ counter' \in 0..(Wrap - 1)
        /\ \A s \in Requests \ {r} : req'[s] = req[s]
        /\ req'[r].pc = "trying" => Follows(req'[r], cache.rows, usage)
    BY <2>1, <2>2, SelectKeeps DEF Inv
  <2>4. WorldOK'
    BY <2>1, <2>3 DEF Inv, WorldOK, PoolOK, world
  <2> QED BY <2>1, <2>3, <2>4 DEF Inv, Seen
<1>2. ASSUME StoreRows(r)
      PROVE  /\ Inv'
             /\ \A s \in Requests \ {r} : req'[s] = req[s]
             /\ req'[r].pc = "trying" => Follows(req'[r], Seen(r), usage)
  <2>1. /\ UNCHANGED <<world, db>> /\ cache' = [rows |-> req[r].rows, at |-> clock]
        /\ Select(r, req[r].rows, req[r].meta, req[r].now)
        /\ req[r].pc = "storing"
    BY <1>2 DEF StoreRows
  <2>2. /\ req[r].rows \in Rows /\ req[r].now \in Nat /\ req[r].meta \in Metas \cup {NoMeta}
        /\ UNCHANGED pool
    BY <2>1 DEF Inv, RequestsOK, Sound, Request, world
  <2>3. /\ RequestsOK' /\ PendOK' /\ counter' \in 0..(Wrap - 1)
        /\ \A s \in Requests \ {r} : req'[s] = req[s]
        /\ req'[r].pc = "trying" => Follows(req'[r], req[r].rows, usage)
    BY <2>1, <2>2, SelectKeeps DEF Inv
  <2>4. /\ cache'.rows \in Rows /\ cache'.at \in Instants
    BY <2>1, <2>2 DEF Inv, WorldOK, Instants
  <2>5. WorldOK'
    BY <2>1, <2>3, <2>4 DEF Inv, WorldOK, PoolOK, world
  <2> QED BY <2>1, <2>3, <2>5 DEF Inv, Seen
<1> QED BY <1>1, <1>2

(* A request that skips an account.                                        *)
LEMMA SkipKeeps ==
  ASSUME Inv, NEW r \in Requests, Skip(r)
  PROVE  Inv'
<1>1. /\ UNCHANGED <<world, db, cache, counter, pend>> /\ req[r].pc = "trying"
      /\ req' = [req EXCEPT ![r] = After(req[r], Limit1(req[r].order))]
      /\ ProviderOf(req[r], req[r].i) \in req[r].refused
  BY DEF Skip, Attempts, Limit1, Rests, Current, ProviderOf, Inv, RequestsOK
<1>2. Sound(After(req[r], Limit1(req[r].order)))
  BY <1>1, SkipSound DEF Inv, RequestsOK
<1>3. RequestsOK'
  BY <1>1, <1>2, RequestMoves DEF Inv, world
<1> QED BY <1>1, <1>3, WorldStays, PendStays DEF Inv

(* One that asks it.                                                       *)
LEMMA AskedKeeps ==
  ASSUME Inv, NEW r \in Requests, NEW v \in {"served", "limited", "other"},
         NEW writes, Current(r) \in Accounts => writes \in SUBSET Writes, Asked(r, v, writes)
  PROVE  Inv'
<1>1. /\ UNCHANGED <<world, db, cache, counter>> /\ req[r].pc = "trying"
      /\ ProviderOf(req[r], req[r].i) \notin req[r].refused
      /\ pend' = [pend EXCEPT ![r] = @ \cup writes]
      /\ Sound(req[r]) /\ req[r] \in Request /\ PoolOK
  BY DEF Asked, Rests, Current, ProviderOf, Inv, RequestsOK, WorldOK
<1>2. Current(r) \in Accounts
  <2>1. req[r].i \in 1..Limit1(req[r].order) /\ req[r].order \in Seq(Accounts)
    BY <1>1 DEF Sound, GoodOrder
  <2>2. req[r].i \in 1..Len(req[r].order)
    BY <2>1, LenProperties, Constants DEF Limit1
  <2> QED BY <2>1, <2>2, ElementOfSeq DEF Current
<1>3. PendOK'
  BY <1>1, <1>2 DEF Inv, PendOK
<1>4. CASE v = "served"
  <2>1. req' = [req EXCEPT ![r] = [Idle EXCEPT !.pc = "served"]]
    BY <1>4 DEF Asked
  <2>2. RequestsOK'
    BY <1>1, <2>1, EmptySound, RequestMoves DEF Inv, world
  <2> QED BY <1>1, <1>3, <2>2, WorldStays DEF Inv
<1>5. CASE v # "served"
  <2> DEFINE y == [req[r] EXCEPT !.got[req[r].order[req[r].i]] = v,
                                 !.refused = IF v = "limited" THEN @ \cup {pool[req[r].order[req[r].i]].provider}
                                             ELSE @]
  <2>1. req' = [req EXCEPT ![r] = After(y, Limit1(req[r].order))]
    BY <1>5 DEF Asked, Current, Refuses, Attempts, Limit1, Inv, RequestsOK
  <2>2. v \in {"limited", "other"}
    BY <1>5
  <2>3. Sound(After(y, Limit1(req[r].order)))
    BY <1>1, <2>2, AskedSound
  <2> HIDE DEF y
  <2>4. RequestsOK'
    BY <1>1, <2>1, <2>3, RequestMoves DEF Inv, world
  <2> QED BY <1>1, <1>3, <2>4, WorldStays DEF Inv
<1> QED BY <1>4, <1>5

LEMMA AttemptKeeps ==
  ASSUME Inv, NEW r \in Requests,
         \/ PassOn400(r) \/ RateLimited(r) \/ AuthFailed(r) \/ AttemptFails(r)
         \/ \E header \in BOOLEAN : Serve(r, header) \/ BreakOff(r, header)
  PROVE  Inv'
<1>1. clock \in Nat /\ clock + Window \in Instants /\ clock + Limit \in Instants /\ None \in Instants
  BY Constants DEF Inv, WorldOK, Instants
<1>2. CASE PassOn400(r)
  BY <1>2, AskedKeeps DEF PassOn400
<1>3. CASE RateLimited(r)
  <2>1. Current(r) \in Accounts => {[kind |-> "limit", acct |-> Current(r), at |-> clock + Limit]} \in SUBSET Writes
    BY <1>1 DEF Writes
  <2> QED BY <1>3, <2>1, AskedKeeps DEF RateLimited
<1>4. CASE AuthFailed(r)
  <2>1. Current(r) \in Accounts => {[kind |-> "marked", acct |-> Current(r), at |-> None]} \in SUBSET Writes
    BY <1>1 DEF Writes
  <2> QED BY <1>4, <2>1, AskedKeeps DEF AuthFailed
<1>5. CASE AttemptFails(r)
  BY <1>5, AskedKeeps DEF AttemptFails
<1>6. ASSUME NEW header \in BOOLEAN, Serve(r, header) \/ BreakOff(r, header) PROVE Inv'
  <2> DEFINE w == {Status(r, header)}
  <2>1. Current(r) \in Accounts => w \in SUBSET Writes
    BY <1>1 DEF Writes, Status
  <2>2. Asked(r, "served", w) \/ Asked(r, "other", w)
    BY <1>6 DEF Serve, BreakOff
  <2> HIDE DEF w
  <2> QED BY <2>1, <2>2, AskedKeeps
<1> QED BY <1>2, <1>3, <1>4, <1>5, <1>6

(* A spawned write runs.                                                   *)
LEMMA WriteKeeps ==
  ASSUME Inv, NEW r \in Requests, NEW w \in pend[r], NEW connected \in BOOLEAN,
         RunWrite(r, w, connected)
  PROVE  Inv'
<1>1. w \in Writes /\ w.acct \in Accounts /\ w.at \in Instants
      /\ w.kind \in {"session", "limit", "status", "marked"}
  BY DEF Inv, PendOK, Writes
<1>2. db[w.acct] \in [life: {"new", "here", "gone"}, paused: BOOLEAN, marked: BOOLEAN,
                      until: Instants, reset: Instants, start: Instants]
  BY <1>1 DEF Inv, WorldOK, Rows
<1>3. Written(db[w.acct], w) \in [life: {"new", "here", "gone"}, paused: BOOLEAN, marked: BOOLEAN,
                                  until: Instants, reset: Instants, start: Instants]
  <2>1. None \in Instants
    BY DEF Instants
  <2>2. CASE db[w.acct].life # "here"
    BY <1>2, <2>2 DEF Written
  <2>3. CASE db[w.acct].life = "here" /\ w.kind = "session"
    BY <1>1, <1>2, <2>3 DEF Written
  <2>4. CASE db[w.acct].life = "here" /\ w.kind = "limit"
    BY <1>1, <1>2, <2>4 DEF Written
  <2>5. CASE db[w.acct].life = "here" /\ w.kind = "status"
    <3>1. Written(db[w.acct], w) = [db[w.acct] EXCEPT !.reset = w.at, !.marked = FALSE]
      BY <2>5 DEF Written
    <3> QED BY <1>1, <1>2, <3>1
  <2>6. CASE db[w.acct].life = "here" /\ w.kind = "marked"
    BY <1>1, <1>2, <2>1, <2>6 DEF Written
  <2> QED BY <1>1, <2>2, <2>3, <2>4, <2>5, <2>6
<1>4. db' \in Rows
  <2>1. db' = IF connected THEN [db EXCEPT ![w.acct] = Written(db[w.acct], w)] ELSE db
    BY <1>1 DEF RunWrite, Inv, WorldOK, Rows
  <2> QED BY <1>1, <1>3, <2>1 DEF Inv, WorldOK, Rows
<1>5. WorldOK'
  BY <1>4 DEF Inv, WorldOK, PoolOK, RunWrite, world
<1>6. PendOK'
  BY DEF Inv, PendOK, RunWrite
<1>7. RequestsOK'
  BY RequestsStay DEF Inv, RunWrite, world
<1> QED BY <1>5, <1>6, <1>7 DEF Inv

(* The user, the poller and the clock.                                     *)
LEMMA WorldKeeps ==
  ASSUME Inv,
         \/ \E a \in Accounts : Add(a)
         \/ \E a \in Changing :
              \/ TogglePause(a) \/ Remove(a)
              \/ \E level \in UsageLevels \cup {Missing} : Poll(a, level)
         \/ Tick
  PROVE  Inv'
<1>1. UNCHANGED <<pool, cache, counter, req, pend>>
  BY DEF Add, TogglePause, Remove, Poll, Edited, Tick
<1>2. db' \in Rows /\ usage' \in Usages /\ clock' \in Nat
  <2>1. /\ Row("here") \in [life: {"new", "here", "gone"}, paused: BOOLEAN, marked: BOOLEAN,
                             until: Instants, reset: Instants, start: Instants]
        /\ Row("gone") \in [life: {"new", "here", "gone"}, paused: BOOLEAN, marked: BOOLEAN,
                             until: Instants, reset: Instants, start: Instants]
    BY DEF Row, Instants
  <2>2. db \in Rows /\ usage \in Usages /\ clock \in Nat
    BY DEF Inv, WorldOK
  <2>3. ASSUME NEW a \in Accounts, Add(a) PROVE db' \in Rows /\ usage' \in Usages /\ clock' \in Nat
    BY <2>1, <2>2, <2>3 DEF Add, Edited, Rows
  <2>4. ASSUME NEW a \in Changing, TogglePause(a) PROVE db' \in Rows /\ usage' \in Usages /\ clock' \in Nat
    BY <2>2, <2>4, Constants DEF TogglePause, Edited, Rows
  <2>5. ASSUME NEW a \in Changing, Remove(a) PROVE db' \in Rows /\ usage' \in Usages /\ clock' \in Nat
    BY <2>1, <2>2, <2>5, Constants DEF Remove, Edited, Rows
  <2>6. ASSUME NEW a \in Changing, NEW level \in UsageLevels \cup {Missing}, Poll(a, level)
        PROVE  db' \in Rows /\ usage' \in Usages /\ clock' \in Nat
    BY <2>2, <2>6, Constants DEF Poll, Edited, Usages
  <2>7. CASE Tick
    BY <2>2, <2>7 DEF Tick
  <2> QED BY <2>3, <2>4, <2>5, <2>6, <2>7
<1>3. WorldOK'
  BY <1>1, <1>2 DEF Inv, WorldOK, PoolOK
<1> QED BY <1>1, <1>3, RequestsStay, PendStays DEF Inv

LEMMA StepInv == Inv /\ [Next]_vars => Inv'
<1> SUFFICES ASSUME Inv, [Next]_vars PROVE Inv'
  OBVIOUS
<1>1. ASSUME NEW r \in Requests, NEW m \in Metas, ArriveCached(r, m) PROVE Inv'
  BY <1>1, SelectingKeeps
<1>2. ASSUME NEW r \in Requests, NEW m \in Metas, ArriveUncached(r, m) PROVE Inv'
  BY <1>2, ReadingKeeps
<1>3. ASSUME NEW r \in Requests, ReadRows(r) \/ Disconnect(r) PROVE Inv'
  BY <1>3, ReadingKeeps
<1>4. ASSUME NEW r \in Requests, StoreRows(r) PROVE Inv'
  BY <1>4, SelectingKeeps
<1>5. ASSUME NEW r \in Requests, Skip(r) PROVE Inv'
  BY <1>5, SkipKeeps
<1>6. ASSUME NEW r \in Requests,
             \/ PassOn400(r) \/ RateLimited(r) \/ AuthFailed(r) \/ AttemptFails(r)
             \/ \E header \in BOOLEAN : Serve(r, header) \/ BreakOff(r, header)
      PROVE  Inv'
  BY <1>6, AttemptKeeps
<1>7. ASSUME NEW r \in Requests, NEW w \in pend[r], NEW connected \in BOOLEAN,
             RunWrite(r, w, connected)
      PROVE  Inv'
  BY <1>7, WriteKeeps
<1>8. ASSUME \/ \E a \in Accounts : Add(a)
             \/ \E a \in Changing :
                  \/ TogglePause(a) \/ Remove(a)
                  \/ \E level \in UsageLevels \cup {Missing} : Poll(a, level)
             \/ Tick
      PROVE  Inv'
  BY <1>8, WorldKeeps
<1>9. CASE UNCHANGED vars
  <2>1. UNCHANGED <<world, db, cache, counter, pend>> /\ UNCHANGED <<pool, req>>
    BY <1>9 DEF vars, world
  <2> QED BY <2>1, WorldStays, RequestsStay, PendStays DEF Inv
<1>10. CASE Next
  BY <1>1, <1>2, <1>3, <1>4, <1>5, <1>6, <1>7, <1>8, <1>10 DEF Next
<1> QED BY <1>9, <1>10

LEMMA Invariance == Spec => []Inv
BY InitInv, StepInv, PTL DEF Spec

-----------------------------------------------------------------------------
(* What follows from it *)

(* Every variable keeps its type, and a request that tries an account is   *)
(* within its list and within MAX_FAILOVER_ATTEMPTS, whatever happened to  *)
(* the accounts since select listed them (handler.rs).                     *)
THEOREM TypeCorrect == Spec => []TypeOK
<1>1. Inv => TypeOK
  <2> SUFFICES ASSUME Inv PROVE TypeOK
    OBVIOUS
  <2>1. \E C \in Scenes : pool = C.pool
    BY DEF Inv, WorldOK, PoolOK
  <2>2. /\ db \in Rows /\ usage \in [Accounts -> UsageLevels \cup {Missing}]
        /\ cache.rows \in Rows \cup {NoRows} /\ cache.at \in Instants
        /\ counter \in 0..(Wrap - 1)
    BY DEF Inv, WorldOK, Usages
  <2>3. ASSUME NEW r \in Requests
        PROVE  /\ req[r].pc \in {"idle", "reading", "storing", "trying", "unavailable", "served", "failed"}
               /\ req[r].meta \in Metas \cup {NoMeta}
               /\ req[r].order \in Orders
               /\ req[r].pc = "trying" => req[r].i <= MaxAttempts /\ req[r].i <= Len(req[r].order)
               /\ \A w \in pend[r] : w.acct \in Accounts /\ w.at \in Instants
    <3>1. Sound(req[r]) /\ req[r] \in Request
      BY DEF Inv, RequestsOK
    <3>2. req[r].order \in Seq(Accounts) /\ Len(req[r].order) \in 0..N
      BY <3>1, LenProperties, Constants DEF Sound, GoodOrder
    <3>3. req[r].order \in [1..Len(req[r].order) -> Accounts]
      BY <3>2, LenProperties, ElementOfSeq
    <3>4. req[r].order \in Orders
      BY <3>2, <3>3 DEF Orders
    <3>5. req[r].pc = "trying" => req[r].i <= MaxAttempts /\ req[r].i <= Len(req[r].order)
      BY <3>1, <3>2, Constants DEF Sound, Limit1
    <3>6. pend[r] \in SUBSET Writes
      BY DEF Inv, PendOK
    <3> QED BY <3>1, <3>4, <3>5, <3>6 DEF Request, Writes
  <2> QED BY <2>1, <2>2, <2>3 DEF TypeOK
<1> QED BY <1>1, Invariance, PTL

(* "All accounts failed" is the last word only: each of the first          *)
(* MAX_FAILOVER_ATTEMPTS accounts of the list was asked in vain, or its    *)
(* provider had answered 429 to this request (handler.rs,                  *)
(* try_accounts_in_order).                                                 *)
THEOREM ExhaustedFirst == Spec => []GaveUpOnlyWhenExhausted
<1>1. Inv => GaveUpOnlyWhenExhausted
  <2> SUFFICES ASSUME Inv, NEW r \in Requests, req[r].pc = "failed", NEW k \in 1..Attempts(r)
               PROVE  \/ req[r].got[req[r].order[k]] \in {"limited", "other"}
                      \/ \E j \in 1..(k - 1) : Limited(r, j) /\ SameProvider(r, j, k)
    BY DEF GaveUpOnlyWhenExhausted
  <2>1. Sound(req[r]) /\ req[r] \in Request
    BY DEF Inv, RequestsOK
  <2>2. Attempts(r) = Limit1(req[r].order)
    BY DEF Attempts, Limit1
  <2>3. Len(req[r].order) \in Nat
    BY <2>1, LenProperties DEF Sound, GoodOrder
  <2>4. k \in 1..Len(req[r].order) /\ k < req[r].i
    BY <2>1, <2>2, <2>3, Constants DEF Sound, Limit1, Request
  <2>5. Got(req[r], k) \in {"limited", "other"} \/ RefusedBefore(req[r], k)
    BY <2>1, <2>4 DEF Sound, Tried
  <2> QED BY <2>5 DEF Got, RefusedBefore, ProviderOf, Limited, SameProvider
<1> QED BY <1>1, Invariance, PTL

(* Once a provider has answered 429, no further account of it is asked by  *)
(* that request, in whatever order the accounts are (handler.rs,           *)
(* rate_limited_providers).                                                *)
THEOREM ProviderRests == Spec => []ProviderRestsAfter429
<1>1. Inv => ProviderRestsAfter429
  <2> SUFFICES ASSUME Inv, NEW r \in Requests, NEW k \in 1..Len(req[r].order),
                      NEW j \in 1..(k - 1), Limited(r, j), SameProvider(r, j, k)
               PROVE  req[r].got[req[r].order[k]] = "none"
    BY DEF ProviderRestsAfter429
  <2>1. Sound(req[r])
    BY DEF Inv, RequestsOK
  <2>2. RefusedBefore(req[r], k)
    BY DEF RefusedBefore, Got, ProviderOf, Limited, SameProvider
  <2>3. Got(req[r], k) = "none"
    BY <2>1, <2>2 DEF Sound, Tried
  <2> QED BY <2>3 DEF Got
<1> QED BY <1>1, Invariance, PTL

-----------------------------------------------------------------------------
(* The list a request makes *)

(* A step that is no selection lets no request start to try.               *)
LEMMA OthersDoNotSelect ==
  ASSUME Inv, NEW r \in Requests, NEW q, req' = [req EXCEPT ![r] = q],
         q.pc = "trying" => req[r].pc = "trying"
  PROVE  \A s \in Requests : ~Selects(s)
BY DEF Selects, Inv, RequestsOK

LEMMA NoSelection ==
  ASSUME Inv, Next,
         \A r \in Requests : ~StoreRows(r) /\ \A m \in Metas : ~ArriveCached(r, m)
  PROVE  \A s \in Requests : ~Selects(s)
<1>1. ASSUME NEW r \in Requests, NEW m \in Metas, ArriveUncached(r, m)
      PROVE  \A s \in Requests : ~Selects(s)
  <2>1. [Idle EXCEPT !.pc = "reading", !.now = clock, !.meta = m].pc = "reading"
    BY DEF Idle
  <2> QED BY <1>1, <2>1, OthersDoNotSelect DEF ArriveUncached
<1>2. ASSUME NEW r \in Requests, ReadRows(r) PROVE \A s \in Requests : ~Selects(s)
  <2>1. req[r] \in Request
    BY DEF Inv, RequestsOK
  <2>2. [req[r] EXCEPT !.pc = "storing", !.rows = db].pc = "storing"
    BY <2>1 DEF Request
  <2>3. req' = [req EXCEPT ![r] = [req[r] EXCEPT !.pc = "storing", !.rows = db]]
    BY <1>2, <2>1 DEF ReadRows, Inv, RequestsOK
  <2> QED BY <2>2, <2>3, OthersDoNotSelect
<1>3. ASSUME NEW r \in Requests, Disconnect(r) PROVE \A s \in Requests : ~Selects(s)
  <2>1. Idle.pc = "idle"
    BY DEF Idle
  <2> QED BY <1>3, <2>1, OthersDoNotSelect DEF Disconnect
<1>4. ASSUME NEW r \in Requests, Skip(r) PROVE \A s \in Requests : ~Selects(s)
  BY <1>4 DEF Skip, Selects, Inv, RequestsOK
<1>5. ASSUME NEW r \in Requests, NEW v, NEW writes, Asked(r, v, writes)
      PROVE  \A s \in Requests : ~Selects(s)
  BY <1>5 DEF Asked, Selects, Inv, RequestsOK
<1>6. ASSUME NEW r \in Requests,
             \/ PassOn400(r) \/ RateLimited(r) \/ AuthFailed(r) \/ AttemptFails(r)
             \/ \E header \in BOOLEAN : Serve(r, header) \/ BreakOff(r, header)
      PROVE  \A s \in Requests : ~Selects(s)
  BY <1>5, <1>6 DEF PassOn400, RateLimited, AuthFailed, AttemptFails, Serve, BreakOff
<1>7. CASE UNCHANGED req
  BY <1>7 DEF Selects
<1>8. ASSUME NEW r \in Requests, NEW w \in pend[r], NEW connected \in BOOLEAN,
             RunWrite(r, w, connected)
      PROVE  UNCHANGED req
  BY <1>8 DEF RunWrite
<1>9. ASSUME \/ \E a \in Accounts : Add(a)
             \/ \E a \in Changing :
                  \/ TogglePause(a) \/ Remove(a)
                  \/ \E level \in UsageLevels \cup {Missing} : Poll(a, level)
             \/ Tick
      PROVE  UNCHANGED req
  BY <1>9 DEF Add, TogglePause, Remove, Poll, Edited, Tick
<1> QED BY <1>1, <1>2, <1>3, <1>4, <1>6, <1>7, <1>8, <1>9 DEF Next

(* Whenever a request selects, its list is of open accounts only, each     *)
(* once, and of all of them unless a strict pin forbids it; it begins with *)
(* the pin, a running session or the highest priority, unless a window of  *)
(* an account with auto-fallback is over, and goes on by priority          *)
(* (load-balancer/src/lib.rs, select).                                     *)
THEOREM SelectionFollowsRules == Spec => OrderFollowsRules
<1>1. Inv /\ [Next]_vars => [\A r \in Requests : Selects(r) => Follows(req'[r], Seen(r), usage)]_vars
  <2> DEFINE Right(r) == Selects(r) => Follows(req'[r], Seen(r), usage)
  <2> SUFFICES ASSUME Inv, [Next]_vars PROVE \A r \in Requests : Right(r)
    OBVIOUS
  <2>1. ASSUME NEW r \in Requests, StoreRows(r) \/ \E m \in Metas : ArriveCached(r, m)
        PROVE  \A s \in Requests : Right(s)
    <3>1. /\ \A s \in Requests \ {r} : req'[s] = req[s]
          /\ req'[r].pc = "trying" => Follows(req'[r], Seen(r), usage)
      BY <2>1, SelectingKeeps
    <3> QED BY <3>1 DEF Selects
  <2>2. CASE UNCHANGED vars
    BY <2>2 DEF vars, Selects
  <2>3. CASE Next /\ \A r \in Requests : ~StoreRows(r) /\ \A m \in Metas : ~ArriveCached(r, m)
    BY <2>3, NoSelection
  <2> QED BY <2>1, <2>2, <2>3
<1> QED BY <1>1, Invariance, PTL DEF Spec, OrderFollowsRules

-----------------------------------------------------------------------------
(* Turns of the round robin *)

(* The remainder of the next number.                                       *)
LEMMA QuotientUnique ==
  ASSUME NEW n \in Nat \ {0}, NEW p \in Int, NEW q \in Int,
         NEW j \in 0..(n - 1), NEW k \in 0..(n - 1), n * p + j = n * q + k
  PROVE  j = k
<1>1. n * (p - q) = k - j /\ n * (q - p) = j - k
  OBVIOUS
<1>2. CASE p - q >= 1
  <2>1. n * (p - q) >= n
    BY <1>2
  <2> QED BY <1>1, <2>1
<1>3. CASE q - p >= 1
  <2>1. n * (q - p) >= n
    BY <1>3
  <2> QED BY <1>1, <2>1
<1> QED BY <1>1, <1>2, <1>3

LEMMA NextRemainder ==
  ASSUME NEW n \in Nat \ {0}, NEW c \in Nat
  PROVE  /\ c % n \in 0..(n - 1)
         /\ (c + 1) % n = IF c % n = n - 1 THEN 0 ELSE (c % n) + 1
         /\ 0 % n = 0
<1>1. ASSUME NEW x \in Nat
      PROVE  x % n \in 0..(n - 1) /\ x \div n \in Int /\ x = n * (x \div n) + (x % n)
  OBVIOUS
<1>2. /\ c % n \in 0..(n - 1) /\ c \div n \in Int /\ c = n * (c \div n) + (c % n)
      /\ (c + 1) % n \in 0..(n - 1) /\ (c + 1) \div n \in Int
      /\ c + 1 = n * ((c + 1) \div n) + ((c + 1) % n)
  BY <1>1
<1>3. PICK p \in Int, q \in Int : c = n * p + (c % n) /\ c + 1 = n * q + ((c + 1) % n)
  BY <1>2
<1>4. CASE c % n = n - 1
  <2>1. n * (p + 1) + 0 = n * q + ((c + 1) % n) /\ p + 1 \in Int /\ 0 \in 0..(n - 1)
    BY <1>3, <1>4
  <2>2. (c + 1) % n = 0
    BY <1>2, <2>1, QuotientUnique
  <2> QED BY <1>2, <1>4, <2>2
<1>5. CASE c % n # n - 1
  <2>1. n * p + ((c % n) + 1) = n * q + ((c + 1) % n) /\ (c % n) + 1 \in 0..(n - 1)
    BY <1>2, <1>3, <1>5
  <2>2. (c + 1) % n = (c % n) + 1
    BY <1>2, <2>1, QuotientUnique
  <2> QED BY <1>2, <1>5, <2>2
<1>6. 0 % n = 0
  <2>1. n * (0 \div n) + (0 % n) = n * 0 + 0 /\ 0 % n \in 0..(n - 1) /\ 0 \div n \in Int
    BY <1>1
  <2> QED BY <2>1, QuotientUnique
<1> QED BY <1>2, <1>4, <1>5, <1>6

(* The first places are those of the tier, in the same order.              *)
LEMMA TierInOrder ==
  ASSUME PoolOK, NEW u \in Usages, NEW S \in SUBSET Accounts,
         NEW k \in 1..Cardinality(TopTier(S))
  PROVE  Sorted(S, u)[k] = Sorted(TopTier(S), u)[k]
<1> DEFINE T == TopTier(S)
           a == Sorted(S, u)[k]
           b == Sorted(T, u)[k]
<1>1. T \in SUBSET S /\ T \in SUBSET Accounts
  BY DEF TopTier
<1>2. Cardinality(T) \in Nat /\ Cardinality(S) \in Nat /\ Cardinality(T) <= Cardinality(S)
  BY <1>1, SubsetFinite, FS_Subset
<1>3. k \in 1..Cardinality(S)
  BY <1>2
<1>4. a \in T /\ Rank(a, S, u) = k - 1
  BY <1>2, <1>3, TierComesFirst, SortedArranges
<1>5. b \in T /\ Rank(b, T, u) = k - 1
  <2>1. /\ Arranged(Sorted(T, u), T, u)
        /\ \A j \in 1..Cardinality(T) : Rank(Sorted(T, u)[j], T, u) = j - 1
    BY <1>1, SortedArranges
  <2> QED BY <2>1 DEF Arranged
<1>6. {c \in S : Before(c, a, u)} = {c \in T : Before(c, a, u)}
  <2>1. ASSUME NEW c \in S, Before(c, a, u) PROVE c \in T
    <3>1. pool[c].priority <= pool[a].priority
      BY <1>1, <1>4, <2>1, Priorities DEF Before
    <3>2. \A d \in S : pool[a].priority <= pool[d].priority
      BY <1>4 DEF TopTier
    <3>3. /\ pool[a].priority \in Int /\ pool[c].priority \in Int
          /\ \A d \in S : pool[d].priority \in Int
      BY <1>1, <1>4, Priorities
    <3> QED BY <3>1, <3>2, <3>3 DEF TopTier
  <2> QED BY <1>1, <2>1
<1>7. Rank(a, T, u) = Rank(b, T, u)
  BY <1>4, <1>5, <1>6 DEF Rank
<1> QED BY <1>1, <1>4, <1>5, <1>7, RankFacts

(* The place whose turn it is, and the counter after it.                   *)
Place(c, n) == (c % n) + 1
Counted(c) == (c + 1) % Wrap

(* How many turns are still to be taken before the one of place k.         *)
Ahead(k, c, n) == IF k >= Place(c, n) THEN k - Place(c, n) ELSE k - Place(c, n) + n

(* The last m turns went to the places before the next one, round the      *)
(* tier; full rounds are forgotten.                                        *)
Rotation(tier, count, c, n, m) ==
  /\ tier \in [1..n -> Accounts]
  /\ \A j, k \in 1..n : tier[j] = tier[k] => j = k
  /\ count \in [Accounts -> {0, 1}]
  /\ \A k \in 1..n : count[tier[k]] = IF Ahead(k, c, n) >= n - m THEN 1 ELSE 0

TurnsInv ==
  \/ turns.tier = <<>>
  \/ \E n \in 1..N : \E m \in 0..(n - 1) : Rotation(turns.tier, turns.count, counter, n, m)

(* A turn brings everyone else one nearer.                                 *)
LEMMA TurnMovesOn ==
  ASSUME NEW n \in 1..N, NEW c \in 0..(Wrap - 1), NEW k \in 1..n
  PROVE  /\ Place(c, n) \in 1..n
         /\ Ahead(k, c, n) \in 0..(n - 1)
         /\ Ahead(k, Counted(c), n) = IF k = Place(c, n) THEN n - 1 ELSE Ahead(k, c, n) - 1
<1>1. n \in Nat \ {0} /\ Wrap % n = 0 /\ c \in Nat
  BY Constants, RoutingAssumption DEF Accounts
<1>2. /\ c % n \in 0..(n - 1)
      /\ (c + 1) % n = IF c % n = n - 1 THEN 0 ELSE (c % n) + 1
      /\ 0 % n = 0
  BY <1>1, NextRemainder
<1>3. Counted(c) % n = (c + 1) % n
  <2>1. CASE c + 1 < Wrap
    BY <2>1, Constants DEF Counted
  <2>2. CASE c + 1 = Wrap
    <3>1. (c + 1) % Wrap = 0
      BY <2>2, Constants
    <3> QED BY <1>1, <1>2, <2>2, <3>1 DEF Counted
  <2> QED BY <2>1, <2>2, Constants
<1>4. Place(c, n) \in 1..n /\ Place(Counted(c), n) = IF Place(c, n) = n THEN 1 ELSE Place(c, n) + 1
  <2>1. PICK x : x = c % n
    OBVIOUS
  <2>2. x \in 0..(n - 1) /\ Place(c, n) = x + 1
    BY <1>2, <2>1 DEF Place
  <2>3. Place(Counted(c), n) = (IF x = n - 1 THEN 0 ELSE x + 1) + 1
    BY <1>2, <1>3, <2>1 DEF Place
  <2> HIDE <2>1
  <2> QED BY <1>1, <2>2, <2>3
<1> QED BY <1>1, <1>4 DEF Ahead

LEMMA TurnTakenRotates ==
  ASSUME TurnsInv, counter \in 0..(Wrap - 1), NEW n \in 2..N, NEW tier \in [1..n -> Accounts],
         \A j, k \in 1..n : tier[j] = tier[k] => j = k,
         turns' = TurnTaken(tier, tier[Place(counter, n)]),
         counter' = Counted(counter)
  PROVE  TurnsInv'
<1> DEFINE old == IF turns.tier = tier THEN turns.count ELSE [b \in Accounts |-> 0]
           p == Place(counter, n)
           a == tier[p]
           count == [old EXCEPT ![a] = @ + 1]
           all == \A k \in DOMAIN tier : count[tier[k]] > 0
           next == IF all THEN [b \in Accounts |-> IF count[b] > 0 THEN count[b] - 1 ELSE 0] ELSE count
<1>1. n \in 1..N /\ n \in Nat /\ n >= 2
  BY Constants
<1>2. turns'.tier = tier /\ turns'.count = next
  BY DEF TurnTaken
<1>3. \E m \in 0..(n - 1) : Rotation(tier, old, counter, n, m)
  <2>1. CASE turns.tier = tier
    <3>1. DOMAIN tier = 1..n /\ 1 \in 1..n
      BY <1>1
    <3>2. tier # <<>>
      BY <3>1
    <3>3. PICK o \in 1..N : \E m \in 0..(o - 1) : Rotation(tier, old, counter, o, m)
      BY <2>1, <3>2 DEF TurnsInv
    <3>4. 1..o = 1..n
      BY <3>1, <3>3 DEF Rotation
    <3>5. o = n
      BY <3>4, <1>1
    <3> QED BY <3>3, <3>5
  <2>2. CASE turns.tier # tier
    <3>1. old = [b \in Accounts |-> 0]
      BY <2>2
    <3>2. \A k \in 1..n : tier[k] \in Accounts /\ ~(Ahead(k, counter, n) >= n - 0)
      BY <1>1, TurnMovesOn
    <3> HIDE DEF old
    <3>3. Rotation(tier, old, counter, n, 0)
      BY <3>1, <3>2 DEF Rotation
    <3> QED BY <1>1, <3>3
  <2> QED BY <2>1, <2>2
<1>4. PICK m \in 0..(n - 1) : Rotation(tier, old, counter, n, m)
  BY <1>3
<1>5. /\ p \in 1..n /\ a \in Accounts
      /\ \A k \in 1..n : /\ Ahead(k, counter, n) \in 0..(n - 1)
                         /\ k = p => Ahead(k, counter, n) = 0
                         /\ k # p => Ahead(k, counter, n) >= 1
                         /\ Ahead(k, counter', n) = IF k = p THEN n - 1 ELSE Ahead(k, counter, n) - 1
  <2>1. p \in 1..n /\ a \in Accounts
    BY <1>1, TurnMovesOn
  <2>2. ASSUME NEW k \in 1..n
        PROVE  /\ Ahead(k, counter, n) \in 0..(n - 1)
               /\ k = p => Ahead(k, counter, n) = 0
               /\ k # p => Ahead(k, counter, n) >= 1
               /\ Ahead(k, counter', n) = IF k = p THEN n - 1 ELSE Ahead(k, counter, n) - 1
    <3>1. Ahead(k, counter, n) \in 0..(n - 1)
      BY <1>1, TurnMovesOn
    <3>2. Ahead(k, counter', n) = IF k = p THEN n - 1 ELSE Ahead(k, counter, n) - 1
      BY <1>1, TurnMovesOn
    <3>3. (k = p => Ahead(k, counter, n) = 0) /\ (k # p => Ahead(k, counter, n) >= 1)
      BY <1>1, <2>1 DEF Ahead
    <3> QED BY <3>1, <3>2, <3>3
  <2> QED BY <2>1, <2>2
<1>6. /\ old \in [Accounts -> {0, 1}]
      /\ \A k \in 1..n : old[tier[k]] = IF Ahead(k, counter, n) >= n - m THEN 1 ELSE 0
  BY <1>4 DEF Rotation
<1>7. /\ old[a] = 0
      /\ \A b \in Accounts : count[b] = IF b = a THEN 1 ELSE old[b]
      /\ count \in [Accounts -> {0, 1}]
  <2> HIDE DEF old, p
  <2>1. old[a] = 0
    BY <1>1, <1>5, <1>6
  <2> HIDE DEF a
  <2>2. \A b \in Accounts : count[b] = IF b = a THEN 1 ELSE old[b]
    BY <1>6, <2>1
  <2> QED BY <1>5, <1>6, <2>1, <2>2
<1> HIDE DEF old, p, count
<1>8. ASSUME NEW k \in 1..n
      PROVE  count[tier[k]] = IF Ahead(k, counter', n) >= n - (m + 1) THEN 1 ELSE 0
  <2>1. tier[k] \in Accounts /\ (tier[k] = a <=> k = p)
    BY <1>5
  <2> HIDE DEF a
  <2> QED BY <1>1, <1>5, <1>6, <1>7, <2>1
<1>9. CASE m = n - 1
  <2>1. ASSUME NEW k \in 1..n PROVE count[tier[k]] = 1
    <3>1. Ahead(k, counter', n) >= 0
      BY <1>1, <1>5
    <3>2. n - (m + 1) = 0
      BY <1>1, <1>9
    <3> QED BY <1>8, <3>1, <3>2
  <2>2. all
    BY <2>1
  <2>3. next = [b \in Accounts |-> IF count[b] > 0 THEN count[b] - 1 ELSE 0]
    BY <2>2
  <2> HIDE DEF all, next
  <2>4. next \in [Accounts -> {0, 1}] /\ \A k \in 1..n : next[tier[k]] = 0
    BY <1>7, <2>1, <2>3
  <2>5. \A k \in 1..n : ~(Ahead(k, counter', n) >= n - 0)
    BY <1>1, <1>5
  <2>6. Rotation(tier, next, counter', n, 0) /\ 0 \in 0..(n - 1)
    BY <1>1, <2>4, <2>5 DEF Rotation
  <2>7. \E o \in 0..(n - 1) : Rotation(turns'.tier, turns'.count, counter', n, o)
    BY <1>2, <2>6
  <2> QED BY <1>1, <2>7 DEF TurnsInv, Rotation, Ahead, Place
<1>10. CASE m # n - 1
  <2>1. m + 1 \in 0..(n - 1)
    BY <1>1, <1>10
  <2>2. \E k \in 1..n : count[tier[k]] = 0
    <3>1. PICK k \in 1..n : Ahead(k, counter', n) = 0
      <4>1. CASE p = n
        <5>1. 1 \in 1..n /\ 1 # p /\ Ahead(1, counter, n) = 1
          BY <1>1, <4>1 DEF Ahead, p
        <5>2. Ahead(1, counter', n) = 0
          BY <1>5, <5>1
        <5> QED BY <5>1, <5>2
      <4>2. CASE p # n
        <5>1. p + 1 \in 1..n /\ p + 1 # p
          BY <1>1, <1>5, <4>2
        <5>2. Ahead(p + 1, counter, n) = 1
          BY <1>1, <1>5, <5>1 DEF Ahead, p
        <5>3. Ahead(p + 1, counter', n) = 0
          BY <1>5, <5>1, <5>2
        <5> QED BY <5>1, <5>3
      <4> QED BY <4>1, <4>2
    <3>2. ~(0 >= n - (m + 1))
      BY <1>1, <2>1
    <3> QED BY <1>8, <3>1, <3>2
  <2>3. ~all
    BY <2>2
  <2>4. next = count
    BY <2>3
  <2> HIDE DEF all, next
  <2>5. Rotation(tier, next, counter', n, m + 1)
    BY <1>7, <1>8, <2>4 DEF Rotation
  <2>6. \E o \in 0..(n - 1) : Rotation(turns'.tier, turns'.count, counter', n, o)
    BY <1>2, <2>1, <2>5
  <2> QED BY <1>1, <2>6 DEF TurnsInv, Rotation, Ahead, Place
<1> QED BY <1>9, <1>10

(* A request that selects by priority takes its turn.                      *)
LEMMA SelectTakesTurn ==
  ASSUME WorldOK, TurnsInv, NEW r \in Requests, NEW rows \in Rows,
         NEW m \in Metas \cup {NoMeta}, NEW t \in Nat, Select(r, rows, m, t)
  PROVE  TurnsInv'
<1> DEFINE S == {a \in Accounts : Available(a, rows, usage, t)}
           T == TopTier(S)
           n == Cardinality(T)
           rule == Rule(m, rows, S, t)
           first == First(rule, m, rows, usage, S, t)
           takes == rule = "priority" /\ TakeTurns(S)
           tier == Sorted(T, usage)
<1>1. CASE rule = "unavailable" \/ ~takes
  <2>1. UNCHANGED <<counter, turns>>
    BY <1>1 DEF Select
  <2> QED BY <2>1 DEF TurnsInv, Rotation, Ahead, Place
<1>2. CASE rule # "unavailable" /\ takes
  <2>1. /\ counter' = Counted(counter)
        /\ turns' = TurnTaken(tier, first)
        /\ first = Sorted(S, usage)[Place(counter, n)]
    BY <1>2 DEF Select, Counted, First, Turn, Place
  <2>2. PoolOK /\ usage \in Usages /\ counter \in 0..(Wrap - 1)
    BY DEF WorldOK
  <2>3. S \in SUBSET Accounts /\ T \in SUBSET Accounts /\ n > 1
    BY <1>2 DEF TopTier, TakeTurns
  <2> HIDE DEF S, rule, first, takes
  <2>4. n \in 2..N
    BY <2>3, SubsetFinite
  <2>5. Arranged(tier, T, usage)
    BY <2>2, <2>3, SortedArranges
  <2>6. tier \in [1..n -> Accounts] /\ \A j, k \in 1..n : tier[j] = tier[k] => j = k
    BY <2>3, <2>5 DEF Arranged
  <2>7. Place(counter, n) \in 1..n
    BY <2>2, <2>4, Constants, TurnMovesOn
  <2>8. first = tier[Place(counter, n)]
    BY <2>1, <2>2, <2>3, <2>7, TierInOrder
  <2> HIDE DEF n, tier, T
  <2>9. turns' = TurnTaken(tier, tier[Place(counter, n)])
    BY <2>1, <2>8
  <2> QED BY <2>1, <2>2, <2>4, <2>6, <2>9, TurnTakenRotates
<1> QED BY <1>1, <1>2

LEMMA TurnsStay ==
  ASSUME TurnsInv, UNCHANGED <<counter, turns>>
  PROVE  TurnsInv'
BY DEF TurnsInv, Rotation, Ahead, Place

LEMMA StepTurns == Inv /\ TurnsInv /\ [Next]_vars => TurnsInv'
<1> SUFFICES ASSUME Inv, TurnsInv, [Next]_vars PROVE TurnsInv'
  OBVIOUS
<1>1. ASSUME NEW r \in Requests, NEW m \in Metas, ArriveCached(r, m) PROVE TurnsInv'
  <2>1. Select(r, cache.rows, m, clock) /\ cache.rows \in Rows /\ clock \in Nat
    BY <1>1 DEF ArriveCached, CacheFresh, Inv, WorldOK
  <2> QED BY <2>1, SelectTakesTurn DEF Inv
<1>2. ASSUME NEW r \in Requests, StoreRows(r) PROVE TurnsInv'
  <2>1. /\ Select(r, req[r].rows, req[r].meta, req[r].now)
        /\ req[r].rows \in Rows /\ req[r].now \in Nat /\ req[r].meta \in Metas \cup {NoMeta}
    BY <1>2 DEF StoreRows, Inv, RequestsOK, Sound, Request
  <2> QED BY <2>1, SelectTakesTurn DEF Inv
<1>3. ASSUME NEW r \in Requests,
             \/ \E m \in Metas : ArriveUncached(r, m)
             \/ ReadRows(r) \/ Disconnect(r) \/ Skip(r)
             \/ PassOn400(r) \/ RateLimited(r) \/ AuthFailed(r) \/ AttemptFails(r)
             \/ \E header \in BOOLEAN : Serve(r, header) \/ BreakOff(r, header)
             \/ \E w \in pend[r], connected \in BOOLEAN : RunWrite(r, w, connected)
      PROVE  UNCHANGED <<counter, turns>>
  <2>1. ASSUME NEW v, NEW writes, Asked(r, v, writes) PROVE UNCHANGED <<counter, turns>>
    BY <2>1 DEF Asked
  <2>2. CASE \/ PassOn400(r) \/ RateLimited(r) \/ AuthFailed(r) \/ AttemptFails(r)
             \/ \E header \in BOOLEAN : Serve(r, header) \/ BreakOff(r, header)
    BY <2>1, <2>2 DEF PassOn400, RateLimited, AuthFailed, AttemptFails, Serve, BreakOff
  <2> QED BY <1>3, <2>2 DEF ArriveUncached, ReadRows, Disconnect, Skip, RunWrite
<1>4. ASSUME \/ \E a \in Accounts : Add(a)
             \/ \E a \in Changing :
                  \/ TogglePause(a) \/ Remove(a)
                  \/ \E level \in UsageLevels \cup {Missing} : Poll(a, level)
             \/ Tick
      PROVE  UNCHANGED <<counter, turns>>
  BY <1>4 DEF Add, TogglePause, Remove, Poll, Edited, Tick
<1>5. CASE UNCHANGED vars
  BY <1>5, TurnsStay DEF vars
<1>6. CASE Next
  BY <1>1, <1>2, <1>3, <1>4, <1>6, TurnsStay DEF Next
<1> QED BY <1>5, <1>6

(* While a tier stays as it is, no account of it gets two turns more than  *)
(* another, however many requests there are and however their steps        *)
(* interleave (load-balancer/src/lib.rs, round_robin_counter).             *)
THEOREM TurnsAreFair == Spec => []Balanced
<1>1. Init => TurnsInv
  BY DEF Init, TurnsInv
<1>2. TurnsInv => Balanced
  <2> SUFFICES ASSUME TurnsInv, NEW j \in DOMAIN turns.tier, NEW k \in DOMAIN turns.tier
               PROVE  turns.count[turns.tier[j]] <= turns.count[turns.tier[k]] + 1
    BY DEF Balanced
  <2>1. turns.tier # <<>>
    OBVIOUS
  <2>2. PICK n \in 1..N : \E m \in 0..(n - 1) : Rotation(turns.tier, turns.count, counter, n, m)
    BY <2>1 DEF TurnsInv
  <2>3. /\ turns.tier[j] \in Accounts /\ turns.tier[k] \in Accounts
        /\ turns.count \in [Accounts -> {0, 1}]
    BY <2>2 DEF Rotation
  <2>4. turns.count[turns.tier[j]] \in {0, 1} /\ turns.count[turns.tier[k]] \in {0, 1}
    BY <2>3
  <2> QED BY <2>4
<1> QED BY <1>1, <1>2, StepTurns, Invariance, PTL DEF Spec

=============================================================================
