------------------------- MODULE AutoRefresh_proofs -------------------------
(***************************************************************************)
(* Theorems of AutoRefresh, for every number of accounts, every interval   *)
(* and every length of a window.                                           *)
(***************************************************************************)
EXTENDS AutoRefresh, TLAPS

LEMMA Constants ==
  /\ N \in Nat \ {0} /\ Interval \in Nat \ {0} /\ MaxBackoff \in Nat \ {0}
  /\ Window \in Nat \ {0} /\ Limit \in Nat \ {0} /\ MaxRestarts \in Nat
  /\ Used \subseteq Accounts
BY AutoRefreshAssumption DEF Accounts

-----------------------------------------------------------------------------
(* Types *)

(* Instants that lie at most max ahead, or are not known.                  *)
Ahead(max) == {None} \cup 0..max

(* TypeOK without the scheduler's own registers.                           *)
RowsOK ==
  /\ enabled \in [Accounts -> BOOLEAN]
  /\ paused \in [Accounts -> BOOLEAN]
  /\ marked \in [Accounts -> BOOLEAN]
  /\ limited \in [Accounts -> 0..Limit]
  /\ reset \in [Accounts -> Ahead(Window)]
  /\ window \in [Accounts -> 0..Window]
  /\ last \in [Accounts -> Ahead(Window)]
  /\ late \subseteq Writes
  /\ seen \in [Accounts -> BOOLEAN]

LoopOK ==
  /\ mult \in 1..MaxBackoff
  /\ sleep \in 0..(Interval * MaxBackoff)
  /\ todo \subseteq Accounts
  /\ restarts \in 0..MaxRestarts

LEMMA Types == TypeOK <=> RowsOK /\ LoopOK
BY DEF TypeOK, RowsOK, LoopOK, Ahead

(* An instant that is one tick nearer.                                     *)
LEMMA LaterFacts ==
  ASSUME NEW max \in Nat
  PROVE  /\ \A x \in 0..max : Later(x) \in 0..max
         /\ \A x \in Ahead(max) : Later(x) \in Ahead(max)
         /\ Later(None) = None
BY DEF Later, Ahead, None

(* The end of a window, and how its header is read.                        *)
LEMMA ServedFacts ==
  ASSUME RowsOK, NEW a \in Accounts, NEW header \in Headers
  PROVE  /\ Served(a) \in 1..Window
         /\ window[a] > 0 => Served(a) = window[a]
         /\ Parsed(header, Served(a)) \in {None, 0, Served(a)}
         /\ header = "ms" => Recorded(header, Served(a)) = Served(a)
         /\ Recorded(header, Served(a)) \in Ahead(Window)
<1>1. window[a] \in 0..Window /\ Window \in Nat \ {0}
  BY Constants DEF RowsOK
<1>2. header \in {"ms", "seconds", "none"}
  BY DEF Headers
<1> QED BY <1>1, <1>2 DEF Served, Parsed, Recorded, Ahead

(* A spawned write joins the others, or is skipped.                        *)
LEMMA SpawnFacts ==
  ASSUME NEW w, Spawn(w)
  PROVE  late' = late \/ late' = late \cup {w}
BY DEF Spawn

(* The writes after an answer and after a refusal.                         *)
LEMMA WriteTypes ==
  ASSUME RowsOK, NEW a \in Accounts
  PROVE  /\ \A header \in Headers :
               [acct |-> a, col |-> "reset", at |-> Parsed(header, Served(a))] \in Writes
         /\ Limiting(a) \in Writes /\ Marking(a) \in Writes
<1>1. 1..Window \subseteq 0..Window /\ Limit \in 0..Limit /\ 0 \in 0..Window
  BY Constants
<1>2. ASSUME NEW header \in Headers
      PROVE  [acct |-> a, col |-> "reset", at |-> Parsed(header, Served(a))] \in Writes
  <2>1. Parsed(header, Served(a)) \in {None} \cup 0..Window
    BY <1>1, ServedFacts
  <2> QED BY <2>1 DEF Writes
<1>3. Limiting(a) \in Writes /\ Marking(a) \in Writes
  BY <1>1 DEF Limiting, Marking, Writes
<1> QED BY <1>2, <1>3

(* The loop sleeps no longer than with the largest multiplier.             *)
LEMMA SleepBound ==
  ASSUME NEW m \in 1..MaxBackoff
  PROVE  /\ Interval * m \in 0..(Interval * MaxBackoff)
         /\ 0 \in 0..(Interval * MaxBackoff)
<1>1. /\ Interval \in Nat /\ m \in Nat /\ MaxBackoff - m \in Nat /\ MaxBackoff \in Nat
  BY Constants
<1>2. Interval * (MaxBackoff - m) \in Nat /\ Interval * m \in Nat
  BY <1>1
<1>3. Interval * MaxBackoff = Interval * m + Interval * (MaxBackoff - m)
  BY <1>1
<1> QED BY <1>1, <1>2, <1>3

LEMMA AdvanceOK ==
  ASSUME NEW rest \in SUBSET Accounts, Advance(rest), mult' \in 1..MaxBackoff
  PROVE  todo' \subseteq Accounts /\ sleep' \in 0..(Interval * MaxBackoff)
<1>1. Interval * mult' \in 0..(Interval * MaxBackoff) /\ 0 \in 0..(Interval * MaxBackoff)
  BY SleepBound, Constants
<1> QED BY <1>1 DEF Advance

LEMMA AbortOK ==
  ASSUME LoopOK, Abort
  PROVE  LoopOK'
<1>1. mult' \in 1..MaxBackoff
  BY Constants DEF LoopOK, Abort, Doubled
<1>2. todo' \subseteq Accounts /\ sleep' \in 0..(Interval * MaxBackoff)
  BY <1>1, AdvanceOK DEF Abort
<1> QED BY <1>1, <1>2 DEF LoopOK, Abort

-----------------------------------------------------------------------------
(* What the scheduler knows *)

(* What was told the scheduler and the row is true, until somebody tells   *)
(* them otherwise.                                                         *)
SeenInv == \A a \in Accounts : seen[a] => Agreed(a)

(* An instant to come that a write has yet to bring is the end of the      *)
(* current window.                                                         *)
LateInv ==
  \A w \in late : w.col = "reset" /\ w.at > 0 => w.at = window[w.acct]

Told == SeenInv /\ LateInv

(* Without such knowledge the account may be due, with it it is not.       *)
LEMMA KnownIsNotDue ==
  ASSUME RowsOK, NEW a \in Accounts, Agreed(a)
  PROVE  ~ShouldRefresh(a)
<1>1. window[a] \in Nat
  BY Constants DEF RowsOK
<1> QED BY <1>1 DEF Agreed, ShouldRefresh, None

LEMMA InitOK == Init => RowsOK /\ LoopOK /\ Told
<1> SUFFICES ASSUME Init PROVE RowsOK /\ LoopOK /\ Told
  OBVIOUS
<1>1. Interval \in 0..(Interval * MaxBackoff)
  <2>1. Interval * 1 \in 0..(Interval * MaxBackoff)
    BY SleepBound, Constants
  <2> QED BY <2>1, Constants
<1>2. RowsOK
  BY Constants DEF Init, RowsOK, Ahead
<1>3. LoopOK
  BY <1>1, Constants DEF Init, LoopOK
<1>4. Told
  BY DEF Init, Told, SeenInv, LateInv
<1> QED BY <1>2, <1>3, <1>4

LEMMA CheckKeeps ==
  ASSUME RowsOK, LoopOK, Told, NEW ids \in BOOLEAN, NEW rows \in BOOLEAN, Check(ids, rows)
  PROVE  RowsOK' /\ LoopOK' /\ Told'
<1>1. /\ last' = [a \in Accounts |-> IF ids /\ enabled[a] THEN last[a] ELSE None]
      /\ seen' = [a \in Accounts |-> ids /\ enabled[a] /\ seen[a]]
      /\ UNCHANGED <<enabled, paused, marked, limited, reset, window, mult, late, restarts>>
  BY DEF Check, rowVars
<1>2. RowsOK'
  BY <1>1 DEF RowsOK, Ahead
<1>3. LoopOK'
  <2>1. todo' \subseteq Accounts /\ sleep' = IF todo' = {} THEN Interval * mult ELSE 0
    BY DEF Check
  <2>2. Interval * mult \in 0..(Interval * MaxBackoff) /\ 0 \in 0..(Interval * MaxBackoff)
    BY SleepBound, Constants DEF LoopOK
  <2> QED BY <1>1, <2>1, <2>2 DEF LoopOK
<1>4. ASSUME NEW a \in Accounts, seen'[a] PROVE Agreed(a)'
  BY <1>1, <1>4 DEF Told, SeenInv, Agreed
<1>5. LateInv'
  BY <1>1 DEF Told, LateInv
<1> QED BY <1>2, <1>3, <1>4, <1>5 DEF Told, SeenInv

(* A request is served: the window may be a new one, then no write brings  *)
(* an instant of an earlier one that is still to come.                     *)
LEMMA ServedKeeps ==
  ASSUME RowsOK, Told, NEW a \in Accounts, NEW header \in Headers,
         window' = [window EXCEPT ![a] = Served(a)],
         Spawn([acct |-> a, col |-> "reset", at |-> Parsed(header, Served(a))])
  PROVE  window' \in [Accounts -> 0..Window] /\ late' \subseteq Writes /\ LateInv'
<1> DEFINE w0 == [acct |-> a, col |-> "reset", at |-> Parsed(header, Served(a))]
<1>1. /\ Served(a) \in 1..Window /\ (window[a] > 0 => Served(a) = window[a])
      /\ Parsed(header, Served(a)) \in {None, 0, Served(a)}
  BY ServedFacts
<1>2. late' = late \/ late' = late \cup {w0}
  BY SpawnFacts
<1>3. w0 \in Writes /\ late \subseteq Writes
  BY WriteTypes DEF RowsOK
<1>4. window' \in [Accounts -> 0..Window]
  BY <1>1, Constants DEF RowsOK
<1>5. ASSUME NEW w \in late', w.col = "reset", w.at > 0 PROVE w.at = window'[w.acct]
  <2>1. CASE w \in late
    <3>1. w.at = window[w.acct] /\ w.acct \in Accounts
      BY <1>3, <1>5, <2>1 DEF Told, LateInv, Writes
    <3>2. w.acct = a => window[a] > 0
      BY <1>5, <3>1
    <3> QED BY <1>1, <3>1, <3>2 DEF RowsOK
  <2>2. CASE w = w0
    <3>1. w.acct = a /\ w.at = Parsed(header, Served(a)) /\ window'[a] = Served(a)
      BY <2>2 DEF RowsOK
    <3> QED BY <1>1, <1>5, <3>1 DEF None
  <2> QED BY <1>2, <1>5, <2>1, <2>2
<1> HIDE DEF w0
<1> QED BY <1>2, <1>3, <1>4, <1>5 DEF LateInv

LEMMA SucceedKeeps ==
  ASSUME RowsOK, LoopOK, Told, NEW p \in Accounts, NEW header \in Headers,
         Succeed(p, header)
  PROVE  RowsOK' /\ LoopOK' /\ Told'
<1>1. /\ window' = [window EXCEPT ![p] = Served(p)]
      /\ last' = [last EXCEPT ![p] = Recorded(header, Served(p))]
      /\ Spawn([acct |-> p, col |-> "reset", at |-> Parsed(header, Served(p))])
      /\ seen' = [seen EXCEPT ![p] = Agreed(p)']
      /\ mult' = 1 /\ Advance(todo \ {p})
      /\ UNCHANGED <<enabled, paused, marked, limited, reset, restarts>>
  BY DEF Succeed, rowVars
<1>3. Served(p) \in 1..Window /\ Recorded(header, Served(p)) \in Ahead(Window)
  BY ServedFacts
<1>4. window' \in [Accounts -> 0..Window] /\ late' \subseteq Writes /\ LateInv'
  BY <1>1, ServedKeeps
<1>5. RowsOK'
  <2>1. last' \in [Accounts -> Ahead(Window)]
    BY <1>1, <1>3 DEF RowsOK
  <2>2. Agreed(p)' \in BOOLEAN
    BY DEF Agreed
  <2>3. seen' \in [Accounts -> BOOLEAN]
    BY <1>1, <2>2 DEF RowsOK
  <2> QED BY <1>1, <1>4, <2>1, <2>3 DEF RowsOK
<1>6. LoopOK'
  <2>1. mult' \in 1..MaxBackoff /\ todo \ {p} \in SUBSET Accounts
    BY <1>1, Constants DEF LoopOK
  <2> QED BY <1>1, <2>1, AdvanceOK DEF LoopOK
<1>7. ASSUME NEW a \in Accounts, seen'[a] PROVE Agreed(a)'
  <2>1. CASE a = p
    BY <1>1, <1>7, <2>1 DEF RowsOK
  <2>2. CASE a # p
    BY <1>1, <1>7, <2>2 DEF RowsOK, Told, SeenInv, Agreed
  <2> QED BY <2>1, <2>2
<1> QED BY <1>4, <1>5, <1>6, <1>7 DEF Told, SeenInv

(* A request that fails tells the scheduler nothing.                       *)
LEMMA FailureKeeps ==
  ASSUME RowsOK, LoopOK, Told, NEW p \in Accounts, Unavailable(p) \/ Refused(p) \/ Fail(p)
  PROVE  RowsOK' /\ LoopOK' /\ Told'
<1>1. UNCHANGED <<enabled, paused, marked, limited, reset, window, last, seen>>
  BY DEF Unavailable, Refused, Fail, Abort, rowVars
<1>2. late' = late \/ (\E w \in Writes : w.col # "reset" /\ late' = late \cup {w})
  <2>1. CASE Refused(p)
    <3>1. Limiting(p) \in Writes /\ Marking(p) \in Writes
      BY WriteTypes
    <3> QED BY <2>1, <3>1, SpawnFacts DEF Refused, Limiting, Marking
  <2> QED BY <2>1 DEF Unavailable, Fail
<1>3. RowsOK' /\ Told'
  BY <1>1, <1>2 DEF RowsOK, Told, SeenInv, LateInv, Agreed
<1>4. LoopOK'
  <2>1. CASE Fail(p)
    <3>1. Others(p) \in SUBSET Accounts /\ mult' \in 1..MaxBackoff
      BY <2>1 DEF Fail, Others, LoopOK
    <3> QED BY <2>1, <3>1, AdvanceOK DEF Fail, LoopOK
  <2> QED BY <2>1, AbortOK DEF Unavailable, Refused
<1> QED BY <1>3, <1>4

(* A late write brings the end of the current window, or the scheduler no  *)
(* longer counts as told.                                                  *)
LEMMA WriteKeeps ==
  ASSUME RowsOK, LoopOK, Told, NEW w \in late, WriteRow(w) \/ SkipWrite(w)
  PROVE  RowsOK' /\ LoopOK' /\ Told'
<1>0. w \in Writes /\ w.acct \in Accounts
  BY DEF RowsOK, Writes
<1>1. /\ late' = late \ {w}
      /\ UNCHANGED <<enabled, paused, window, last, mult, sleep, todo, restarts>>
  BY DEF WriteRow, SkipWrite, rowVars, stateVars
<1>2. LoopOK' /\ LateInv'
  BY <1>1 DEF LoopOK, Told, LateInv
<1>3. CASE SkipWrite(w)
  <2>1. UNCHANGED <<marked, limited, reset, seen>>
    BY <1>3 DEF SkipWrite, rowVars
  <2> QED BY <1>1, <1>2, <2>1 DEF RowsOK, Told, SeenInv, Agreed
<1>4. CASE WriteRow(w) /\ w.col = "reset"
  <2>1. /\ reset' = [reset EXCEPT ![w.acct] = w.at] /\ UNCHANGED <<marked, limited>>
        /\ seen' = [seen EXCEPT ![w.acct] = w.at # 0 /\ (@ \/ Agreed(w.acct)')]
    BY <1>4 DEF WriteRow
  <2>2. w.at \in {None, 0} \/ (w.at > 0 /\ w.at = window[w.acct])
    BY <1>0, <1>4, Constants DEF Told, LateInv, Writes
  <2>3. window \in [Accounts -> 0..Window] /\ Window \in Nat
    BY Constants DEF RowsOK
  <2>4. w.at \in Ahead(Window)
    BY <1>0, <2>2, <2>3 DEF Ahead
  <2>5. RowsOK'
    BY <1>1, <2>1, <2>4 DEF RowsOK
  <2>6. ASSUME NEW a \in Accounts, seen'[a] PROVE Agreed(a)'
    <3>1. CASE a = w.acct /\ ~Agreed(a)'
      <4>1. w.at # 0 /\ seen[a]
        BY <2>1, <2>6, <3>1 DEF RowsOK
      <4>2. Agreed(a) /\ reset'[a] = w.at
        BY <2>1, <3>1, <4>1 DEF RowsOK, Told, SeenInv
      <4> QED BY <1>1, <2>2, <3>1, <4>1, <4>2 DEF Agreed
    <3>2. CASE a # w.acct
      BY <1>1, <2>1, <2>6, <3>2 DEF RowsOK, Told, SeenInv, Agreed
    <3> QED BY <3>1, <3>2
  <2> QED BY <1>2, <2>5, <2>6 DEF Told, SeenInv
<1>5. CASE WriteRow(w) /\ w.col = "limited"
  <2>1. /\ limited' = [limited EXCEPT ![w.acct] = w.at] /\ UNCHANGED <<marked, reset>>
        /\ seen' = [seen EXCEPT ![w.acct] = @]
    BY <1>5 DEF WriteRow
  <2>2. w.at \in 0..Limit
    BY <1>0, <1>5 DEF Writes
  <2>3. RowsOK'
    BY <1>1, <2>1, <2>2 DEF RowsOK
  <2>4. SeenInv'
    BY <1>1, <2>1 DEF RowsOK, Told, SeenInv, Agreed
  <2> QED BY <1>2, <2>3, <2>4 DEF Told
<1>6. CASE WriteRow(w) /\ w.col = "marked"
  <2>1. /\ marked' = [marked EXCEPT ![w.acct] = TRUE]
        /\ reset' = [reset EXCEPT ![w.acct] = None] /\ UNCHANGED limited
        /\ seen' = [seen EXCEPT ![w.acct] = @]
    BY <1>6 DEF WriteRow
  <2>2. RowsOK'
    BY <1>1, <2>1 DEF RowsOK, Ahead
  <2>3. SeenInv'
    BY <1>1, <2>1 DEF RowsOK, Told, SeenInv, Agreed
  <2> QED BY <1>2, <2>2, <2>3 DEF Told
<1> QED BY <1>0, <1>3, <1>4, <1>5, <1>6 DEF Writes

(* What clients and the user do leaves the window known, or forgets it.    *)
LEMMA EnvironmentKeeps ==
  ASSUME RowsOK, LoopOK, Told, Environment
  PROVE  RowsOK' /\ LoopOK' /\ Told'
<1>1. ASSUME NEW a \in Accounts, NEW header \in Headers, ClientServed(a, header)
      PROVE  RowsOK' /\ LoopOK' /\ Told'
  <2>1. /\ window' = [window EXCEPT ![a] = Served(a)]
        /\ UNCHANGED <<enabled, paused, marked, limited, reset, last, mult, sleep, todo,
                       restarts, seen>>
    BY <1>1 DEF ClientServed, stateVars, rowVars
  <2>2. window' \in [Accounts -> 0..Window] /\ late' \subseteq Writes /\ LateInv'
    BY <1>1, ServedKeeps DEF ClientServed
  <2>3. RowsOK' /\ LoopOK'
    BY <2>1, <2>2 DEF RowsOK, LoopOK
  <2>4. ASSUME NEW b \in Accounts, seen'[b] PROVE Agreed(b)'
    <3>1. Agreed(b)
      BY <2>1, <2>4 DEF Told, SeenInv
    <3>2. window'[b] = window[b]
      BY <2>1, <3>1 DEF RowsOK, Agreed, Served
    <3> QED BY <2>1, <3>1, <3>2 DEF Agreed
  <2> QED BY <2>2, <2>3, <2>4 DEF Told, SeenInv
<1>2. ASSUME NEW a \in Accounts, ClientRefused(a) PROVE RowsOK' /\ LoopOK' /\ Told'
  <2>1. UNCHANGED <<enabled, paused, marked, limited, reset, window, last, mult, sleep, todo,
                   restarts, seen>>
    BY <1>2 DEF ClientRefused, stateVars, rowVars
  <2>2. Limiting(a) \in Writes /\ Marking(a) \in Writes
    BY WriteTypes
  <2>3. late' = late \/ (\E w \in Writes : w.col # "reset" /\ late' = late \cup {w})
    BY <1>2, <2>2, SpawnFacts DEF ClientRefused, Limiting, Marking
  <2> QED BY <2>1, <2>3 DEF RowsOK, LoopOK, Told, SeenInv, LateInv, Agreed
<1>3. ASSUME NEW a \in Accounts, Reauthenticate(a) \/ Switch(a)
      PROVE  RowsOK' /\ LoopOK' /\ Told'
  <2>1. /\ UNCHANGED <<window, last, mult, sleep, todo, late, restarts, seen>>
        /\ UNCHANGED enabled \/ enabled' = [enabled EXCEPT ![a] = ~@]
        /\ UNCHANGED paused \/ paused' = [paused EXCEPT ![a] = ~@]
        /\ UNCHANGED marked \/ marked' = [marked EXCEPT ![a] = FALSE]
        /\ UNCHANGED limited \/ limited' = [limited EXCEPT ![a] = 0]
        /\ UNCHANGED reset \/ reset' = [reset EXCEPT ![a] = None]
    BY <1>3 DEF Reauthenticate, Switch, stateVars
  <2>2. RowsOK'
    <3>1. /\ enabled' \in [Accounts -> BOOLEAN] /\ paused' \in [Accounts -> BOOLEAN]
          /\ marked' \in [Accounts -> BOOLEAN]
      BY <2>1 DEF RowsOK
    <3>2. limited' \in [Accounts -> 0..Limit]
      BY <2>1, Constants DEF RowsOK
    <3>3. reset' \in [Accounts -> Ahead(Window)]
      BY <2>1 DEF RowsOK, Ahead
    <3> QED BY <2>1, <3>1, <3>2, <3>3 DEF RowsOK
  <2>3. LoopOK' /\ LateInv'
    BY <2>1 DEF LoopOK, Told, LateInv
  <2>4. ASSUME NEW b \in Accounts, seen'[b] PROVE Agreed(b)'
    BY <2>1, <2>4 DEF RowsOK, Told, SeenInv, Agreed
  <2> QED BY <2>2, <2>3, <2>4 DEF Told, SeenInv
<1>4. CASE Restart
  <2>1. RowsOK'
    BY <1>4, Constants DEF Restart, RowsOK, Ahead
  <2>2. LoopOK'
    <3>1. Interval * 1 \in 0..(Interval * MaxBackoff)
      BY SleepBound, Constants
    <3>2. Interval * 1 = Interval
      BY Constants
    <3> QED BY <1>4, <3>1, <3>2, Constants DEF Restart, LoopOK
  <2>3. Told'
    BY <1>4 DEF Restart, Told, SeenInv, LateInv
  <2> QED BY <2>1, <2>2, <2>3
<1> QED BY <1>1, <1>2, <1>3, <1>4, WriteKeeps, Constants DEF Environment

LEMMA TickKeeps ==
  ASSUME RowsOK, LoopOK, Told, Tick
  PROVE  RowsOK' /\ LoopOK' /\ Told'
<1>1. /\ sleep' = Later(sleep)
      /\ limited' = [a \in Accounts |-> Later(limited[a])]
      /\ reset' = [a \in Accounts |-> Later(reset[a])]
      /\ window' = [a \in Accounts |-> Later(window[a])]
      /\ last' = [a \in Accounts |-> Later(last[a])]
      /\ late' = {[w EXCEPT !.at = Later(@)] : w \in late}
      /\ seen' = [a \in Accounts |-> seen[a] /\ window[a] > 1]
      /\ UNCHANGED <<enabled, paused, marked, mult, todo, restarts>>
  BY DEF Tick
<1>2. ASSUME NEW v \in late'
      PROVE  /\ v \in Writes
             /\ v.col = "reset" /\ v.at > 0 => v.at = window'[v.acct]
  <2>1. PICK w \in late : v = [w EXCEPT !.at = Later(w.at)]
    BY <1>1
  <2>2. w \in Writes
    BY DEF RowsOK
  <2>3. v.acct = w.acct /\ v.col = w.col /\ v.at = Later(w.at) /\ v.acct \in Accounts
    BY <2>1, <2>2 DEF Writes
  <2>4. /\ \A x \in Ahead(Window) : Later(x) \in Ahead(Window)
        /\ \A x \in 0..Limit : Later(x) \in 0..Limit
        /\ Later(None) = None
    BY LaterFacts, Constants
  <2>5. v \in Writes
    BY <2>1, <2>2, <2>4 DEF Writes, Ahead
  <2>6. ASSUME v.col = "reset", v.at > 0 PROVE v.at = window'[v.acct]
    <3>1. w.at > 0
      BY <2>2, <2>3, <2>6, Constants DEF Later, Writes, None
    <3>2. w.at = window[w.acct]
      BY <2>3, <2>6, <3>1 DEF Told, LateInv
    <3> QED BY <1>1, <2>3, <3>2
  <2> QED BY <2>5, <2>6
<1>3. RowsOK'
  <2>1. ASSUME NEW a \in Accounts
        PROVE  /\ limited'[a] \in 0..Limit /\ reset'[a] \in Ahead(Window)
               /\ window'[a] \in 0..Window /\ last'[a] \in Ahead(Window)
    <3>1. /\ limited[a] \in 0..Limit /\ reset[a] \in Ahead(Window)
          /\ window[a] \in 0..Window /\ last[a] \in Ahead(Window)
          /\ Limit \in Nat /\ Window \in Nat
      BY Constants DEF RowsOK
    <3> QED BY <1>1, <3>1, LaterFacts
  <2>2. late' \subseteq Writes
    BY <1>2
  <2> QED BY <1>1, <2>1, <2>2 DEF RowsOK
<1>4. LoopOK'
  <2>1. Interval * MaxBackoff \in Nat
    BY Constants
  <2>2. Later(sleep) \in 0..(Interval * MaxBackoff)
    BY <2>1, LaterFacts DEF LoopOK
  <2> QED BY <1>1, <2>2 DEF LoopOK
<1>5. ASSUME NEW a \in Accounts, seen'[a] PROVE Agreed(a)'
  <2>0. seen[a] /\ window[a] > 1
    BY <1>1, <1>5
  <2>1. Agreed(a) /\ window[a] > 1 /\ window[a] \in Nat
    BY <2>0, Constants DEF Told, SeenInv, RowsOK
  <2>2. window'[a] = window[a] - 1 /\ last'[a] = window[a] - 1
    BY <1>1, <2>1 DEF Agreed, Later
  <2>3. reset'[a] \in {None, window[a] - 1}
    BY <1>1, <2>1 DEF Agreed, Later, None
  <2> QED BY <2>1, <2>2, <2>3 DEF Agreed
<1>6. LateInv'
  BY <1>2 DEF LateInv
<1> QED BY <1>3, <1>4, <1>5, <1>6 DEF Told, SeenInv

-----------------------------------------------------------------------------
(* Every step keeps the types, and what was told stays true.               *)

Inv == RowsOK /\ LoopOK /\ Told

LEMMA StepInv == Inv /\ [Next]_vars => Inv'
<1> SUFFICES ASSUME Inv, [Next]_vars PROVE Inv'
  OBVIOUS
<1>1. RowsOK /\ LoopOK /\ Told
  BY DEF Inv
<1>2. ASSUME NEW ids \in BOOLEAN, NEW rows \in BOOLEAN, Check(ids, rows) PROVE Inv'
  BY <1>1, <1>2, CheckKeeps DEF Inv
<1>3. CASE Step
  <2>1. todo \subseteq Accounts
    BY <1>1 DEF LoopOK
  <2> QED BY <1>1, <1>3, <2>1, SucceedKeeps, FailureKeeps DEF Step, Inv
<1>4. CASE Environment
  BY <1>1, <1>4, EnvironmentKeeps DEF Inv
<1>5. CASE Tick
  BY <1>1, <1>5, TickKeeps DEF Inv
<1>6. CASE UNCHANGED vars
  BY <1>6 DEF vars, rowVars, stateVars, Inv, RowsOK, LoopOK, Told, SeenInv, LateInv,
     Agreed
<1> QED BY <1>2, <1>3, <1>4, <1>5, <1>6 DEF Next

LEMMA Invariance == Spec => []Inv
<1>1. Init => Inv
  BY InitOK DEF Inv
<1> QED BY <1>1, StepInv, PTL DEF Spec

(* Every variable keeps its type: the multiplier stays within its limit    *)
(* and the loop never sleeps longer than the limit allows                  *)
(* (auto_refresh.rs, backoff_multiplier).                                  *)
THEOREM TypeCorrect == Spec => []TypeOK
<1>1. Inv => TypeOK
  BY Types DEF Inv
<1> QED BY <1>1, Invariance, PTL

(* An account is left alone until the window ends that scheduler and row   *)
(* were told of, whatever clients, the user, re-authentications and late    *)
(* writes do meanwhile, as long as none of them tells otherwise            *)
(* (auto_refresh.rs, should_refresh).  The header may have any form.        *)
THEOREM WindowIsQuiet == Spec => QuietWithinWindow
<1>1. Inv /\ [Next]_vars => [\A a \in Accounts : ~Busy /\ a \in todo' => ~seen'[a]]_vars
  <2> SUFFICES ASSUME Inv, Next, NEW a \in Accounts, ~Busy, a \in todo', seen'[a] PROVE FALSE
    BY DEF Busy
  <2>1. todo = {}
    BY DEF Busy
  <2>2. PICK ids \in BOOLEAN, rows \in BOOLEAN : Check(ids, rows)
    <3>1. ~Step
      BY <2>1 DEF Step
    <3>2. Environment \/ Tick => todo' = {}
      BY <2>1 DEF Environment, ClientServed, ClientRefused, WriteRow, SkipWrite,
         Reauthenticate, Switch, Restart, Tick
    <3> QED BY <3>1, <3>2 DEF Next
  <2>3. ids /\ seen[a] /\ ShouldRefresh(a)
    BY <2>2 DEF Check
  <2>4. Agreed(a)
    BY <2>3 DEF Inv, Told, SeenInv
  <2> QED BY <2>3, <2>4, KnownIsNotDue DEF Inv
<1> QED BY <1>1, Invariance, PTL DEF Spec, QuietWithinWindow

=============================================================================
