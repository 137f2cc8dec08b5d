--------------------------- MODULE Startup_proofs ---------------------------
(***************************************************************************)
(* Theorems of Startup, for every number of processes, files, attempts,    *)
(* faults and starts, and whatever predecessors there are.                 *)
(***************************************************************************)
EXTENDS Startup, TLAPS

LEMMA Constants ==
  /\ MaxAttempts \in Nat /\ MaxAttempts >= 1
  /\ MaxFiles \in Nat /\ MaxFaults \in Nat /\ MaxStarts \in Nat
  /\ \A P \in Pasts : P \subseteq {"legacy", "node"}
BY StartupAssumption

-----------------------------------------------------------------------------
(* Type correctness *)

FileNumbers == 0..MaxFiles
Attempts == 0..MaxAttempts
ProcRec == [at : Phases, file : FileNumbers, from : Kinds, attempt : Attempts,
            second : {"none", "past", "last"}]

Opened == {"verify", "backup", "snapshot", "create", "migrate", "indexes", "columns", "serving"}
Closed == {"down", "legacy", "node", "clear", "source", "open"}

LEMMA PhaseNames == Phases = Opened \union Closed \union {"vacuum"}
BY DEF Phases, Opened, Closed

LEMMA Zeros == 0 \in FileNumbers /\ 0 \in Attempts
BY Constants DEF FileNumbers, Attempts

(* A process that has opened a file, or is copying to one, knows which;    *)
(* one file is the target of one copy.                                     *)
FilesOK ==
  /\ \A p \in Procs :
       /\ proc[p].at \in Opened \union {"vacuum"} => proc[p].file # 0
       /\ proc[p].at \in Closed => proc[p].file = 0
  /\ \A p, q \in Procs :
       proc[p].at = "vacuum" /\ proc[q].at = "vacuum" /\ proc[p].file = proc[q].file => p = q

TypeInv == TypeOK /\ FilesOK

LEMMA ProcType == TypeOK => proc \in [Procs -> ProcRec]
BY DEF TypeOK, ProcRec, FileNumbers, Attempts

LEMMA RetryType ==
  ASSUME NEW q \in ProcRec
  PROVE  /\ Retry(q) \in ProcRec
         /\ Retry(q).at \in {"legacy", "down"} /\ Retry(q).file = 0 /\ Retry(q).from = "none"
<1>1. CASE q.attempt < MaxAttempts
  <2>1. Retry(q) = [at |-> "legacy", file |-> 0, from |-> "none", attempt |-> q.attempt + 1,
                    second |-> q.second]
    BY <1>1 DEF Retry, Again
  <2>2. q.attempt + 1 \in Attempts /\ q.second \in {"none", "past", "last"}
    BY <1>1, Constants DEF ProcRec, Attempts
  <2>3. Retry(q) \in ProcRec
    BY <2>1, <2>2, Zeros DEF ProcRec, Phases, Kinds
  <2> QED BY <2>1, <2>3
<1>2. CASE ~(q.attempt < MaxAttempts)
  <2>1. Retry(q) = [at |-> "down", file |-> 0, from |-> "none", attempt |-> 0, second |-> "none"]
    BY <1>2 DEF Retry, Down
  <2>2. Retry(q) \in ProcRec
    BY <2>1, Zeros DEF ProcRec, Phases, Kinds
  <2> QED BY <2>1, <2>2
<1> QED BY <1>1, <1>2

LEMMA DownType == Down \in ProcRec
BY Zeros DEF Down, ProcRec, Phases, Kinds

(* One process moves; where the others are stays.                          *)
Others(p) ==
  \A q \in Procs \ {p} :
    proc'[q].at = proc[q].at /\ proc'[q].file = proc[q].file /\ proc'[q].from = proc[q].from

LEMMA Moves ==
  ASSUME TypeOK, NEW p \in Procs, NEW r \in ProcRec, proc' = [proc EXCEPT ![p] = r]
  PROVE  proc' \in [Procs -> ProcRec] /\ proc'[p] = r /\ Others(p)
BY ProcType DEF Others

LEMMA GoesOn ==
  ASSUME TypeOK, NEW p \in Procs, NEW phase \in Phases, Goes(p, phase)
  PROVE  /\ proc' \in [Procs -> ProcRec] /\ Others(p)
         /\ proc'[p].at = phase /\ proc'[p].file = proc[p].file /\ proc'[p].from = proc[p].from
<1> DEFINE r == [proc[p] EXCEPT !.at = phase]
<1>1. proc[p] \in ProcRec
  BY ProcType
<1>2. r \in ProcRec /\ r.at = phase /\ r.file = proc[p].file /\ r.from = proc[p].from
  BY <1>1 DEF ProcRec
<1>3. proc' = [proc EXCEPT ![p] = r]
  BY ProcType DEF Goes
<1> HIDE DEF r
<1> QED BY <1>2, <1>3, Moves

(* It fails, or ends.                                                      *)
LEMMA FallsBack ==
  ASSUME TypeOK, NEW p \in Procs,
         \/ Fails(p)
         \/ proc' = [proc EXCEPT ![p] = Down]
         \/ proc' = [proc EXCEPT ![p] = Retry(Down)]
  PROVE  /\ proc' \in [Procs -> ProcRec] /\ Others(p)
         /\ proc'[p].at \in {"legacy", "down"} /\ proc'[p].file = 0
<1>1. PICK r \in ProcRec : /\ proc' = [proc EXCEPT ![p] = r]
                           /\ r.at \in {"legacy", "down"} /\ r.file = 0
  <2>1. CASE Fails(p)
    <3>1. proc' = [proc EXCEPT ![p] = Retry(proc[p])] /\ proc[p] \in ProcRec
      BY <2>1, ProcType DEF Fails
    <3> QED BY <3>1, RetryType
  <2>2. CASE proc' = [proc EXCEPT ![p] = Down]
    BY <2>2, DownType DEF Down
  <2>3. CASE proc' = [proc EXCEPT ![p] = Retry(Down)]
    BY <2>3, DownType, RetryType
  <2> QED BY <2>1, <2>2, <2>3
<1> QED BY <1>1, Moves

LEMMA BecomesType ==
  ASSUME TypeOK, NEW p \in Procs, NEW d \in Kinds,
         NEW s \in {"hollow", "broken", "old", "tables", "migrated", "complete"},
         NEW fl \in SUBSET {"doubtful", "short", "unseen"}, Becomes(p, d, s, fl)
  PROVE  /\ files' \in [1..MaxFiles -> File]
         /\ \A n \in 1..MaxFiles : files'[n] =
              IF n = proc[p].file
              THEN [data |-> d, shape |-> s, flaws |-> files[n].flaws \union fl] ELSE files[n]
<1>1. \A n \in 1..MaxFiles : files[n] \in File
  BY DEF TypeOK
<1>2. \A n \in 1..MaxFiles :
        [data |-> d, shape |-> s, flaws |-> files[n].flaws \union fl] \in File
  BY <1>1 DEF File
<1> QED BY <1>1, <1>2 DEF Becomes, TypeOK

LEMMA GrowsType ==
  ASSUME TypeOK, NEW p \in Procs, proc[p].file # 0,
         NEW s \in {"hollow", "broken", "old", "tables", "migrated", "complete"},
         NEW fl \in SUBSET {"doubtful", "short", "unseen"}, Grows(p, s, fl)
  PROVE  /\ files' \in [1..MaxFiles -> File]
         /\ \A n \in 1..MaxFiles : files'[n] =
              IF n = proc[p].file
              THEN [data |-> files[n].data, shape |-> s, flaws |-> files[n].flaws \union fl]
              ELSE files[n]
<1>1. proc[p].file \in 1..MaxFiles
  BY ProcType, Constants DEF ProcRec, FileNumbers
<1>2. Mine(p).data \in Kinds
  BY <1>1 DEF TypeOK, File, Mine
<1>3. Becomes(p, Mine(p).data, s, fl)
  BY DEF Grows
<1>4. /\ files' \in [1..MaxFiles -> File]
      /\ \A n \in 1..MaxFiles : files'[n] =
           IF n = proc[p].file
           THEN [data |-> Mine(p).data, shape |-> s, flaws |-> files[n].flaws \union fl]
           ELSE files[n]
  BY <1>2, <1>3, BecomesType
<1> QED BY <1>4 DEF Mine

LEMMA GrowsMine ==
  ASSUME TypeOK, NEW p \in Procs, proc[p].file \in 1..MaxFiles, proc[p].file # 0,
         NEW s \in {"hollow", "broken", "old", "tables", "migrated", "complete"},
         NEW fl \in SUBSET {"doubtful", "short", "unseen"}, Grows(p, s, fl)
  PROVE  files'[proc[p].file].shape = s /\ fl \subseteq files'[proc[p].file].flaws
<1>1. \A n \in 1..MaxFiles : files'[n] =
        IF n = proc[p].file
        THEN [data |-> files[n].data, shape |-> s, flaws |-> files[n].flaws \union fl]
        ELSE files[n]
  BY GrowsType
<1>2. files'[proc[p].file] = [data |-> Mine(p).data, shape |-> s, flaws |-> Mine(p).flaws \union fl]
  BY <1>1 DEF Mine
<1> QED BY <1>2

(* A file is made at the path, in a slot of no other.                      *)
LEMMA MakesType ==
  ASSUME TypeInv, NEW p \in Procs, NEW phase \in {"vacuum", "verify"},
         NEW fl \in SUBSET {"doubtful", "short", "unseen"}, Makes(p, phase, fl)
  PROVE  /\ proc' \in [Procs -> ProcRec] /\ Others(p)
         /\ path' \in 1..MaxFiles /\ files' \in [1..MaxFiles -> File] /\ unlinked' = unlinked
         /\ proc'[p].at = phase /\ proc'[p].file = path' /\ proc'[p].from = proc[p].from
         /\ path' # path /\ \A q \in Procs : proc[q].file # path'
         /\ \A n \in 1..MaxFiles : files'[n] =
              IF n = path' THEN [data |-> "none", shape |-> "hollow", flaws |-> fl] ELSE files[n]
<1>0. TypeOK /\ proc[p] \in ProcRec
  BY ProcType DEF TypeInv
<1>1. PICK n \in Unused : /\ path' = n
                          /\ files' = [files EXCEPT ![n] = [Empty EXCEPT !.flaws = fl]]
                          /\ proc' = [proc EXCEPT ![p].at = phase, ![p].file = n]
                          /\ UNCHANGED unlinked
  BY DEF Makes
<1>2. n \in 1..MaxFiles /\ n # path /\ \A q \in Procs : proc[q].file # n
  BY DEF Unused
<1> DEFINE r == [proc[p] EXCEPT !.at = phase, !.file = n]
           f == [data |-> "none", shape |-> "hollow", flaws |-> fl]
<1>3. r \in ProcRec /\ r.at = phase /\ r.file = n /\ r.from = proc[p].from
  <2>1. n \in FileNumbers
    BY <1>2, Constants DEF FileNumbers
  <2> QED BY <1>0, <2>1 DEF ProcRec, Phases
<1>4. proc' = [proc EXCEPT ![p] = r]
  BY <1>0, <1>1, ProcType
<1>5. f \in File
  BY DEF File, Kinds
<1>51. [Empty EXCEPT !.flaws = fl] = f
  BY DEF Empty
<1>55. files' = [files EXCEPT ![n] = f]
  BY <1>1, <1>51
<1> HIDE DEF r, f
<1>6. proc' \in [Procs -> ProcRec] /\ proc'[p] = r /\ Others(p)
  BY <1>0, <1>3, <1>4, Moves
<1>7. /\ files' \in [1..MaxFiles -> File]
      /\ \A m \in 1..MaxFiles : files'[m] = IF m = n THEN f ELSE files[m]
  BY <1>0, <1>2, <1>5, <1>55 DEF TypeOK
<1> QED BY <1>1, <1>2, <1>3, <1>6, <1>7 DEF f

(* What remains to be shown of a step.                                     *)
LEMMA Typed ==
  ASSUME TypeInv, NEW p \in Procs, UNCHANGED given,
         proc' \in [Procs -> ProcRec], Others(p),
         proc'[p].at \in Opened \union {"vacuum"} => proc'[p].file # 0,
         proc'[p].at \in Closed => proc'[p].file = 0,
         proc'[p].at = "vacuum" => \A q \in Procs : proc[q].file # proc'[p].file,
         path' \in 0..MaxFiles, files' \in [1..MaxFiles -> File],
         recent' \in {"nothing", "new"} \union Kinds, older' \subseteq Kinds, lost' \subseteq Kinds,
         unlinked' \in BOOLEAN, faults' \in 0..MaxFaults, starts' \in 0..MaxStarts
  PROVE  TypeInv'
<1>1. TypeOK'
  BY DEF TypeInv, TypeOK, given, ProcRec, FileNumbers, Attempts
<1>2. FilesOK'
  BY DEF TypeInv, FilesOK, Others
<1> QED BY <1>1, <1>2 DEF TypeInv

LEMMA InitType == Init => TypeInv
<1> SUFFICES ASSUME Init PROVE TypeInv
  OBVIOUS
<1>1. path = 0 /\ faults = 0 /\ starts = 0 /\ older = {} /\ lost = {} /\ recent = "nothing"
  BY DEF Init
<1>2. 0 \in 0..MaxFiles /\ 0 \in 0..MaxFaults /\ 0 \in 0..MaxStarts
  BY Constants
<1>3. files \in [1..MaxFiles -> File]
  BY DEF Init, Empty, File, Kinds
<1>4. proc \in [Procs -> ProcRec]
  BY DownType DEF Init
<1>5. \A p \in Procs : proc[p].at = "down" /\ proc[p].file = 0
  BY DEF Init, Down
<1>6. past \in Pasts /\ orphans \in BOOLEAN /\ unlinked \in BOOLEAN
  BY DEF Init
<1>7. TypeOK
  BY <1>1, <1>2, <1>3, <1>4, <1>6 DEF TypeOK, ProcRec, FileNumbers, Attempts
<1>8. FilesOK
  BY <1>5 DEF FilesOK, Opened
<1> QED BY <1>7, <1>8 DEF TypeInv

(* What is left of a copy that does not finish.                            *)
LEMMA LeaveType ==
  ASSUME TypeOK, NEW p \in Procs, Leave(p)
  PROVE  files' \in [1..MaxFiles -> File]
<1>1. CASE proc[p].at = "vacuum"
  <2>1. PICK s \in {"hollow", "broken"} : Becomes(p, "none", s, {"doubtful"})
    BY <1>1 DEF Leave
  <2>2. {"doubtful"} \in SUBSET {"doubtful", "short", "unseen"} /\ "none" \in Kinds
    BY DEF Kinds
  <2> QED BY <2>1, <2>2, BecomesType
<1>2. CASE proc[p].at # "vacuum"
  BY <1>2 DEF Leave, TypeOK
<1> QED BY <1>1, <1>2

LEMMA FaultType == TypeOK /\ Fault => faults' \in 0..MaxFaults /\ starts' = starts
BY Constants DEF TypeOK, Fault

LEMMA StartsType ==
  ASSUME TypeOK, NEW p \in Procs, Start(p)
  PROVE  starts' \in 0..MaxStarts
BY Constants DEF TypeOK, Start

LEMMA OldType == \A b \in {"nothing", "new"} \union Kinds : Old(b) \subseteq Kinds
BY DEF Old, Kinds

LEMMA SnapshotType == \A f \in File : Snapshot(f) \in {"nothing", "new"} \union Kinds
BY DEF Snapshot, File

(* Steps that write no file and make no backup.                            *)
LEMMA QuietType ==
  ASSUME TypeInv, NEW p \in Procs, UNCHANGED <<given, store, saved>>,
         proc' \in [Procs -> ProcRec], Others(p),
         faults' \in 0..MaxFaults, starts' \in 0..MaxStarts,
         proc'[p].at \in Opened => proc'[p].file # 0,
         proc'[p].at \in Closed => proc'[p].file = 0,
         proc'[p].at # "vacuum"
  PROVE  TypeInv'
BY Typed DEF TypeInv, TypeOK, store, saved

(* Steps that write a file, or leave one, and make no backup.              *)
LEMMA WritesType ==
  ASSUME TypeInv, NEW p \in Procs, UNCHANGED <<given, path, unlinked, saved>>,
         files' \in [1..MaxFiles -> File],
         proc' \in [Procs -> ProcRec], Others(p),
         faults' \in 0..MaxFaults, starts' \in 0..MaxStarts,
         proc'[p].at \in Opened => proc'[p].file # 0,
         proc'[p].at \in Closed => proc'[p].file = 0,
         proc'[p].at # "vacuum"
  PROVE  TypeInv'
BY Typed DEF TypeInv, TypeOK, saved

(* Steps that make the file at the path, and steps that make a backup.     *)
LEMMA FileMadeType ==
  ASSUME TypeInv, NEW p \in Procs, NEW phase \in {"vacuum", "verify"},
         NEW fl \in SUBSET {"doubtful", "short", "unseen"}, Makes(p, phase, fl),
         UNCHANGED <<given, saved, bounds>>
  PROVE  TypeInv'
<1>1. /\ proc' \in [Procs -> ProcRec] /\ Others(p)
      /\ path' \in 1..MaxFiles /\ files' \in [1..MaxFiles -> File] /\ unlinked' = unlinked
      /\ proc'[p].at = phase /\ proc'[p].file = path'
      /\ \A q \in Procs : proc[q].file # path'
  BY MakesType
<1>2. path' \in 0..MaxFiles /\ path' # 0 /\ phase \notin Closed
  BY <1>1, Constants DEF Closed
<1>3. /\ recent' \in {"nothing", "new"} \union Kinds /\ older' \subseteq Kinds /\ lost' \subseteq Kinds
      /\ unlinked' \in BOOLEAN /\ faults' \in 0..MaxFaults /\ starts' \in 0..MaxStarts
  BY <1>1 DEF TypeInv, TypeOK, saved, bounds
<1> QED BY <1>1, <1>2, <1>3, Typed

LEMMA BackupMadeType ==
  ASSUME TypeInv, NEW p \in Procs, UNCHANGED <<given, store, bounds>>,
         proc' \in [Procs -> ProcRec], Others(p),
         proc'[p].at \in Opened, proc'[p].file # 0,
         recent' \in {"nothing", "new"} \union Kinds, older' \subseteq Kinds, lost' \subseteq Kinds
  PROVE  TypeInv'
<1>1. /\ path' \in 0..MaxFiles /\ files' \in [1..MaxFiles -> File]
      /\ unlinked' \in BOOLEAN /\ faults' \in 0..MaxFaults /\ starts' \in 0..MaxStarts
  BY DEF TypeInv, TypeOK, store, bounds
<1>2. proc'[p].at \notin Closed /\ proc'[p].at # "vacuum"
  BY DEF Opened, Closed
<1> QED BY <1>1, <1>2, Typed

LEMMA NextType == TypeInv /\ [Next]_vars => TypeInv'
<1> SUFFICES ASSUME TypeInv, [Next]_vars PROVE TypeInv'
  OBVIOUS
<1> USE PhaseNames DEF Opened, Closed
<1>0. /\ TypeOK /\ FilesOK
      /\ faults \in 0..MaxFaults /\ starts \in 0..MaxStarts
      /\ files \in [1..MaxFiles -> File]
  BY DEF TypeInv, TypeOK
<1>1. CASE UNCHANGED vars
  <2>1. TypeOK'
    BY <1>0, <1>1 DEF vars, given, store, saved, bounds, TypeOK
  <2>2. FilesOK'
    BY <1>0, <1>1 DEF vars, FilesOK
  <2> QED BY <2>1, <2>2 DEF TypeInv
<1>2. CASE Next
  <2> PICK p \in Procs : Start(p) \/ Step(p) \/ Error(p) \/ Crash(p) \/ Stop(p)
    BY <1>2 DEF Next
  <2>0. /\ proc[p].at \in Opened \union {"vacuum"} => proc[p].file \in 1..MaxFiles
        /\ proc[p].at \in Closed => proc[p].file = 0
    BY <1>0, ProcType, Constants DEF FilesOK, ProcRec, FileNumbers
  <2>1. CASE Start(p)
    BY <1>0, <2>1, FallsBack, StartsType, QuietType DEF Start
  <2>2. CASE TryLegacy(p)
    <3>1. CASE path = 0 /\ "legacy" \in past
      <4> DEFINE r == [proc[p] EXCEPT !.at = "clear", !.from = "legacy"]
      <4>1. proc[p] \in ProcRec
        BY <1>0, ProcType
      <4>2. r \in ProcRec /\ r.at = "clear" /\ r.file = 0
        BY <2>0, <2>2, <4>1 DEF TryLegacy, ProcRec, Kinds
      <4>3. proc' = [proc EXCEPT ![p] = r]
        BY <1>0, <2>2, <3>1, ProcType DEF TryLegacy
      <4> HIDE DEF r
      <4>4. proc' \in [Procs -> ProcRec] /\ proc'[p] = r /\ Others(p)
        BY <1>0, <4>2, <4>3, Moves
      <4> QED BY <1>0, <2>2, <4>2, <4>4, QuietType DEF TryLegacy, bounds
    <3>2. CASE ~(path = 0 /\ "legacy" \in past)
      BY <1>0, <2>0, <2>2, <3>2, GoesOn, QuietType DEF TryLegacy, bounds
    <3> QED BY <3>1, <3>2
  <2>3. CASE TryNode(p)
    <3>1. CASE path = 0 /\ "node" \in past
      <4> DEFINE r == [proc[p] EXCEPT !.at = "clear", !.from = "node"]
      <4>1. proc[p] \in ProcRec
        BY <1>0, ProcType
      <4>2. r \in ProcRec /\ r.at = "clear" /\ r.file = 0
        BY <2>0, <2>3, <4>1 DEF TryNode, ProcRec, Kinds
      <4>3. proc' = [proc EXCEPT ![p] = r]
        BY <1>0, <2>3, <3>1, ProcType DEF TryNode
      <4> HIDE DEF r
      <4>4. proc' \in [Procs -> ProcRec] /\ proc'[p] = r /\ Others(p)
        BY <1>0, <4>2, <4>3, Moves
      <4> QED BY <1>0, <2>3, <4>2, <4>4, QuietType DEF TryNode, bounds
    <3>2. CASE ~(path = 0 /\ "node" \in past)
      BY <1>0, <2>0, <2>3, <3>2, GoesOn, QuietType DEF TryNode, bounds
    <3> QED BY <3>1, <3>2
  <2>4. CASE ClearTarget(p)
    <3>1. /\ proc' \in [Procs -> ProcRec] /\ Others(p)
          /\ proc'[p].at = "source" /\ proc'[p].file = 0
      BY <1>0, <2>0, <2>4, GoesOn DEF ClearTarget
    <3>2. path' = 0 /\ unlinked' \in BOOLEAN
      BY <1>0, <2>4 DEF ClearTarget, TypeOK
    <3>3. 0 \in 0..MaxFiles
      BY Constants
    <3> QED BY <1>0, <2>4, <3>1, <3>2, <3>3, Typed DEF ClearTarget, TypeOK, saved, bounds
  <2>5. CASE BeginCopy(p)
    <3>1. CASE path # 0
      BY <1>0, <2>5, <3>1, FallsBack, QuietType DEF BeginCopy, bounds
    <3>2. CASE path = 0
      <4>1. PICK fl \in SUBSET {"doubtful", "short", "unseen"} : Makes(p, "vacuum", fl)
        BY <2>5, <3>2 DEF BeginCopy
      <4> QED BY <2>5, <4>1, FileMadeType DEF BeginCopy
    <3> QED BY <3>1, <3>2
  <2>6. CASE EndCopy(p)
    <3>1. proc[p].from \in Kinds /\ {} \in SUBSET {"doubtful", "short", "unseen"}
      BY <1>0, ProcType DEF ProcRec
    <3>2. files' \in [1..MaxFiles -> File]
      <4>1. PICK fl \in SUBSET {"doubtful", "short", "unseen"} : Becomes(p, proc[p].from, "old", fl)
        BY <2>6 DEF EndCopy
      <4> QED BY <1>0, <3>1, <4>1, BecomesType
    <3> DEFINE r == [proc[p] EXCEPT !.at = IF proc[p].from = "legacy" THEN "node" ELSE "open",
                                    !.file = 0, !.from = "none"]
    <3>3. r \in ProcRec /\ r.at \in Closed /\ r.file = 0
      BY <1>0, ProcType, Zeros DEF ProcRec, Kinds
    <3>4. proc' = [proc EXCEPT ![p] = r]
      BY <1>0, <2>6, ProcType DEF EndCopy
    <3> HIDE DEF r
    <3>5. proc' \in [Procs -> ProcRec] /\ proc'[p] = r /\ Others(p)
      BY <1>0, <3>3, <3>4, Moves
    <3> QED BY <1>0, <2>6, <3>2, <3>3, <3>5, WritesType DEF EndCopy, bounds
  <2>7. CASE Open(p)
    <3>1. CASE path = 0
      <4>1. PICK fl \in SUBSET {"doubtful", "short", "unseen"} : Makes(p, "verify", fl)
        BY <2>7, <3>1 DEF Open
      <4> QED BY <2>7, <4>1, FileMadeType DEF Open
    <3>2. CASE path # 0
      <4>1. path \in 1..MaxFiles
        BY <1>0, <3>2, Constants DEF TypeOK
      <4> DEFINE r == [proc[p] EXCEPT !.at = "verify", !.file = path]
      <4>2. r \in ProcRec /\ r.at = "verify" /\ r.file = path
        <5>1. proc[p] \in ProcRec /\ path \in FileNumbers
          BY <1>0, ProcType DEF TypeOK, FileNumbers
        <5> QED BY <5>1 DEF ProcRec
      <4>3. proc' = [proc EXCEPT ![p] = r]
        BY <1>0, <2>7, <3>2, ProcType DEF Open
      <4>4. files' \in [1..MaxFiles -> File]
        <5>1. Early(path) \subseteq {"doubtful", "short", "unseen"}
          BY DEF Early
        <5>2. [files[path] EXCEPT !.flaws = @ \union Early(path)] \in File
          BY <1>0, <4>1, <5>1 DEF File
        <5> QED BY <1>0, <2>7, <3>2, <5>2 DEF Open
      <4> HIDE DEF r
      <4>5. proc' \in [Procs -> ProcRec] /\ proc'[p] = r /\ Others(p)
        BY <1>0, <4>2, <4>3, Moves
      <4> QED BY <1>0, <2>7, <3>2, <4>1, <4>2, <4>4, <4>5, WritesType DEF Open, bounds
    <3> QED BY <3>1, <3>2
  <2>8. CASE Verify(p)
    <3>1. CASE Mine(p).shape = "broken" /\ Fails(p) /\ UNCHANGED <<bounds, files>>
      BY <1>0, <2>8, <3>1, FallsBack, QuietType DEF Verify, bounds, store
    <3>2. CASE (Goes(p, "backup") \/ Goes(p, "create")) /\ UNCHANGED <<bounds, files>>
      BY <1>0, <2>0, <2>8, <3>2, GoesOn, QuietType DEF Verify, bounds, store
    <3>3. CASE Fault /\ Goes(p, "create") /\ Grows(p, Mine(p).shape, {"unseen"})
      <4>1. /\ files' \in [1..MaxFiles -> File]
        <5>1. Mine(p) \in File /\ proc[p].file # 0
          BY <1>0, <2>0, <2>8, Constants DEF Verify, Mine
        <5>2. PICK s \in {"hollow", "broken", "old", "tables", "migrated", "complete"},
                   fl \in SUBSET {"doubtful", "short", "unseen"} : Grows(p, s, fl)
          BY <3>3, <5>1 DEF File
        <5> QED BY <1>0, <5>1, <5>2, GrowsType
      <4> QED BY <1>0, <2>0, <2>8, <3>3, <4>1, GoesOn, FaultType, WritesType DEF Verify
    <3> QED BY <2>8, <3>1, <3>2, <3>3 DEF Verify
  <2>9. CASE BackupExisting(p)
    <3>1. CASE path = 0 /\ Goes(p, "create") /\ UNCHANGED saved
      BY <1>0, <2>0, <2>9, <3>1, GoesOn, QuietType DEF BackupExisting, bounds
    <3>2. CASE path # 0 /\ UNCHANGED older /\ recent' = "nothing" /\ lost' = lost \union Old(recent)
               /\ proc' = [proc EXCEPT ![p].at = "snapshot", ![p].second = "last"]
      <4> DEFINE r == [proc[p] EXCEPT !.at = "snapshot", !.second = "last"]
      <4>1. r \in ProcRec /\ r.at = "snapshot" /\ r.file = proc[p].file
        BY <1>0, ProcType DEF ProcRec
      <4>2. proc' = [proc EXCEPT ![p] = r]
        BY <1>0, <3>2, ProcType
      <4> HIDE DEF r
      <4>3. proc' \in [Procs -> ProcRec] /\ proc'[p] = r /\ Others(p)
        BY <1>0, <4>1, <4>2, Moves
      <4>4. Old(recent) \subseteq Kinds
        BY <1>0, OldType DEF TypeOK
      <4>5. /\ recent' \in {"nothing", "new"} \union Kinds /\ older' \subseteq Kinds
            /\ lost' \subseteq Kinds
        BY <1>0, <3>2, <4>4 DEF TypeOK
      <4> QED BY <2>0, <2>9, <4>1, <4>3, <4>5, BackupMadeType, Constants DEF BackupExisting
    <3>3. CASE /\ path # 0 /\ UNCHANGED lost /\ recent' = "nothing"
               /\ older' = older \union Old(recent)
               /\ proc' = [q \in Procs |->
                    IF q = p THEN [proc[p] EXCEPT !.at = "snapshot", !.second = "last"]
                    ELSE IF proc[q].second = "last" THEN [proc[q] EXCEPT !.second = "past"]
                    ELSE proc[q]]
      <4>1. \A q \in Procs : proc[q] \in ProcRec
        BY <1>0, ProcType
      <4>2. \A q \in Procs : proc'[q] \in ProcRec
        BY <3>3, <4>1 DEF ProcRec
      <4>3. proc' \in [Procs -> ProcRec] /\ Others(p)
        BY <3>3, <4>1, <4>2 DEF Others, ProcRec
      <4>4. proc'[p].at = "snapshot" /\ proc'[p].file = proc[p].file
        BY <3>3, <4>1 DEF ProcRec
      <4>5. Old(recent) \subseteq Kinds
        BY <1>0, OldType DEF TypeOK
      <4>6. /\ recent' \in {"nothing", "new"} \union Kinds /\ older' \subseteq Kinds
            /\ lost' \subseteq Kinds
        BY <1>0, <3>3, <4>5 DEF TypeOK
      <4> QED BY <2>0, <2>9, <4>3, <4>4, <4>6, BackupMadeType, Constants DEF BackupExisting
    <3> QED BY <2>9, <3>1, <3>2, <3>3 DEF BackupExisting
  <2>10. CASE WriteBackup(p)
    <3>1. CASE Fails(p) /\ UNCHANGED saved
      BY <1>0, <2>10, <3>1, FallsBack, QuietType DEF WriteBackup, bounds
    <3>2. CASE path # 0 /\ Goes(p, "create") /\ ~UNCHANGED saved
      <4>1. Snapshot(files[path]) \in {"nothing", "new"} \union Kinds
        BY <1>0, <3>2, SnapshotType, Constants DEF TypeOK
      <4>2. Old(Snapshot(files[path])) \subseteq Kinds
        BY <4>1, OldType
      <4>3. /\ recent' \in {"nothing", "new"} \union Kinds /\ older' \subseteq Kinds
            /\ lost' \subseteq Kinds
        BY <1>0, <2>10, <3>2, <4>1, <4>2 DEF WriteBackup, TypeOK
      <4> QED BY <1>0, <2>0, <2>10, <3>2, <4>3, GoesOn, BackupMadeType, Constants DEF WriteBackup
    <3>3. CASE path # 0 /\ Goes(p, "create") /\ UNCHANGED saved
      BY <1>0, <2>0, <2>10, <3>3, GoesOn, QuietType DEF WriteBackup, bounds
    <3> QED BY <2>10, <3>1, <3>2, <3>3 DEF WriteBackup
  <2>11. CASE CreateTables(p)
    <3>1. files' \in [1..MaxFiles -> File]
      <4>1. CASE Mine(p).shape = "hollow"
        <5>1. PICK fl \in SUBSET {"doubtful", "short", "unseen"} : Grows(p, "tables", fl)
          BY <2>11, <4>1 DEF CreateTables
        <5> QED BY <1>0, <2>0, <2>11, <5>1, GrowsType, Constants DEF CreateTables
      <4>2. CASE Mine(p).shape # "hollow"
        BY <1>0, <2>11, <4>2 DEF CreateTables
      <4> QED BY <4>1, <4>2
    <3> QED BY <1>0, <2>0, <2>11, <3>1, GoesOn, WritesType DEF CreateTables, bounds
  <2>12. CASE Migrate(p)
    <3>1. CASE Fails(p) /\ UNCHANGED <<files, bounds>>
      BY <1>0, <2>12, <3>1, FallsBack, QuietType DEF Migrate, bounds, store
    <3>2. CASE Goes(p, "indexes") /\ ~UNCHANGED <<files, bounds>>
      <4>1. Later(Mine(p).shape) \in {"hollow", "broken", "old", "tables", "migrated", "complete"}
        BY DEF Later
      <4>2. PICK fl \in SUBSET {"doubtful", "short", "unseen"} : Grows(p, Later(Mine(p).shape), fl)
        BY <2>12, <3>2, {} \in SUBSET {"doubtful", "short", "unseen"} DEF Migrate
      <4>3. files' \in [1..MaxFiles -> File]
        BY <1>0, <2>0, <2>12, <4>1, <4>2, GrowsType, Constants DEF Migrate
      <4>4. faults' \in 0..MaxFaults /\ starts' \in 0..MaxStarts
        BY <1>0, <2>12, FaultType DEF Migrate, bounds
      <4> QED BY <1>0, <2>0, <2>12, <3>2, <4>3, <4>4, GoesOn, WritesType DEF Migrate
    <3>3. CASE Goes(p, "indexes") /\ UNCHANGED <<files, bounds>>
      BY <1>0, <2>0, <2>12, <3>3, GoesOn, QuietType DEF Migrate, bounds, store
    <3> QED BY <2>12, <3>1, <3>2, <3>3 DEF Migrate
  <2>13. CASE CreateIndexes(p)
    BY <1>0, <2>0, <2>13, GoesOn, QuietType DEF CreateIndexes, bounds
  <2>14. CASE AddColumns(p)
    <3>1. files' \in [1..MaxFiles -> File]
      <4>1. CASE Mine(p).shape = "migrated" /\ Grows(p, "complete", {})
        <5>1. PICK fl \in SUBSET {"doubtful", "short", "unseen"} : Grows(p, "complete", fl)
          BY <4>1
        <5> QED BY <1>0, <2>0, <2>14, <5>1, GrowsType, Constants DEF AddColumns
      <4>2. CASE Grows(p, Mine(p).shape, {"short"})
        <5>1. Mine(p) \in File /\ proc[p].file # 0
          BY <1>0, <2>0, <2>14, Constants DEF AddColumns, Mine
        <5>2. PICK s \in {"hollow", "broken", "old", "tables", "migrated", "complete"},
                   fl \in SUBSET {"doubtful", "short", "unseen"} : Grows(p, s, fl)
          BY <4>2, <5>1 DEF File
        <5> QED BY <1>0, <5>1, <5>2, GrowsType
      <4>3. CASE UNCHANGED files
        BY <1>0, <4>3
      <4> QED BY <2>14, <4>1, <4>2, <4>3 DEF AddColumns
    <3>2. faults' \in 0..MaxFaults /\ starts' \in 0..MaxStarts
      BY <1>0, <2>14, FaultType DEF AddColumns, bounds
    <3> QED BY <1>0, <2>0, <2>14, <3>1, <3>2, GoesOn, WritesType DEF AddColumns
  <2>15. CASE Error(p)
    BY <1>0, <2>15, LeaveType, FallsBack, FaultType, WritesType DEF Error
  <2>16. CASE Crash(p)
    BY <1>0, <2>16, LeaveType, FallsBack, FaultType, WritesType DEF Crash
  <2>17. CASE Stop(p)
    BY <1>0, <2>17, FallsBack, QuietType DEF Stop, bounds
  <2> QED BY <2>1, <2>2, <2>3, <2>4, <2>5, <2>6, <2>7, <2>8, <2>9, <2>10, <2>11, <2>12, <2>13,
             <2>14, <2>15, <2>16, <2>17 DEF Step
<1> QED BY <1>1, <1>2

-----------------------------------------------------------------------------
(* The data of the predecessor *)

Used(n) == n = path \/ \E q \in Procs : proc[q].file = n
Copied(n) == \E q \in Procs : proc[q].at = "vacuum" /\ proc[q].file = n
Sound(n) == "doubtful" \notin files[n].flaws

Heirs == IF past = {} THEN {"none"} ELSE past
Saved == older \union {recent} \union lost
Late == {"create", "migrate", "indexes", "columns", "serving"}

(* A file in use that is not doubtful is the empty target of one copy, and *)
(* nobody has it open, or it has the data of a predecessor, and tables.    *)
Filled(n) ==
  /\ files[n].data \in Heirs
  /\ files[n].data # "none" => files[n].shape \notin {"hollow", "broken", "tables"}

Blank(n) ==
  /\ files[n].data = "none" /\ files[n].shape = "hollow"
  /\ \A q \in Procs : proc[q].file = n => proc[q].at = "vacuum"

Contents ==
  \A n \in 1..MaxFiles : Used(n) /\ Sound(n) =>
    (Copied(n) => Blank(n)) /\ (~Copied(n) => Filled(n))

(* The data were saved before a process came so far that it may write.     *)
Begun == files[path].shape # "old" \/ \E q \in Procs : proc[q].at \in Late /\ proc[q].file = path

Backed ==
  path # 0 /\ files[path].flaws \intersect {"doubtful", "unseen"} = {} /\ files[path].data # "none" =>
    (Begun => files[path].data \in Saved)

(* A process that has passed the migration has its schema.                 *)
Schema ==
  \A p \in Procs :
    /\ proc[p].at \in {"indexes", "columns"} /\ Sound(proc[p].file) =>
         Mine(p).shape \in {"migrated", "complete"}
    /\ proc[p].at = "serving" /\ Sound(proc[p].file) =>
         Mine(p).shape = "complete" \/ "short" \in Mine(p).flaws

(* A process that comes to the end of the search without a file has none   *)
(* to find, unless a copy has removed one.                                 *)
Searching ==
  \A p \in Procs :
    /\ proc[p].at \in {"clear", "source", "vacuum"} => proc[p].from \in past
    /\ ~unlinked /\ path = 0 =>
         /\ proc[p].at = "node" => "legacy" \notin past
         /\ proc[p].at = "open" => past = {}
         /\ proc[p].at # "vacuum"

Calm == Contents /\ Backed /\ Schema /\ Searching

LEMMA InitCalm == Init => Calm
<1> SUFFICES ASSUME Init PROVE Calm
  OBVIOUS
<1>1. /\ path = 0 /\ past \in Pasts
      /\ \A p \in Procs : proc[p].at = "down" /\ proc[p].file = 0
  BY DEF Init, Down
<1>2. \A n \in 1..MaxFiles : ~Used(n)
  BY <1>1 DEF Used
<1> QED BY <1>1, <1>2 DEF Calm, Contents, Backed, Schema, Searching

LEMMA Numbers ==
  ASSUME TypeInv
  PROVE  /\ \A q \in Procs : proc[q].file \in 0..MaxFiles
         /\ \A q \in Procs : proc[q].at \in Opened \union {"vacuum"} => proc[q].file \in 1..MaxFiles
         /\ path \in 0..MaxFiles /\ (path # 0 => path \in 1..MaxFiles)
         /\ \A n \in 1..MaxFiles : files[n] \in File /\ n # 0
<1>1. TypeOK /\ FilesOK
  BY DEF TypeInv
<1>2. \A q \in Procs : proc[q].file \in 0..MaxFiles
  BY <1>1, ProcType DEF ProcRec, FileNumbers
<1> QED BY <1>1, <1>2, Constants DEF TypeOK, FilesOK

(* Most steps: the path stays, no copy begins or ends, files only grow.    *)
Changes(p, n) ==
  \/ files[n].shape = "hollow" /\ files'[n].shape = "tables"
  \/ proc[p].at = "migrate" /\ files'[n].shape = Later(files[n].shape)
  \/ files[n].shape = "migrated" /\ files'[n].shape = "complete"

Growing(p) ==
  \A n \in 1..MaxFiles :
    /\ files'[n].data = files[n].data /\ files[n].flaws \subseteq files'[n].flaws
    /\ files'[n].shape # files[n].shape => n = proc[p].file /\ Changes(p, n)

Keeping == \A d \in {"legacy", "node"} : d \in Saved => d \in Saved'

(* What the process itself has to have when it comes to its next phase.    *)
Enters(p) ==
  /\ proc'[p].at \in Late /\ proc[p].at \notin Late /\ path # 0 /\ proc'[p].file = path =>
       \/ files'[path].flaws \intersect {"doubtful", "unseen"} # {}
       \/ files'[path].data = "none"
       \/ files'[path].data \in Saved'
  /\ proc'[p].at \in {"indexes", "columns"} /\ "doubtful" \notin files'[proc'[p].file].flaws =>
       files'[proc'[p].file].shape \in {"migrated", "complete"}
  /\ proc'[p].at = "serving" /\ "doubtful" \notin files'[proc'[p].file].flaws =>
       files'[proc'[p].file].shape = "complete" \/ "short" \in files'[proc'[p].file].flaws
  /\ proc'[p].at \in {"clear", "source"} => proc'[p].from \in past
  /\ ~unlinked /\ path = 0 =>
       (proc'[p].at = "node" => "legacy" \notin past) /\ (proc'[p].at = "open" => past = {})

Steady(p) ==
  /\ path' = path /\ past' = past /\ unlinked' = unlinked
  /\ Others(p)
  /\ proc[p].at # "vacuum" /\ proc'[p].at # "vacuum"
  /\ proc'[p].file \in {0, proc[p].file}
  /\ Growing(p) /\ Keeping /\ Enters(p)

LEMMA SteadyContents ==
  ASSUME TypeInv, Calm, NEW p \in Procs, Steady(p)
  PROVE  Contents'
<1> SUFFICES ASSUME NEW n \in 1..MaxFiles, Used(n)', Sound(n)'
             PROVE  (Copied(n)' => Blank(n)') /\ (~Copied(n)' => Filled(n)')
  BY DEF Contents
<1>1. n # 0
  BY Numbers
<1>2. Used(n)
  BY <1>1 DEF Used, Steady, Others
<1>3. Sound(n)
  BY DEF Sound, Steady, Growing
<1>4. Copied(n)' <=> Copied(n)
  BY DEF Copied, Steady, Others
<1>5. (Copied(n) => Blank(n)) /\ (~Copied(n) => Filled(n))
  BY <1>2, <1>3 DEF Calm, Contents
<1>6. ASSUME Blank(n) PROVE Blank(n)'
  <2>1. proc[p].file # n /\ proc'[p].file # n
    BY <1>1, <1>6 DEF Blank, Steady
  <2> QED BY <1>6, <2>1 DEF Blank, Steady, Others, Growing
<1>7. ASSUME Filled(n) PROVE Filled(n)'
  BY <1>7 DEF Filled, Heirs, Steady, Growing, Changes, Later
<1> QED BY <1>4, <1>5, <1>6, <1>7

LEMMA SteadyBacked ==
  ASSUME TypeInv, Calm, NEW p \in Procs, Steady(p)
  PROVE  Backed'
<1> SUFFICES ASSUME path # 0, files'[path].flaws \intersect {"doubtful", "unseen"} = {},
                    files'[path].data # "none", Begun'
             PROVE  files'[path].data \in Saved'
  BY DEF Backed, Steady
<1>1. path \in 1..MaxFiles /\ files[path] \in File
  BY Numbers
<1>2. /\ files'[path].data = files[path].data /\ files[path].data # "none"
      /\ files[path].flaws \intersect {"doubtful", "unseen"} = {}
  BY <1>1 DEF Steady, Growing
<1>3. files[path].data \in {"legacy", "node"}
  BY <1>1, <1>2 DEF File, Kinds
<1>4. CASE Begun
  BY <1>2, <1>3, <1>4 DEF Calm, Backed, Steady, Keeping
<1>5. CASE ~Begun
  <2>1. files'[path].shape = "old"
    BY <1>1, <1>5 DEF Begun, Steady, Growing, Changes, Late
  <2>2. PICK q \in Procs : proc'[q].at \in Late /\ proc'[q].file = path
    BY <2>1 DEF Begun, Steady
  <2>3. q = p /\ proc[p].at \notin Late
    BY <1>1, <1>5, <2>2, Numbers DEF Begun, Steady, Others
  <2> QED BY <2>2, <2>3 DEF Steady, Enters
<1> QED BY <1>4, <1>5

LEMMA SteadySchema ==
  ASSUME TypeInv, Calm, NEW p \in Procs, Steady(p)
  PROVE  Schema'
<1>1. /\ proc'[p].at \in {"indexes", "columns"} /\ Sound(proc[p].file)' =>
           Mine(p)'.shape \in {"migrated", "complete"}
      /\ proc'[p].at = "serving" /\ Sound(proc[p].file)' =>
           Mine(p)'.shape = "complete" \/ "short" \in Mine(p)'.flaws
  BY DEF Steady, Enters, Sound, Mine
<1>2. ASSUME NEW q \in Procs \ {p}
      PROVE  /\ proc'[q].at \in {"indexes", "columns"} /\ Sound(proc[q].file)' =>
                  Mine(q)'.shape \in {"migrated", "complete"}
             /\ proc'[q].at = "serving" /\ Sound(proc[q].file)' =>
                  Mine(q)'.shape = "complete" \/ "short" \in Mine(q)'.flaws
  <2>1. proc'[q].at = proc[q].at /\ proc'[q].file = proc[q].file
    BY DEF Steady, Others
  <2>2. proc[q].at \in {"indexes", "columns", "serving"} => proc[q].file \in 1..MaxFiles
    BY Numbers DEF Opened
  <2>3. /\ proc[q].at \in {"indexes", "columns"} /\ Sound(proc[q].file) =>
             Mine(q).shape \in {"migrated", "complete"}
        /\ proc[q].at = "serving" /\ Sound(proc[q].file) =>
             Mine(q).shape = "complete" \/ "short" \in Mine(q).flaws
    BY DEF Calm, Schema
  <2> QED BY <2>1, <2>2, <2>3 DEF Steady, Growing, Changes, Later, Sound, Mine
<1> QED BY <1>1, <1>2 DEF Schema

LEMMA SteadySearching ==
  ASSUME TypeInv, Calm, NEW p \in Procs, Steady(p)
  PROVE  Searching'
BY DEF Calm, Searching, Steady, Others, Enters

LEMMA SteadyCalm ==
  ASSUME TypeInv, Calm, NEW p \in Procs, Steady(p)
  PROVE  Calm'
BY SteadyContents, SteadyBacked, SteadySchema, SteadySearching DEF Calm

(* The target of a copy is removed.                                        *)
LEMMA ClearCalm ==
  ASSUME TypeInv, Calm, NEW p \in Procs, ClearTarget(p)
  PROVE  Calm'
<1>0. TypeOK
  BY DEF TypeInv
<1>1. /\ Others(p) /\ proc'[p].at = "source" /\ proc[p].at = "clear"
      /\ proc'[p].file = proc[p].file /\ proc'[p].from = proc[p].from
  BY <1>0, GoesOn, PhaseNames DEF ClearTarget, Closed
<1>2. path' = 0 /\ files' = files /\ past' = past /\ unlinked' = (unlinked \/ path # 0)
  BY DEF ClearTarget, given
<1>3. Contents'
  <2> SUFFICES ASSUME NEW n \in 1..MaxFiles, Used(n)', Sound(n)'
               PROVE  (Copied(n)' => Blank(n)') /\ (~Copied(n)' => Filled(n)')
    BY DEF Contents
  <2>1. n # 0
    BY Numbers
  <2>2. Used(n) /\ Sound(n)
    BY <1>1, <1>2, <2>1 DEF Used, Others, Sound
  <2>3. Copied(n)' <=> Copied(n)
    BY <1>1 DEF Copied, Others
  <2>4. (Copied(n) => Blank(n)) /\ (~Copied(n) => Filled(n))
    BY <2>2 DEF Calm, Contents
  <2>5. ASSUME Blank(n) PROVE Blank(n)'
    <3>1. proc'[p].file # n
      BY <1>1, <2>5 DEF Blank
    <3> QED BY <1>1, <1>2, <2>5, <3>1 DEF Blank, Others
  <2>6. ASSUME Filled(n) PROVE Filled(n)'
    BY <1>2, <2>6 DEF Filled, Heirs
  <2> QED BY <2>3, <2>4, <2>5, <2>6
<1>4. Backed'
  BY <1>2 DEF Backed
<1>5. Schema'
  BY <1>1, <1>2 DEF Calm, Schema, Others, Sound, Mine
<1>6. Searching'
  BY <1>1, <1>2 DEF Calm, Searching, Others
<1> QED BY <1>3, <1>4, <1>5, <1>6 DEF Calm

(* A file is made at the path: the target of a copy, or a new database.    *)
LEMMA MadeCalm ==
  ASSUME TypeInv, Calm, NEW p \in Procs, NEW phase \in {"vacuum", "verify"},
         NEW fl \in SUBSET {"doubtful", "short", "unseen"}, Makes(p, phase, fl),
         past' = past, UNCHANGED saved, proc[p].at \in {"source", "open"},
         phase = "vacuum" => proc[p].from \in past,
         phase = "verify" /\ "doubtful" \notin fl => past = {}
  PROVE  Calm'
<1>1. /\ proc' \in [Procs -> ProcRec] /\ Others(p)
      /\ path' \in 1..MaxFiles /\ files' \in [1..MaxFiles -> File] /\ unlinked' = unlinked
      /\ proc'[p].at = phase /\ proc'[p].file = path' /\ proc'[p].from = proc[p].from
      /\ path' # path /\ \A q \in Procs : proc[q].file # path'
      /\ \A n \in 1..MaxFiles : files'[n] =
           IF n = path' THEN [data |-> "none", shape |-> "hollow", flaws |-> fl] ELSE files[n]
  BY MakesType
<1>2. path' # 0 /\ path' \in 1..MaxFiles
  BY <1>1, Numbers
<1>3. files'[path'] = [data |-> "none", shape |-> "hollow", flaws |-> fl]
  BY <1>1
<1>4. \A q \in Procs \ {p} : proc'[q].file # path'
  BY <1>1 DEF Others
<1>5. Contents'
  <2> SUFFICES ASSUME NEW n \in 1..MaxFiles, Used(n)', Sound(n)'
               PROVE  (Copied(n)' => Blank(n)') /\ (~Copied(n)' => Filled(n)')
    BY DEF Contents
  <2>1. CASE n = path'
    <3>1. CASE phase = "vacuum"
      <4>1. Copied(n)' /\ Blank(n)'
        BY <1>1, <1>3, <1>4, <2>1, <3>1 DEF Copied, Blank
      <4> QED BY <4>1
    <3>2. CASE phase = "verify"
      <4>1. ~Copied(n)'
        BY <1>1, <1>4, <2>1, <3>2 DEF Copied
      <4>2. "doubtful" \notin fl
        BY <1>3, <2>1 DEF Sound
      <4>3. Filled(n)'
        BY <1>3, <2>1, <3>2, <4>2 DEF Filled, Heirs
      <4> QED BY <4>1, <4>3
    <3> QED BY <3>1, <3>2
  <2>2. CASE n # path'
    <3>1. files'[n] = files[n]
      BY <1>1, <2>2
    <3>2. Used(n) /\ Sound(n)
      BY <1>1, <2>2, <3>1 DEF Used, Others, Sound
    <3>3. Copied(n)' <=> Copied(n)
      BY <1>1, <2>2 DEF Copied, Others
    <3>4. (Copied(n) => Blank(n)) /\ (~Copied(n) => Filled(n))
      BY <3>2 DEF Calm, Contents
    <3>5. ASSUME Blank(n) PROVE Blank(n)'
      BY <1>1, <2>2, <3>1, <3>5 DEF Blank, Others
    <3>6. ASSUME Filled(n) PROVE Filled(n)'
      BY <3>1, <3>6 DEF Filled, Heirs
    <3> QED BY <3>3, <3>4, <3>5, <3>6
  <2> QED BY <2>1, <2>2
<1>6. Backed'
  BY <1>3 DEF Backed
<1>7. Schema'
  <2> SUFFICES ASSUME NEW q \in Procs, proc'[q].at \in {"indexes", "columns", "serving"}
               PROVE  /\ q # p /\ proc'[q].at = proc[q].at /\ proc'[q].file = proc[q].file
                      /\ files'[proc[q].file] = files[proc[q].file]
    BY DEF Calm, Schema, Sound, Mine
  <2>1. q # p
    BY <1>1
  <2>2. proc'[q].at = proc[q].at /\ proc'[q].file = proc[q].file
    BY <1>1, <2>1 DEF Others
  <2>3. proc[q].file \in 1..MaxFiles /\ proc[q].file # path'
    BY <1>1, <2>2, Numbers DEF Opened
  <2> QED BY <1>1, <2>1, <2>2, <2>3
<1>8. Searching'
  BY <1>1, <1>2 DEF Calm, Searching, Others
<1> QED BY <1>5, <1>6, <1>7, <1>8 DEF Calm

(* The file at the path is opened.                                         *)
LEMMA OpenCalm ==
  ASSUME TypeInv, Calm, NEW p \in Procs, path # 0, Open(p)
  PROVE  Calm'
<1>0. TypeOK /\ path \in 1..MaxFiles
  BY Numbers DEF TypeInv
<1>1. /\ Others(p) /\ proc[p].at = "open" /\ proc[p].file = 0
      /\ proc'[p].at = "verify" /\ proc'[p].file = path
  <2>1. /\ proc \in [Procs -> ProcRec] /\ proc[p].at = "open"
        /\ proc' = [proc EXCEPT ![p].at = "verify", ![p].file = path]
    BY <1>0, ProcType DEF Open
  <2>2. proc[p].file = 0
    BY <2>1 DEF TypeInv, FilesOK, Closed
  <2> QED BY <2>1, <2>2 DEF Others, ProcRec
<1>2. /\ path' = path /\ past' = past /\ unlinked' = unlinked /\ UNCHANGED saved
      /\ files' = [files EXCEPT ![path].flaws = @ \union Early(path)]
  BY DEF Open, given
<1>3. /\ \A n \in 1..MaxFiles : /\ files'[n].data = files[n].data
                                /\ files'[n].shape = files[n].shape
                                /\ files[n].flaws \subseteq files'[n].flaws
      /\ files'[path].flaws = files[path].flaws \union Early(path)
  BY <1>0, <1>2 DEF TypeOK, File
<1>4. Contents'
  <2> SUFFICES ASSUME NEW n \in 1..MaxFiles, Used(n)', Sound(n)'
               PROVE  (Copied(n)' => Blank(n)') /\ (~Copied(n)' => Filled(n)')
    BY DEF Contents
  <2>1. Used(n) /\ Sound(n)
    BY <1>1, <1>2, <1>3 DEF Used, Others, Sound
  <2>2. Copied(n)' <=> Copied(n)
    BY <1>1 DEF Copied, Others
  <2>3. (Copied(n) => Blank(n)) /\ (~Copied(n) => Filled(n))
    BY <2>1 DEF Calm, Contents
  <2>4. ASSUME Copied(n), Blank(n) PROVE Blank(n)'
    <3>1. n # path
      BY <1>3, <2>4 DEF Early, Copied, Sound
    <3> QED BY <1>1, <1>3, <2>4, <3>1 DEF Blank, Others
  <2>5. ASSUME Filled(n) PROVE Filled(n)'
    BY <1>2, <1>3, <2>5 DEF Filled, Heirs
  <2> QED BY <2>2, <2>3, <2>4, <2>5
<1>5. Backed'
  <2>1. Begun' => Begun
    BY <1>0, <1>1, <1>2, <1>3 DEF Begun, Others, Late
  <2>2. Saved' = Saved
    BY <1>2 DEF Saved, saved
  <2> QED BY <1>0, <1>2, <1>3, <2>1, <2>2 DEF Calm, Backed
<1>6. Schema'
  <2> SUFFICES ASSUME NEW q \in Procs, proc'[q].at \in {"indexes", "columns", "serving"}
               PROVE  /\ proc'[q].at = proc[q].at /\ proc'[q].file = proc[q].file
                      /\ files'[proc[q].file].shape = files[proc[q].file].shape
                      /\ files[proc[q].file].flaws \subseteq files'[proc[q].file].flaws
    BY DEF Calm, Schema, Sound, Mine
  <2>1. proc'[q].at = proc[q].at /\ proc'[q].file = proc[q].file
    BY <1>1 DEF Others
  <2>2. proc[q].file \in 1..MaxFiles
    BY <2>1, Numbers DEF Opened
  <2> QED BY <1>3, <2>1, <2>2
<1>7. Searching'
  BY <1>1, <1>2 DEF Calm, Searching, Others
<1> QED BY <1>4, <1>5, <1>6, <1>7 DEF Calm

(* A copy is done, or is left.                                             *)
LEMMA CopiedCalm ==
  ASSUME TypeInv, Calm, NEW p \in Procs, proc[p].at = "vacuum",
         NEW c \in 1..MaxFiles, proc[p].file = c, NEW d \in Kinds,
         NEW s \in {"hollow", "broken", "old", "tables", "migrated", "complete"},
         NEW fl \in SUBSET {"doubtful", "short", "unseen"}, Becomes(p, d, s, fl),
         "doubtful" \notin fl => d \in past /\ s = "old",
         UNCHANGED <<path, past, unlinked, saved>>, Others(p),
         proc'[p].file = 0, proc'[p].at \in {"node", "open", "legacy", "down"},
         proc'[p].at \in {"node", "open"} => "doubtful" \notin fl
  PROVE  Calm'
<1>0. TypeOK /\ c # 0
  BY Numbers DEF TypeInv
<1>1. \A n \in 1..MaxFiles : files'[n] =
        IF n = c THEN [data |-> d, shape |-> s, flaws |-> files[n].flaws \union fl] ELSE files[n]
  <2>1. files' = [files EXCEPT ![c] = [data |-> d, shape |-> s, flaws |-> @.flaws \union fl]]
    BY DEF Becomes
  <2>2. files \in [1..MaxFiles -> File]
    BY <1>0 DEF TypeOK
  <2> QED BY <2>1, <2>2
<1>2. files'[c] = [data |-> d, shape |-> s, flaws |-> files[c].flaws \union fl]
  BY <1>0, <1>1
<1>3. Used(c) /\ Copied(c)
  BY DEF Used, Copied
<1>4. ~Copied(c)'
  BY <1>0 DEF Copied, Others, TypeInv, FilesOK
<1>5. Sound(c) => \A q \in Procs : proc[q].file = c => proc[q].at = "vacuum"
  BY <1>0, <1>3 DEF Calm, Contents, Blank
<1>6. Sound(c)' => Sound(c) /\ d \in past /\ s = "old"
  BY <1>2 DEF Sound
<1>7. Contents'
  <2> SUFFICES ASSUME NEW n \in 1..MaxFiles, Used(n)', Sound(n)'
               PROVE  (Copied(n)' => Blank(n)') /\ (~Copied(n)' => Filled(n)')
    BY DEF Contents
  <2>1. CASE n = c
    <3>1. d \in past /\ s = "old"
      BY <1>6, <2>1
    <3>2. Filled(n)'
      BY <1>2, <2>1, <3>1 DEF Filled, Heirs
    <3> QED BY <1>4, <2>1, <3>2
  <2>2. CASE n # c
    <3>0. n # 0
      BY Numbers
    <3>1. files'[n] = files[n]
      BY <1>1, <2>2
    <3>2. Used(n) /\ Sound(n)
      BY <3>0, <3>1 DEF Used, Others, Sound
    <3>3. Copied(n)' <=> Copied(n)
      BY <2>2 DEF Copied, Others
    <3>4. (Copied(n) => Blank(n)) /\ (~Copied(n) => Filled(n))
      BY <3>2 DEF Calm, Contents
    <3>5. ASSUME Blank(n) PROVE Blank(n)'
      BY <3>0, <3>1, <3>5 DEF Blank, Others
    <3>6. ASSUME Filled(n) PROVE Filled(n)'
      BY <3>1, <3>6 DEF Filled, Heirs
    <3> QED BY <3>3, <3>4, <3>5, <3>6
  <2> QED BY <2>1, <2>2
<1>8. Backed'
  <2>1. CASE path = c
    <3>1. CASE Sound(c)'
      <4>1. \A q \in Procs : ~(proc'[q].at \in Late /\ proc'[q].file = c)
        BY <1>0, <1>5, <1>6, <3>1 DEF Others, Late
      <4>2. files'[c].shape = "old"
        BY <1>2, <1>6, <3>1
      <4> QED BY <2>1, <4>1, <4>2 DEF Backed, Begun
    <3>2. CASE ~Sound(c)'
      BY <2>1, <3>2 DEF Backed, Sound
    <3> QED BY <3>1, <3>2
  <2>2. CASE path # c /\ path # 0
    <3>1. path \in 1..MaxFiles
      BY <2>2, Numbers
    <3>2. files'[path] = files[path]
      BY <1>1, <2>2, <3>1
    <3>3. Begun' => Begun
      BY <3>2 DEF Begun, Others, Late
    <3>4. Saved' = Saved
      BY DEF Saved, saved
    <3> QED BY <3>2, <3>3, <3>4 DEF Calm, Backed
  <2>3. CASE path = 0
    BY <2>3 DEF Backed
  <2> QED BY <2>1, <2>2, <2>3
<1>9. Schema'
  <2> SUFFICES ASSUME NEW q \in Procs, proc'[q].at \in {"indexes", "columns", "serving"},
                      Sound(proc[q].file)'
               PROVE  /\ proc'[q].at = proc[q].at /\ proc'[q].file = proc[q].file
                      /\ files'[proc[q].file] = files[proc[q].file]
    <3>1. \A q \in Procs : proc'[q].at \in {"indexes", "columns", "serving"} =>
            proc'[q].at = proc[q].at /\ proc'[q].file = proc[q].file
      BY DEF Others
    <3> QED BY <3>1 DEF Calm, Schema, Sound, Mine
  <2>1. proc'[q].at = proc[q].at /\ proc'[q].file = proc[q].file
    BY DEF Others
  <2>2. proc[q].file \in 1..MaxFiles
    BY <2>1, Numbers DEF Opened
  <2>3. proc[q].file # c
    BY <1>5, <1>6, <2>1
  <2> QED BY <1>1, <2>1, <2>2, <2>3
<1>10. Searching'
  <2>1. ~unlinked => path # 0
    BY DEF Calm, Searching
  <2> QED BY <2>1 DEF Calm, Searching, Others
<1> QED BY <1>7, <1>8, <1>9, <1>10 DEF Calm

LEMMA QuietSteady ==
  ASSUME TypeInv, NEW p \in Procs, UNCHANGED <<given, store>>, Others(p),
         proc[p].at # "vacuum", proc'[p].at # "vacuum",
         proc'[p].file \in {0, proc[p].file}, Keeping, Enters(p)
  PROVE  Steady(p)
BY DEF Steady, Growing, given, store

LEMMA GrowsSteady ==
  ASSUME TypeInv, NEW p \in Procs, UNCHANGED <<given, path, unlinked, saved>>, Others(p),
         proc[p].at \in Opened, proc'[p].at # "vacuum", proc'[p].file = proc[p].file,
         NEW s \in {"hollow", "broken", "old", "tables", "migrated", "complete"},
         NEW fl \in SUBSET {"doubtful", "short", "unseen"}, Grows(p, s, fl),
         \/ s = Mine(p).shape
         \/ Mine(p).shape = "hollow" /\ s = "tables"
         \/ proc[p].at = "migrate" /\ s = Later(Mine(p).shape)
         \/ Mine(p).shape = "migrated" /\ s = "complete",
         Enters(p)
  PROVE  Steady(p)
<1>1. TypeOK /\ proc[p].file \in 1..MaxFiles /\ proc[p].file # 0
  BY Numbers DEF TypeInv
<1>2. \A n \in 1..MaxFiles : files'[n] =
        IF n = proc[p].file
        THEN [data |-> files[n].data, shape |-> s, flaws |-> files[n].flaws \union fl]
        ELSE files[n]
  BY <1>1, GrowsType
<1>3. Growing(p)
  <2> SUFFICES ASSUME NEW n \in 1..MaxFiles
               PROVE  /\ files'[n].data = files[n].data /\ files[n].flaws \subseteq files'[n].flaws
                      /\ files'[n].shape # files[n].shape => n = proc[p].file /\ Changes(p, n)
    BY DEF Growing
  <2>1. CASE n = proc[p].file
    <3>1. files'[n] = [data |-> files[n].data, shape |-> s, flaws |-> files[n].flaws \union fl]
      BY <1>2, <2>1
    <3>2. s # files[n].shape => Changes(p, n)
      BY <2>1, <3>1 DEF Changes, Mine
    <3> QED BY <2>1, <3>1, <3>2
  <2>2. CASE n # proc[p].file
    BY <1>2, <2>2
  <2> QED BY <2>1, <2>2
<1>4. Saved' = Saved
  BY DEF Saved, saved
<1>5. proc[p].at # "vacuum"
  BY DEF Opened
<1> QED BY <1>3, <1>4, <1>5 DEF Steady, Keeping, given

(* A step that only moves the process, into a phase that asks for nothing. *)
LEMMA QuietCalm ==
  ASSUME TypeInv, Calm, NEW p \in Procs, UNCHANGED <<given, store, saved>>, Others(p),
         proc[p].at # "vacuum", proc'[p].file \in {0, proc[p].file}, Enters(p),
         proc'[p].at # "vacuum"
  PROVE  Calm'
<1>1. Keeping
  BY DEF Keeping, Saved, saved
<1> QED BY <1>1, QuietSteady, SteadyCalm

LEMMA BackCalm ==
  ASSUME TypeInv, Calm, NEW p \in Procs, UNCHANGED <<given, store, saved>>, Others(p),
         proc[p].at # "vacuum", proc'[p].file = 0, proc'[p].at \in {"legacy", "down"}
  PROVE  Calm'
<1>1. Enters(p)
  BY DEF Enters, Late
<1>2. proc'[p].at # "vacuum"
  OBVIOUS
<1> QED BY <1>1, <1>2, QuietCalm

(* A file that is taken for a new one, and is one.                         *)
LEMMA NewOne ==
  ASSUME TypeInv, Calm, NEW p \in Procs, proc[p].at = "verify", path # 0, proc[p].file = path,
         ~IsInitialized(files[path]), Sound(path)
  PROVE  files[path].data = "none"
<1>1. path \in 1..MaxFiles /\ Used(path)
  BY Numbers DEF Used
<1>2. ~Copied(path)
  BY <1>1 DEF Calm, Contents, Blank
<1> QED BY <1>1, <1>2 DEF Calm, Contents, Filled, IsInitialized

(* Backups are replaced and made; what is saved stays saved, or is lost.   *)
LEMMA ReplacingKeeps ==
  ASSUME recent' = "nothing",
         \/ UNCHANGED older /\ lost' = lost \union Old(recent)
         \/ UNCHANGED lost /\ older' = older \union Old(recent)
  PROVE  Keeping
BY DEF Keeping, Saved, Old

LEMMA WritingKeeps ==
  ASSUME NEW b, lost' = lost \ Old(b),
         \/ recent = "nothing" /\ recent' = b /\ UNCHANGED older
         \/ UNCHANGED recent /\ older' = older \union Old(b)
  PROVE  /\ Keeping
         /\ b \in {"legacy", "node"} => b \in Saved'
BY DEF Keeping, Saved, Old

LEMMA NextCalm == TypeInv /\ Calm /\ [Next]_vars => Calm'
<1> SUFFICES ASSUME TypeInv, Calm, [Next]_vars PROVE Calm'
  OBVIOUS
<1>0. TypeOK /\ FilesOK /\ files \in [1..MaxFiles -> File]
  BY DEF TypeInv, TypeOK
<1>1. CASE UNCHANGED vars
  BY <1>1 DEF vars, given, store, saved, Calm, Contents, Used, Copied, Sound, Blank, Filled, Heirs,
              Backed, Begun, Saved, Schema, Mine, Searching
<1>2. CASE Next
  <2> PICK p \in Procs : Start(p) \/ Step(p) \/ Error(p) \/ Crash(p) \/ Stop(p)
    BY <1>2 DEF Next
  <2>0. /\ proc[p].at \in Opened \union {"vacuum"} => proc[p].file \in 1..MaxFiles /\ proc[p].file # 0
        /\ proc[p].at \in Closed => proc[p].file = 0
    BY <1>0, Numbers DEF FilesOK
  <2>1. CASE Start(p)
    BY <1>0, <2>1, FallsBack, BackCalm DEF Start
  <2>2. CASE TryLegacy(p)
    <3>1. /\ Others(p) /\ proc'[p].file = 0
          /\ \/ path = 0 /\ "legacy" \in past /\ proc'[p].at = "clear" /\ proc'[p].from = "legacy"
             \/ ~(path = 0 /\ "legacy" \in past) /\ proc'[p].at = "node"
      BY <1>0, <2>0, <2>2, ProcType DEF TryLegacy, Goes, Others, Closed, ProcRec
    <3>2. Enters(p)
      BY <3>1 DEF Enters, Late
    <3> QED BY <2>0, <2>2, <3>1, <3>2, QuietCalm DEF TryLegacy, Closed
  <2>3. CASE TryNode(p)
    <3>1. /\ Others(p) /\ proc'[p].file = 0
          /\ \/ path = 0 /\ "node" \in past /\ proc'[p].at = "clear" /\ proc'[p].from = "node"
             \/ ~(path = 0 /\ "node" \in past) /\ proc'[p].at = "open"
      BY <1>0, <2>0, <2>3, ProcType DEF TryNode, Goes, Others, Closed, ProcRec
    <3>2. ~unlinked /\ path = 0 => "legacy" \notin past
      BY <2>3 DEF TryNode, Calm, Searching
    <3>3. past \subseteq {"legacy", "node"}
      BY <1>0, Constants DEF TypeOK
    <3>4. Enters(p)
      BY <3>1, <3>2, <3>3 DEF Enters, Late
    <3> QED BY <2>0, <2>3, <3>1, <3>4, QuietCalm DEF TryNode, Closed
  <2>4. CASE ClearTarget(p)
    BY <2>4, ClearCalm
  <2>5. CASE BeginCopy(p)
    <3>1. CASE path # 0
      BY <1>0, <2>5, <3>1, FallsBack, BackCalm DEF BeginCopy
    <3>2. CASE path = 0
      <4>1. PICK fl \in SUBSET {"doubtful", "short", "unseen"} : Makes(p, "vacuum", fl)
        BY <2>5, <3>2 DEF BeginCopy
      <4>2. proc[p].from \in past /\ proc[p].at = "source"
        BY <2>5 DEF BeginCopy, Calm, Searching
      <4>3. past' = past
        BY <2>5 DEF BeginCopy, given
      <4>4. \A phase \in {"vacuum"} : Makes(p, phase, fl) => Calm'
        BY <2>5, <4>2, <4>3, MadeCalm DEF BeginCopy
      <4> QED BY <4>1, <4>4
    <3> QED BY <3>1, <3>2
  <2>6. CASE EndCopy(p)
    <3>1. proc[p].from \in past /\ proc[p].at = "vacuum"
      BY <2>6 DEF EndCopy, Calm, Searching
    <3>2. /\ Others(p) /\ proc'[p].file = 0 /\ proc'[p].at \in {"node", "open"}
      BY <1>0, <2>6, ProcType DEF EndCopy, Others, ProcRec
    <3>3. PICK fl \in SUBSET {"doubtful", "short", "unseen"} :
            fl = {} /\ Becomes(p, proc[p].from, "old", fl)
      BY <2>6 DEF EndCopy
    <3>4. PICK d \in Kinds, c \in 1..MaxFiles,
                 s \in {"hollow", "broken", "old", "tables", "migrated", "complete"} :
            Becomes(p, d, s, fl) /\ d \in past /\ s = "old" /\ proc[p].file = c
      BY <1>0, <2>0, <3>1, <3>3, ProcType DEF ProcRec
    <3>5. UNCHANGED <<path, past, unlinked, saved>> /\ "doubtful" \notin fl
      BY <2>6, <3>3 DEF EndCopy, given
    <3> QED BY <3>1, <3>2, <3>4, <3>5, CopiedCalm
  <2>7. CASE Open(p)
    <3>1. CASE path = 0
      <4>1. PICK fl \in SUBSET {"doubtful", "short", "unseen"} :
              fl = {f \in {"doubtful"} : unlinked} /\ Makes(p, "verify", fl)
        BY <2>7, <3>1 DEF Open
      <4>2. proc[p].at = "open" /\ ("doubtful" \notin fl => past = {})
        BY <2>7, <3>1, <4>1 DEF Open, Calm, Searching
      <4>3. past' = past
        BY <2>7 DEF Open, given
      <4>4. \A phase \in {"verify"} : Makes(p, phase, fl) => Calm'
        BY <2>7, <4>2, <4>3, MadeCalm DEF Open
      <4> QED BY <4>1, <4>4
    <3>2. CASE path # 0
      BY <2>7, <3>2, OpenCalm
    <3> QED BY <3>1, <3>2
  <2>8. CASE Verify(p)
    <3>0. proc[p].at = "verify" /\ proc[p].at \in Opened /\ proc[p].at \notin Late
      BY <2>8 DEF Verify, Opened, Late
    <3>1. CASE Fails(p) /\ UNCHANGED files
      BY <1>0, <2>8, <3>0, <3>1, FallsBack, BackCalm DEF Verify, store
    <3>2. CASE Goes(p, "backup") /\ UNCHANGED files
      <4>1. Others(p) /\ proc'[p].at = "backup" /\ proc'[p].file = proc[p].file
        BY <1>0, <3>2, GoesOn, PhaseNames DEF Opened
      <4>2. Enters(p)
        BY <4>1 DEF Enters, Late
      <4> QED BY <2>8, <3>0, <3>2, <4>1, <4>2, QuietCalm DEF Verify, store
    <3>3. CASE Goes(p, "create") /\ UNCHANGED files /\ ~IsInitialized(Mine(p))
      <4>1. Others(p) /\ proc'[p].at = "create" /\ proc'[p].file = proc[p].file
        BY <1>0, <3>3, GoesOn, PhaseNames DEF Opened
      <4>2. path # 0 /\ proc[p].file = path /\ Sound(path) => files[path].data = "none"
        BY <3>0, <3>3, NewOne DEF Mine
      <4>3. Enters(p)
        BY <2>8, <3>3, <4>1, <4>2 DEF Enters, Sound, Verify
      <4> QED BY <2>8, <3>0, <3>3, <4>1, <4>3, QuietCalm DEF Verify, store
    <3>4. CASE Goes(p, "create") /\ Grows(p, Mine(p).shape, {"unseen"})
      <4>1. Others(p) /\ proc'[p].at = "create" /\ proc'[p].file = proc[p].file
        BY <1>0, <3>4, GoesOn, PhaseNames DEF Opened
      <4>2. PICK s \in {"hollow", "broken", "old", "tables", "migrated", "complete"},
                 fl \in SUBSET {"doubtful", "short", "unseen"} :
              Grows(p, s, fl) /\ s = Mine(p).shape /\ "unseen" \in fl
        BY <1>0, <2>0, <3>0, <3>4 DEF Mine, File
      <4>3. "unseen" \in files'[proc[p].file].flaws
        BY <1>0, <2>0, <3>0, <4>2, GrowsMine
      <4>4. Enters(p)
        BY <2>8, <4>1, <4>3 DEF Enters
      <4>5. UNCHANGED <<given, path, unlinked, saved>> /\ proc'[p].at # "vacuum"
        BY <2>8, <4>1 DEF Verify
      <4>6. Steady(p)
        BY <3>0, <4>1, <4>2, <4>4, <4>5, GrowsSteady
      <4> QED BY <4>6, SteadyCalm
    <3> QED BY <2>8, <3>1, <3>2, <3>3, <3>4 DEF Verify
  <2>9. CASE BackupExisting(p)
    <3>0. proc[p].at = "backup"
      BY <2>9 DEF BackupExisting
    <3>1. CASE path = 0 /\ Goes(p, "create") /\ UNCHANGED saved
      <4>1. Others(p) /\ proc'[p].at = "create" /\ proc'[p].file = proc[p].file
        BY <1>0, <3>1, GoesOn, PhaseNames DEF Opened
      <4>2. Enters(p)
        BY <3>1, <4>1 DEF Enters
      <4> QED BY <2>9, <3>0, <3>1, <4>1, <4>2, QuietCalm DEF BackupExisting
    <3>2. CASE path # 0
      <4>1. Others(p) /\ proc'[p].at = "snapshot" /\ proc'[p].file = proc[p].file
        <5>1. proc \in [Procs -> ProcRec]
          BY <1>0, ProcType
        <5>2. CASE proc' = [proc EXCEPT ![p].at = "snapshot", ![p].second = "last"]
          BY <5>1, <5>2 DEF Others, ProcRec
        <5>3. CASE proc' = [q \in Procs |->
                     IF q = p THEN [proc[p] EXCEPT !.at = "snapshot", !.second = "last"]
                     ELSE IF proc[q].second = "last" THEN [proc[q] EXCEPT !.second = "past"]
                     ELSE proc[q]]
          BY <5>1, <5>3 DEF Others, ProcRec
        <5> QED BY <2>9, <3>2, <5>2, <5>3 DEF BackupExisting
      <4>2. Keeping
        BY <2>9, <3>2, ReplacingKeeps DEF BackupExisting
      <4>3. Enters(p)
        BY <4>1 DEF Enters, Late
      <4>4. Steady(p)
        BY <2>9, <3>0, <4>1, <4>2, <4>3, QuietSteady DEF BackupExisting
      <4> QED BY <4>4, SteadyCalm
    <3> QED BY <2>9, <3>1, <3>2 DEF BackupExisting
  <2>10. CASE WriteBackup(p)
    <3>0. proc[p].at = "snapshot"
      BY <2>10 DEF WriteBackup
    <3>1. CASE Fails(p) /\ UNCHANGED saved
      BY <1>0, <2>10, <3>0, <3>1, FallsBack, BackCalm DEF WriteBackup
    <3>2. CASE /\ path # 0 /\ Goes(p, "create")
               /\ lost' = lost \ Old(Snapshot(files[path]))
               /\ \/ /\ recent = "nothing" /\ recent' = Snapshot(files[path]) /\ UNCHANGED older
                  \/ UNCHANGED recent /\ older' = older \union Old(Snapshot(files[path]))
      <4>1. Others(p) /\ proc'[p].at = "create" /\ proc'[p].file = proc[p].file
        BY <1>0, <3>2, GoesOn, PhaseNames DEF Opened
      <4>2. /\ Keeping
            /\ Snapshot(files[path]) \in {"legacy", "node"} => Snapshot(files[path]) \in Saved'
        BY <3>2, WritingKeeps
      <4>3. path \in 1..MaxFiles /\ files[path].data \in Kinds /\ files' = files
        BY <2>10, <3>2, Numbers DEF File, WriteBackup, store
      <4>4. files[path].flaws \intersect {"doubtful", "unseen"} = {} /\ files[path].data # "none" =>
              files[path].data \in Saved'
        <5>1. CASE files[path].shape = "old"
          BY <4>2, <4>3, <5>1 DEF Snapshot, Kinds
        <5>2. CASE files[path].shape # "old"
          BY <3>2, <4>2, <4>3, <5>2 DEF Calm, Backed, Begun, Keeping, Kinds
        <5> QED BY <5>1, <5>2
      <4>5. Enters(p)
        BY <3>0, <4>1, <4>3, <4>4 DEF Enters
      <4>6. Steady(p)
        BY <2>10, <3>0, <4>1, <4>2, <4>5, QuietSteady DEF WriteBackup
      <4> QED BY <4>6, SteadyCalm
    <3> QED BY <2>10, <3>1, <3>2 DEF WriteBackup
  <2>11. CASE CreateTables(p)
    <3>0. proc[p].at = "create" /\ proc[p].at \in Opened /\ proc[p].at \in Late
      BY <2>11 DEF CreateTables, Opened, Late
    <3>1. Others(p) /\ proc'[p].at = "migrate" /\ proc'[p].file = proc[p].file
      BY <1>0, <2>11, GoesOn, PhaseNames DEF CreateTables, Opened
    <3>2. Enters(p)
      BY <3>0, <3>1 DEF Enters
    <3>3. CASE UNCHANGED files
      BY <2>11, <3>0, <3>1, <3>2, <3>3, QuietCalm DEF CreateTables, store
    <3>4. CASE Mine(p).shape = "hollow" /\ Grows(p, "tables", {})
      <4>1. PICK s \in {"hollow", "broken", "old", "tables", "migrated", "complete"},
                 fl \in SUBSET {"doubtful", "short", "unseen"} : Grows(p, s, fl) /\ s = "tables"
        BY <3>4
      <4>2. UNCHANGED <<given, path, unlinked, saved>> /\ proc'[p].at # "vacuum"
        BY <2>11, <3>1 DEF CreateTables
      <4>3. Steady(p)
        BY <3>0, <3>1, <3>2, <3>4, <4>1, <4>2, GrowsSteady
      <4> QED BY <4>3, SteadyCalm
    <3> QED BY <2>11, <3>3, <3>4 DEF CreateTables
  <2>12. CASE Migrate(p)
    <3>0. proc[p].at = "migrate" /\ proc[p].at \in Opened /\ proc[p].at \in Late
      BY <2>12 DEF Migrate, Opened, Late
    <3>1. CASE Fails(p) /\ UNCHANGED files
      BY <1>0, <2>12, <3>0, <3>1, FallsBack, BackCalm DEF Migrate, store
    <3>2. ASSUME Goes(p, "indexes"), NEW fl \in SUBSET {"doubtful", "short", "unseen"},
                 Grows(p, Later(Mine(p).shape), fl)
          PROVE  Calm'
      <4>1. Others(p) /\ proc'[p].at = "indexes" /\ proc'[p].file = proc[p].file
        BY <1>0, <3>2, GoesOn, PhaseNames DEF Opened
      <4>2. PICK s \in {"hollow", "broken", "old", "tables", "migrated", "complete"} :
              Grows(p, s, fl) /\ s = Later(Mine(p).shape) /\ s \in {"migrated", "complete"}
        BY <3>2 DEF Later
      <4>3. files'[proc[p].file].shape = s
        BY <1>0, <2>0, <3>0, <4>2, GrowsMine
      <4>4. Enters(p)
        BY <3>0, <4>1, <4>2, <4>3 DEF Enters
      <4>5. UNCHANGED <<given, path, unlinked, saved>> /\ proc'[p].at # "vacuum"
        BY <2>12, <4>1 DEF Migrate
      <4>6. Steady(p)
        BY <3>0, <4>1, <4>2, <4>4, <4>5, GrowsSteady
      <4> QED BY <4>6, SteadyCalm
    <3> QED BY <2>12, <3>1, <3>2 DEF Migrate
  <2>13. CASE CreateIndexes(p)
    <3>0. proc[p].at = "indexes" /\ proc[p].at \in Late
      BY <2>13 DEF CreateIndexes, Late
    <3>1. Others(p) /\ proc'[p].at = "columns" /\ proc'[p].file = proc[p].file /\ files' = files
      BY <1>0, <2>13, GoesOn, PhaseNames DEF CreateIndexes, Opened, store
    <3>2. Sound(proc[p].file) => Mine(p).shape \in {"migrated", "complete"}
      BY <3>0 DEF Calm, Schema
    <3>3. Enters(p)
      BY <3>0, <3>1, <3>2 DEF Enters, Sound, Mine
    <3> QED BY <2>13, <3>0, <3>1, <3>3, QuietCalm DEF CreateIndexes
  <2>14. CASE AddColumns(p)
    <3>0. proc[p].at = "columns" /\ proc[p].at \in Opened /\ proc[p].at \in Late
      BY <2>14 DEF AddColumns, Opened, Late
    <3>1. Others(p) /\ proc'[p].at = "serving" /\ proc'[p].file = proc[p].file
      BY <1>0, <2>14, GoesOn, PhaseNames DEF AddColumns, Opened
    <3>2. Sound(proc[p].file) => Mine(p).shape \in {"migrated", "complete"}
      BY <3>0 DEF Calm, Schema
    <3>3. CASE Mine(p).shape # "migrated" /\ UNCHANGED files
      <4>1. Enters(p)
        BY <3>0, <3>1, <3>2, <3>3 DEF Enters, Sound, Mine
      <4> QED BY <2>14, <3>0, <3>1, <3>3, <4>1, QuietCalm DEF AddColumns, store
    <3>4. ASSUME NEW s \in {"hollow", "broken", "old", "tables", "migrated", "complete"},
                 NEW fl \in SUBSET {"doubtful", "short", "unseen"}, Grows(p, s, fl),
                 \/ Mine(p).shape = "migrated" /\ s = "complete"
                 \/ s = Mine(p).shape /\ "short" \in fl
          PROVE  Calm'
      <4>1. files'[proc[p].file].shape = "complete" \/ "short" \in files'[proc[p].file].flaws
        <5>1. files'[proc[p].file].shape = s /\ fl \subseteq files'[proc[p].file].flaws
          BY <1>0, <2>0, <3>0, <3>4, GrowsMine
        <5> QED BY <3>4, <5>1
      <4>2. Enters(p)
        BY <3>0, <3>1, <4>1 DEF Enters
      <4>3. UNCHANGED <<given, path, unlinked, saved>> /\ proc'[p].at # "vacuum"
        BY <2>14, <3>1 DEF AddColumns
      <4>4. Steady(p)
        BY <3>0, <3>1, <3>4, <4>2, <4>3, GrowsSteady
      <4> QED BY <4>4, SteadyCalm
    <3>5. CASE Mine(p).shape = "migrated" /\ Grows(p, "complete", {})
      BY <3>4, <3>5
    <3>6. CASE Grows(p, Mine(p).shape, {"short"})
      <4>1. Mine(p) \in File
        BY <1>0, <2>0, <3>0 DEF Mine
      <4>2. Mine(p).shape \in {"hollow", "broken", "old", "tables", "migrated", "complete"}
        BY <4>1 DEF File
      <4> QED BY <3>4, <3>6, <4>2
    <3> QED BY <2>14, <3>3, <3>5, <3>6 DEF AddColumns
  <2>15. ASSUME Leave(p), Others(p), proc'[p].file = 0, proc'[p].at \in {"legacy", "down"},
                UNCHANGED <<given, path, unlinked, saved>>
         PROVE  Calm'
    <3>1. CASE proc[p].at # "vacuum"
      BY <2>15, <3>1, BackCalm DEF Leave, store
    <3>2. CASE proc[p].at = "vacuum"
      <4>1. PICK s \in {"hollow", "broken"} : Becomes(p, "none", s, {"doubtful"})
        BY <2>15, <3>2 DEF Leave
      <4>2. PICK d \in Kinds, c \in 1..MaxFiles,
                 t \in {"hollow", "broken", "old", "tables", "migrated", "complete"},
                 fl \in SUBSET {"doubtful", "short", "unseen"} :
              Becomes(p, d, t, fl) /\ "doubtful" \in fl /\ proc[p].file = c
        BY <2>0, <3>2, <4>1 DEF Kinds
      <4>3. UNCHANGED <<path, past, unlinked, saved>> /\ proc'[p].at \notin {"node", "open"}
        BY <2>15 DEF given
      <4> QED BY <2>15, <3>2, <4>2, <4>3, CopiedCalm
    <3> QED BY <3>1, <3>2
  <2>16. CASE Error(p)
    BY <1>0, <2>15, <2>16, FallsBack DEF Error
  <2>17. CASE Crash(p)
    BY <1>0, <2>15, <2>17, FallsBack DEF Crash
  <2>18. CASE Stop(p)
    BY <1>0, <2>18, FallsBack, BackCalm DEF Stop
  <2> QED BY <2>1, <2>2, <2>3, <2>4, <2>5, <2>6, <2>7, <2>8, <2>9, <2>10, <2>11, <2>12, <2>13,
             <2>14, <2>16, <2>17, <2>18 DEF Step
<1> QED BY <1>1, <1>2

-----------------------------------------------------------------------------
(* Theorems *)

LEMMA Invariant == Spec => [](TypeInv /\ Calm)
<1>1. Init => TypeInv /\ Calm
  BY InitType, InitCalm
<1>2. TypeInv /\ Calm /\ [Next]_vars => (TypeInv /\ Calm)'
  BY NextType, NextCalm
<1> QED BY <1>1, <1>2, PTL DEF Spec

(* Attempts, files, faults and backups of a start stay within their        *)
(* bounds; main.rs: run tries no more than max_attempts times.             *)
THEOREM TypeCorrect == Spec => []TypeOK
BY Invariant, PTL DEF TypeInv

(* A process that serves has the data of a predecessor, if there is one,   *)
(* in the whole schema, but for the files whose copy was cut short, not    *)
(* waited for or removed, and columns that could not be added (pool.rs:    *)
(* create_pool; migrations.rs: copy_db_consistent; main.rs: run).          *)
THEOREM Serves == Spec => []ServesTheDatabase
<1>1. TypeInv /\ Calm => ServesTheDatabase
  <2> SUFFICES ASSUME TypeInv, Calm, NEW p \in Procs,
                      proc[p].at = "serving", Sound(proc[p].file)
               PROVE  /\ Mine(p).data \in (IF past = {} THEN {"none"} ELSE past)
                      /\ Mine(p).shape = "complete" \/ "short" \in Mine(p).flaws
    BY DEF ServesTheDatabase, Sound, Mine
  <2>1. proc[p].file \in 1..MaxFiles /\ Used(proc[p].file)
    BY Numbers DEF Used, Opened
  <2>2. ~Copied(proc[p].file)
    BY <2>1 DEF Calm, Contents, Blank
  <2>3. Filled(proc[p].file)
    BY <2>1, <2>2 DEF Calm, Contents
  <2> QED BY <2>3 DEF Filled, Heirs, Mine, Calm, Schema
<1> QED BY <1>1, Invariant, PTL

(* No data come into the new shape before they were saved in the old one,  *)
(* whatever fails and whichever process restarts; the backup may since     *)
(* have been replaced by one of the same second (migrations.rs:            *)
(* backup_existing_db; pool.rs: create_pool).                              *)
THEOREM BackedUpFirst == Spec => []MigratedWithBackup
<1>1. TypeInv /\ Calm => MigratedWithBackup
  BY DEF Calm, Backed, Begun, Saved, MigratedWithBackup
<1> QED BY <1>1, Invariant, PTL

=============================================================================
