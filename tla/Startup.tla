------------------------------ MODULE Startup -------------------------------
(***************************************************************************)
(* How a process gets its database (main.rs: run; database/pool.rs:        *)
(* create_pool; migrations.rs; schema.rs): the copy of a predecessor's     *)
(* file, the backup, the tables, the migration in one transaction, the     *)
(* late columns.  The server and each command of the command line do all   *)
(* of it, possibly at the same time, and may end at any point; what fails  *)
(* is tried again.                                                         *)
(*                                                                         *)
(* A file is told apart from the path that names it: copy_db_consistent    *)
(* removes what is in its way, also from under a process that has it open. *)
(***************************************************************************)
EXTENDS Integers, FiniteSets

CONSTANTS
  Procs,         \* processes
  Pasts,         \* the predecessors there may be: sets of "legacy", whose
                 \* ccflare.db there is, and "node", with a better-ccflare.db
  Orphaned,      \* those that may have payloads without a request
  MaxFiles,      \* bound: files at a time, one per process and the path's
  MaxAttempts,   \* max_attempts of run
  MaxFaults,     \* bound: crashes and failures
  MaxStarts      \* bound: starts of processes

ASSUME StartupAssumption ==
  /\ Pasts \subseteq SUBSET {"legacy", "node"}
  /\ MaxAttempts \in Nat \ {0} /\ {MaxFiles, MaxFaults, MaxStarts} \subseteq Nat

VARIABLES
  past,          \* the predecessors whose files there are
  orphans,       \* do they have payloads without a request?
  path,          \* the file better-ccflare-rs.db names, 0 if none
  files,         \* what each file has
  recent,        \* the backup named by the last second that has one
  older,         \* data in their old shape that have one of a second before
  proc,          \* each process: where it is
  faults, starts,
  unlinked,      \* history: a copy removed a file that had come to the path
  lost           \* history: data whose old backup was removed for another one

given == <<past, orphans>>
store == <<path, files, unlinked>>
saved == <<recent, older, lost>>
bounds == <<faults, starts>>
vars == <<given, store, saved, proc, bounds>>

(* A file without tables is "hollow": a new one, or an unfinished copy.    *)
(* Its flaws are history: its copy was cut short, or it was opened before  *)
(* the copy was done, or made in place of one removed ("doubtful"); a      *)
(* column could not be added ("short"); a query failed, and it was taken   *)
(* for new ("unseen").                                                     *)
Kinds == {"none", "legacy", "node"}
File == [data : Kinds,
         shape : {"hollow", "broken", "old", "tables", "migrated", "complete"},
         flaws : SUBSET {"doubtful", "short", "unseen"}]
Empty == [data |-> "none", shape |-> "hollow", flaws |-> {}]

Phases == {"down", "legacy", "node", "clear", "source", "vacuum", "open", "verify", "backup",
           "snapshot", "create", "migrate", "indexes", "columns", "serving"}

(* Each process also has the second of the backup it began last: "last" if *)
(* none began one in a later second.                                       *)
Down == [at |-> "down", file |-> 0, from |-> "none", attempt |-> 0, second |-> "none"]

TypeOK ==
  /\ past \in Pasts /\ orphans \in BOOLEAN
  /\ path \in 0..MaxFiles /\ files \in [1..MaxFiles -> File]
  /\ recent \in {"nothing", "new"} \union Kinds /\ older \subseteq Kinds
  /\ proc \in [Procs -> [at : Phases, file : 0..MaxFiles, from : Kinds,
                         attempt : 0..MaxAttempts, second : {"none", "past", "last"}]]
  /\ faults \in 0..MaxFaults /\ starts \in 0..MaxStarts
  /\ unlinked \in BOOLEAN /\ lost \subseteq Kinds

-----------------------------------------------------------------------------
Goes(p, phase) == proc' = [proc EXCEPT ![p].at = phase]

Again(q, n) == [at |-> "legacy", file |-> 0, from |-> "none", attempt |-> n, second |-> q.second]

(* Faults: one attempt too many; attempts that are not counted.            *)
RetryPast(q) == IF q.attempt <= MaxAttempts THEN Again(q, q.attempt + 1) ELSE Down
RetryUncounted(q) == Again(q, 1)

(* create_pool has failed: the next attempt begins from the start, some    *)
(* seconds later.                                                          *)
Retry(q) ==
  IF q.attempt < MaxAttempts THEN Again(q, q.attempt + 1) ELSE Down

(* Fault: a copy that fails is passed over.                                *)
PassesOver(p) ==
  proc' = [proc EXCEPT ![p] =
    IF @.at \in {"clear", "source"} THEN [@ EXCEPT !.at = "open", !.from = "none"] ELSE Retry(@)]

Fails(p) == proc' = [proc EXCEPT ![p] = Retry(@)]

Start(p) ==
  /\ proc[p].at = "down" /\ starts < MaxStarts
  /\ proc' = [proc EXCEPT ![p] = Retry(Down)]
  /\ starts' = starts + 1
  /\ UNCHANGED <<given, store, saved, faults>>

(* migrate_from_legacy                                                     *)
TryLegacy(p) ==
  /\ proc[p].at = "legacy"
  /\ IF path = 0 /\ "legacy" \in past
     THEN proc' = [proc EXCEPT ![p].at = "clear", ![p].from = "legacy"]
     ELSE Goes(p, "node")
  /\ UNCHANGED <<given, store, saved, bounds>>

(* migrate_from_node_db.  The backup of the Node file, which nothing here  *)
(* changes, is not followed; it may fail.                                  *)
TryNode(p) ==
  /\ proc[p].at = "node"
  /\ IF path = 0 /\ "node" \in past
     THEN proc' = [proc EXCEPT ![p].at = "clear", ![p].from = "node"]
     ELSE Goes(p, "open")
  /\ UNCHANGED <<given, store, saved, bounds>>

(* copy_db_consistent: what has come to be at the target is removed, the   *)
(* source opened, and the copy made by VACUUM INTO, which refuses a target *)
(* that is there again.                                                    *)
ClearTarget(p) ==
  /\ proc[p].at = "clear"
  /\ Goes(p, "source")
  /\ path' = 0 /\ unlinked' = (unlinked \/ path # 0)
  /\ UNCHANGED <<given, files, saved, bounds>>

(* A new file comes to the path.                                           *)
Unused == 1..MaxFiles \ ({path} \union {proc[p].file : p \in Procs})

Makes(p, phase, flaws) ==
  \E n \in Unused :
    /\ \A m \in Unused : n <= m
    /\ path' = n
    /\ files' = [files EXCEPT ![n] = [Empty EXCEPT !.flaws = flaws]]
    /\ proc' = [proc EXCEPT ![p].at = phase, ![p].file = n]
    /\ UNCHANGED unlinked

BeginCopy(p) ==
  /\ proc[p].at = "source"
  /\ IF path # 0 THEN Fails(p) /\ UNCHANGED store ELSE Makes(p, "vacuum", {})
  /\ UNCHANGED <<given, saved, bounds>>

Mine(p) == files[proc[p].file]
Becomes(p, data, shape, flaws) ==
  files' = [files EXCEPT ![proc[p].file] =
             [data |-> data, shape |-> shape, flaws |-> @.flaws \union flaws]]

EndCopy(p) ==
  /\ proc[p].at = "vacuum"
  /\ Becomes(p, proc[p].from, "old", {})
  /\ proc' = [proc EXCEPT ![p].at = IF proc[p].from = "legacy" THEN "node" ELSE "open",
                          ![p].file = 0, ![p].from = "none"]
  /\ UNCHANGED <<given, path, unlinked, saved, bounds>>

(* A copy that is not finished stays where it is.                          *)
Leave(p) ==
  IF proc[p].at = "vacuum"
  THEN \E s \in {"hollow", "broken"} : Becomes(p, "none", s, {"doubtful"})
  ELSE UNCHANGED files

Early(n) == {f \in {"doubtful"} : \E q \in Procs : proc[q].at = "vacuum" /\ proc[q].file = n}

(* The pool makes an empty file where there is none.                       *)
Open(p) ==
  /\ proc[p].at = "open"
  /\ IF path = 0
     THEN Makes(p, "verify", {f \in {"doubtful"} : unlinked})
     ELSE /\ proc' = [proc EXCEPT ![p].at = "verify", ![p].file = path]
          /\ files' = [files EXCEPT ![path].flaws = @ \union Early(path)]
          /\ UNCHANGED <<path, unlinked>>
  /\ UNCHANGED <<given, saved, bounds>>

Grows(p, shape, flaws) == Becomes(p, Mine(p).data, shape, flaws)

Fault == faults < MaxFaults /\ faults' = faults + 1 /\ UNCHANGED starts

(* Fault: a database that has tables is taken for a new one.               *)
NeverInitialized(f) == FALSE

IsInitialized(f) == f.shape \notin {"hollow", "broken"}

(* The integrity is checked; a failure to look for tables is taken for     *)
(* their absence.                                                          *)
Verify(p) ==
  /\ proc[p].at = "verify"
  /\ \/ /\ IF Mine(p).shape = "broken" THEN Fails(p)
           ELSE Goes(p, IF IsInitialized(Mine(p)) THEN "backup" ELSE "create")
        /\ UNCHANGED <<bounds, files>>
     \/ /\ IsInitialized(Mine(p)) /\ Fault
        /\ Goes(p, "create")
        /\ Grows(p, Mine(p).shape, {"unseen"})
  /\ UNCHANGED <<given, path, unlinked, saved>>

(* backup_existing_db: it is named by the second, and replaces one of the  *)
(* same name.  An attempt begins seconds after the one before it.          *)
Old(backup) == {backup} \ {"nothing", "new", "none"}

BackupExisting(p) ==
  /\ proc[p].at = "backup"
  /\ \/ path = 0 /\ Goes(p, "create") /\ UNCHANGED saved
     \/ /\ path # 0 /\ proc[p].second # "last"
        /\ recent' = "nothing" /\ lost' = lost \union Old(recent)
        /\ proc' = [proc EXCEPT ![p].at = "snapshot", ![p].second = "last"]
        /\ UNCHANGED older
     \/ /\ path # 0
        /\ recent' = "nothing" /\ older' = older \union Old(recent)
        /\ proc' = [q \in Procs |->
             IF q = p THEN [proc[p] EXCEPT !.at = "snapshot", !.second = "last"]
             ELSE IF proc[q].second = "last" THEN [proc[q] EXCEPT !.second = "past"] ELSE proc[q]]
        /\ UNCHANGED lost
  /\ UNCHANGED <<given, store, bounds>>

Snapshot(f) == IF f.shape = "old" THEN f.data ELSE "new"

WriteBackup(p) ==
  /\ proc[p].at = "snapshot"
  /\ IF \/ path = 0 \/ files[path].shape = "broken"
        \/ proc[p].second = "last" /\ recent # "nothing"
     THEN Fails(p) /\ UNCHANGED saved
     ELSE /\ Goes(p, "create")
          /\ IF proc[p].second = "last"
             THEN recent' = Snapshot(files[path]) /\ UNCHANGED older
             ELSE older' = older \union Old(Snapshot(files[path])) /\ UNCHANGED recent
          /\ lost' = lost \ Old(Snapshot(files[path]))
  /\ UNCHANGED <<given, store, bounds>>

(* create_tables: one statement after another, each on its own.            *)
CreateTables(p) ==
  /\ proc[p].at = "create"
  /\ Goes(p, "migrate")
  /\ IF Mine(p).shape = "hollow" THEN Grows(p, "tables", {}) ELSE UNCHANGED files
  /\ UNCHANGED <<given, path, unlinked, saved, bounds>>

Later(shape) == IF shape = "complete" THEN shape ELSE "migrated"

(* run_schema_migrations: a payload without its request fails the          *)
(* restructuring, since foreign keys are on; a column that cannot be added *)
(* is left out, and the rest committed.                                    *)
Migrate(p) ==
  /\ proc[p].at = "migrate"
  /\ IF Mine(p).shape = "old" /\ orphans
     THEN Fails(p) /\ UNCHANGED <<files, bounds>>
     ELSE /\ Goes(p, "indexes")
          /\ \/ Grows(p, Later(Mine(p).shape), {}) /\ UNCHANGED bounds
             \/ Grows(p, Later(Mine(p).shape), {"short"}) /\ Fault
  /\ UNCHANGED <<given, path, unlinked, saved>>

(* The check of foreign keys, whose findings are logged, and the indexes   *)
(* of create_pool come after the commit.                                   *)
CreateIndexes(p) ==
  /\ proc[p].at = "indexes"
  /\ Goes(p, "columns")
  /\ UNCHANGED <<given, store, saved, bounds>>

(* Tables and indexes again, and run_column_migrations, where every error  *)
(* is ignored.                                                             *)
AddColumns(p) ==
  /\ proc[p].at = "columns"
  /\ Goes(p, "serving")
  /\ \/ /\ IF Mine(p).shape = "migrated" THEN Grows(p, "complete", {}) ELSE UNCHANGED files
        /\ UNCHANGED bounds
     \/ Grows(p, Mine(p).shape, {"short"}) /\ Fault
  /\ UNCHANGED <<given, path, unlinked, saved>>

(* A statement or a file operation fails.                                  *)
Error(p) ==
  /\ proc[p].at \notin {"down", "legacy", "columns", "serving"}
  /\ Fault /\ Leave(p) /\ Fails(p)
  /\ UNCHANGED <<given, path, unlinked, saved>>

(* So does one after create_pool, which ends the process.                  *)
Crash(p) ==
  /\ proc[p].at \notin {"down", "serving"}
  /\ Fault /\ Leave(p)
  /\ proc' = [proc EXCEPT ![p] = Down]
  /\ UNCHANGED <<given, path, unlinked, saved>>

Stop(p) ==
  /\ proc[p].at = "serving"
  /\ proc' = [proc EXCEPT ![p] = Down]
  /\ UNCHANGED <<given, store, saved, bounds>>

Init ==
  /\ past \in Pasts
  /\ orphans \in BOOLEAN /\ (orphans => past \in Orphaned)
  /\ path = 0 /\ files = [n \in 1..MaxFiles |-> Empty] /\ unlinked = FALSE
  /\ recent = "nothing" /\ older = {} /\ lost = {}
  /\ proc = [p \in Procs |-> Down]
  /\ faults = 0 /\ starts = 0

Step(p) ==
  \/ TryLegacy(p) \/ TryNode(p) \/ ClearTarget(p) \/ BeginCopy(p) \/ EndCopy(p) \/ Open(p)
  \/ Verify(p) \/ BackupExisting(p) \/ WriteBackup(p) \/ CreateTables(p) \/ Migrate(p)
  \/ CreateIndexes(p) \/ AddColumns(p)

Next == \E p \in Procs : Start(p) \/ Step(p) \/ Error(p) \/ Crash(p) \/ Stop(p)

Spec == Init /\ [][Next]_vars

(* A process that has begun goes on.                                       *)
FairSpec == Spec /\ \A p \in Procs : WF_vars(Step(p))
-----------------------------------------------------------------------------
(* Properties *)

(* A process serves the data of a predecessor if there is one, in the      *)
(* whole schema, through failures at any step and a second process beside  *)
(* it; what is left are copies that were cut short or opened too early,    *)
(* empty files made after a copy removed one, and columns that could not   *)
(* be added (pool.rs: create_pool; main.rs: run).                          *)
ServesTheDatabase ==
  \A p \in Procs : proc[p].at = "serving" /\ "doubtful" \notin Mine(p).flaws =>
    /\ Mine(p).data \in (IF past = {} THEN {"none"} ELSE past)
    /\ Mine(p).shape = "complete" \/ "short" \in Mine(p).flaws

(* "Backup before potential schema changes - fail-closed so we never       *)
(* migrate without a safety net" (pool.rs: create_pool): once the data of  *)
(* the database are in the new shape, they have a backup in the old one,   *)
(* whatever failed before.  It lacks when another start in the same second *)
(* replaced it, when the query for tables failed, and when the file was    *)
(* opened before its copy was done.                                        *)
MigratedWithBackup ==
  /\ path # 0 /\ files[path].flaws \intersect {"doubtful", "unseen"} = {}
  /\ files[path].data # "none" /\ files[path].shape # "old"
  => files[path].data \in older \union {recent} \union lost

(* Every start ends: the process serves, or gives up.                      *)
StartEnds ==
  \A p \in Procs : proc[p].at = "legacy" ~> proc[p].at \in {"serving", "down"}
=============================================================================
