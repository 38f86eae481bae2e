--------------------------- MODULE SetupMigration --------------------------
(***************************************************************************)
(* The migration of an installation made before the current setup format   *)
(* (setup_workflow.py: build_migration_plan and commit_migration_plan).    *)
(* The plan reads every file and computes what will replace it; the user   *)
(* looks at the plan for as long as they like; the commit then backs up,   *)
(* stages and replaces the files one after the other, the installation     *)
(* record last.  When a step fails it puts the files back in the same      *)
(* order, one by one: a file it cannot put back is noted and left.         *)
(*                                                                         *)
(* A file is the edit it holds and whether it has the current format.  An  *)
(* editor, another process of the same user, may change a file at any      *)
(* time; the setup process may be killed between any two writes, those of  *)
(* a rollback among them.                                                  *)
(***************************************************************************)
EXTENDS Naturals, FiniteSets

CONSTANTS
    Others,     \* the files that may need rewriting, besides the record
    Record,     \* the installation record, instance.json
    MaxEdits,   \* bound on the edits made to a file
    Nothing

Files == Others \cup {Record}

VARIABLES
    live,       \* what each file holds
    bak,        \* what each file's backup holds, or Nothing
    at,         \* "off", "plan", "backup", "replace", "undo"
    plan,       \* the content the plan will write to each file it lists
    saved,      \* the content captured when the commit began
    left,       \* the files the current phase still has to handle
    late,       \* edits made after the backup was taken, for the properties
    torn        \* the last rollback began with the record replaced, likewise

migration == <<live, bak, at, plan, saved, left, late, torn>>

Content == [edit : 0..MaxEdits, current : BOOLEAN]
None == [f \in {} |-> Nothing]

TypeOK ==
    /\ live \in [Files -> Content]
    /\ bak \in [Files -> Content \cup {Nothing}]
    /\ at \in {"off", "plan", "backup", "replace", "undo"}
    /\ DOMAIN plan \subseteq Files /\ left \subseteq DOMAIN plan

\* An installation of the earlier format; a file may happen to be current.
Init ==
    /\ \E old \in SUBSET Others :
          live = [f \in Files |-> [edit |-> 0, current |-> f \notin old \cup {Record}]]
    /\ bak = [f \in Files |-> Nothing]
    /\ at = "off"
    /\ plan = None
    /\ saved = None
    /\ left = {}
    /\ late = {}
    /\ torn = FALSE

Migrated(f) == [edit |-> live[f].edit, current |-> TRUE]

\* The plan lists what is not current; nothing is written.
Plan ==
    /\ at = "off"
    /\ ~live[Record].current
    /\ plan' = [f \in {g \in Files : ~live[g].current} |-> Migrated(f)]
    /\ at' = "plan"
    /\ UNCHANGED <<live, bak, saved, left, late, torn>>

Idle ==
    /\ at' = "off"
    /\ plan' = None
    /\ saved' = None
    /\ left' = {}

\* The user skips, cancels or leaves; or the process is killed.
Stop ==
    /\ at # "off"
    /\ Idle
    /\ UNCHANGED <<live, bak, late, torn>>

Confirm ==
    /\ at = "plan"
    /\ saved' = [f \in DOMAIN plan |-> live[f]]
    /\ left' = DOMAIN plan
    /\ at' = "backup"
    /\ torn' = FALSE
    /\ UNCHANGED <<live, bak, plan, late>>

\* The record when its turn comes, which is any.
ReadyInAnyOrder(f) == f \in left

\* The files in the order of the plan: the record comes after all the others.
Ready(f) == f \in left /\ (f = Record => left = {Record})

\* The backup is made of what the plan read.
BackupOfPlan(f) ==
    /\ at = "backup"
    /\ Ready(f)
    /\ bak' = [bak EXCEPT ![f] = [plan[f] EXCEPT !.current = FALSE]]
    /\ left' = left \ {f}
    /\ late' = late \ {f}
    /\ UNCHANGED <<live, at, plan, saved, torn>>

Backup(f) ==
    /\ at = "backup"
    /\ Ready(f)
    /\ bak' = [bak EXCEPT ![f] = live[f]]
    /\ left' = left \ {f}
    /\ late' = late \ {f}
    /\ UNCHANGED <<live, at, plan, saved, torn>>

\* Every replacement is written next to its file and validated.
Stage ==
    /\ at = "backup"
    /\ left = {}
    /\ at' = "replace"
    /\ left' = DOMAIN plan
    /\ UNCHANGED <<live, bak, plan, saved, late, torn>>

Replace(f) ==
    /\ at = "replace"
    /\ Ready(f)
    /\ live' = [live EXCEPT ![f] = plan[f]]
    /\ left' = left \ {f}
    /\ UNCHANGED <<bak, at, plan, saved, late, torn>>

Finish ==
    /\ at = "replace"
    /\ left = {}
    /\ Idle
    /\ UNCHANGED <<live, bak, late, torn>>

\* A backup, a staging or a replacement fails: a change of mode too, which
\* comes after its file was replaced.
Rollback ==
    /\ at \in {"backup", "replace"}
    /\ at' = "undo"
    /\ left' = DOMAIN plan
    /\ torn' = (at = "replace" /\ Record \notin left)
    /\ UNCHANGED <<live, bak, plan, saved, late>>

\* The next file is put back as it was captured, or cannot be and stays.
Restore(f, ok) ==
    /\ at = "undo"
    /\ Ready(f)
    /\ live' = IF ok THEN [live EXCEPT ![f] = saved[f]] ELSE live
    /\ left' = left \ {f}
    /\ UNCHANGED <<bak, at, plan, saved, late, torn>>

EndRollback ==
    /\ at = "undo"
    /\ left = {}
    /\ Idle
    /\ UNCHANGED <<live, bak, late, torn>>

\* Another process saves a file, in the format the file has.
Edit(f) ==
    /\ f \in Others
    /\ live[f].edit < MaxEdits
    /\ live' = [live EXCEPT ![f].edit = @ + 1]
    /\ late' = IF at \in {"backup", "replace", "undo"} THEN late \cup {f} ELSE late
    /\ UNCHANGED <<bak, at, plan, saved, left, torn>>

Next ==
    \/ Plan \/ Stop \/ Confirm \/ Stage \/ Finish \/ Rollback \/ EndRollback
    \/ \E f \in Files : Backup(f) \/ Replace(f) \/ Edit(f)
    \/ \E f \in Files, ok \in BOOLEAN : Restore(f, ok)

Spec == Init /\ [][Next]_migration

-----------------------------------------------------------------------------
(* "The activation record is written last so an interruption leaves a      *)
(* valid legacy or migrated installation", the plan tells the user         *)
(* (build_migration_plan): a current record names current files only.  It  *)
(* does not hold, and no run checks it: a rollback that begins after the   *)
(* record was replaced puts the other files back first.                    *)
RecordNamesCurrentFiles == live[Record].current => \A f \in Others : live[f].current

(* What holds of it: wherever the process was killed or failed, through    *)
(* the backups, the replacements and a rollback with whatever files it     *)
(* cannot put back, a current record names current files, unless that      *)
(* rollback began after the record itself was replaced                     *)
(* (commit_migration_plan).                                                *)
RecordComesLast == ~torn => RecordNamesCurrentFiles

(* An edit made before a file was backed up is never lost: it is in the    *)
(* file or in the backup beside it, though the plan was computed earlier   *)
(* and knows nothing of it, and though a rollback may stop half-way (the   *)
(* backups and the rollback of commit_migration_plan).                     *)
EditsAreKept ==
    [][\A f \in Others :
         live'[f].edit < live[f].edit =>
            f \in late \/ (bak[f] # Nothing /\ bak[f].edit = live[f].edit)]_migration
=============================================================================
