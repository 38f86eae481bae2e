---------------------------- MODULE StoreMigration ----------------------------
(***************************************************************************)
(* How a store of the placement root moves from its legacy JSON file into  *)
(* the SQLite database (store_migration.py and the _initialize_or_migrate  *)
(* of every store), once, whatever processes start together and crash in   *)
(* between.  Files are replaced atomically and the database works in       *)
(* transactions, but nothing joins the two: a start writes the rollback    *)
(* file, a pending marker over the legacy file, the database and the final *)
(* marker, in that order, and any start may find what another one left.    *)
(* The six stores differ in a few steps.  A deletion of personal context    *)
(* removes the record from the rollback file as well.                      *)
(***************************************************************************)
EXTENDS Integers, FiniteSets

CONSTANTS
    Starters,   \* processes that open the store
    Legacy,     \* records of the legacy file
    Late,       \* records an earlier release may still add to that file
    New,        \* records written to the database
    NoFile      \* no data, no file

Stores  == {"interfaces", "automation", "external-writes", "continuity", "model-runs",
            "personal-context"}
Records == Legacy \cup Late \cup New

VARIABLES
    store,      \* which of the stores this is
    legacy,     \* the legacy path: [kind, data], data of a legacy file only
    rollback,   \* the rollback file: its records, or NoFile
    db,         \* [schema, digest, rows]: how often the table holds a record
    starter,    \* where every process is and the legacy data it has loaded
    lock,       \* who is inside BEGIN IMMEDIATE over more than one step
    gone,       \* records the user has deleted (the suppression markers)
    late,       \* deleted records that a start has written back, which nothing keeps
    written     \* records a legacy file was given and no deletion has begun for,
                \* which nothing keeps

vars == <<store, legacy, rollback, db, starter, lock, gone, late, written>>

File(kind, data) == [kind |-> kind, data |-> data]
Marker           == File("sqlite", NoFile)
NoDatabase       == [schema |-> "none", digest |-> NoFile, rows |-> [r \in Records |-> 0]]
Stopped          == [pc |-> "stopped", data |-> NoFile, rec |-> NoFile]
Held(r)          == db.rows[r] > 0
Upgrades         == store \in {"interfaces", "model-runs"}
InLegacyFile     == IF legacy.kind = "v1" THEN legacy.data ELSE {}

TypeOK ==
    /\ store \in Stores
    /\ legacy.kind \in {"none", "v1", "broken", "pending", "sqlite"}
    /\ rollback = NoFile \/ rollback \subseteq Records
    /\ db.schema \in {"none", "old", "current"} /\ DOMAIN db.rows = Records
    /\ DOMAIN starter = Starters /\ gone \subseteq Records

\* A fresh root, a root with a legacy file, or one whose database an earlier
\* release migrated at an older schema.
Init ==
    /\ store \in Stores
    /\ rollback \in {NoFile, Legacy}
    /\ \/ rollback = NoFile /\ db = NoDatabase
          /\ legacy \in {File("none", NoFile), File("v1", Legacy), File("broken", NoFile)}
       \/ rollback = Legacy /\ legacy = Marker /\ Upgrades
          /\ db = [schema |-> "old", digest |-> Legacy,
                   rows |-> [r \in Records |-> IF r \in Legacy THEN 1 ELSE 0]]
    /\ starter = [p \in Starters |-> Stopped]
    /\ lock = NoFile
    /\ gone = {}
    /\ late = {}
    /\ written = IF legacy.kind \in {"none", "broken"} THEN {} ELSE Legacy

At(p, pc)  == starter[p].pc = pc
Goto(p, pc) == starter' = [starter EXCEPT ![p].pc = pc]
Fail(p)    == starter' = [starter EXCEPT ![p] = Stopped]

-----------------------------------------------------------------------------
(* Opening a store: the database is looked at, then the legacy file is read. *)

StoreReady(p) ==
    /\ At(p, "stopped")
    /\ Goto(p, IF db.schema = "current" THEN "finalize" ELSE "load")
    /\ UNCHANGED <<store, legacy, rollback, db, lock, gone, late, written>>

\* A marker sends the loader to the rollback file.  Without one, two stores read
\* an empty legacy file and the others refuse; so they do with a malformed file,
\* unless another start has made the database ready by then.
Load(p, data) ==
    /\ At(p, "load") /\ legacy.kind # "none"
    /\ IF data = NoFile
       THEN IF db.schema = "current" THEN Goto(p, "open") ELSE Fail(p)
       ELSE starter' = [starter EXCEPT ![p] = [pc |-> "preserve", data |-> data, rec |-> NoFile]]
    /\ UNCHANGED <<store, legacy, rollback, db, lock, gone, late, written>>

Stored ==
    CASE legacy.kind = "v1"     -> legacy.data
      [] legacy.kind = "broken" -> NoFile
      [] OTHER                  -> rollback

OrEmpty(data) == IF data = NoFile /\ legacy.kind # "broken" THEN {} ELSE data

LoadInterfaces(p)      == store = "interfaces" /\ Load(p, OrEmpty(Stored))
LoadAutomation(p)      == store = "automation" /\ Load(p, OrEmpty(Stored))
LoadExternalWrites(p)  == store = "external-writes" /\ Load(p, Stored)
LoadContinuity(p)      == store = "continuity" /\ Load(p, Stored)
LoadModelRuns(p)       == store = "model-runs" /\ Load(p, Stored)
LoadPersonalContext(p) == store = "personal-context" /\ Load(p, Stored)

NoLegacy(p) ==
    /\ At(p, "load") /\ legacy.kind = "none"
    /\ Goto(p, "import")
    /\ UNCHANGED <<store, legacy, rollback, db, lock, gone, late, written>>

\* finalize_legacy_authority: legacy data must be the data that was migrated.
FinalizeLegacy(p) ==
    /\ At(p, "finalize")
    /\ CASE legacy.kind = "none"    -> Goto(p, IF store = "model-runs" THEN "open" ELSE "mark")
         [] legacy.kind = "sqlite"  -> Goto(p, "open")
         [] legacy.kind = "pending" -> Goto(p, "mark")
         [] legacy.kind = "v1" /\ legacy.data = db.digest ->
              starter' = [starter EXCEPT ![p] =
                            [pc |-> "preserve-migrated", data |-> legacy.data, rec |-> NoFile]]
         [] OTHER -> Fail(p)
    /\ UNCHANGED <<store, legacy, rollback, db, lock, gone, late, written>>

\* preserve_legacy_rollback: a rollback file that differs stops the start.
AfterPreserve(p) ==
    IF At(p, "preserve-migrated") \/ At(p, "write-migrated") THEN "mark"
    ELSE IF store = "personal-context" THEN "import" ELSE "pending"

FindRollback(p) ==
    /\ At(p, "preserve") \/ At(p, "preserve-migrated")
    /\ IF rollback = NoFile
       THEN Goto(p, IF At(p, "preserve") THEN "write" ELSE "write-migrated")
       ELSE IF rollback = starter[p].data THEN Goto(p, AfterPreserve(p)) ELSE Fail(p)
    /\ UNCHANGED <<store, legacy, rollback, db, lock, gone, late, written>>

WriteRollback(p) ==
    /\ At(p, "write") \/ At(p, "write-migrated")
    /\ rollback' = starter[p].data
    /\ late' = late \cup {r \in starter[p].data :
                         r \in gone \/ \E q \in Starters : starter[q].rec = r}
    /\ Goto(p, AfterPreserve(p))
    /\ UNCHANGED <<store, legacy, db, lock, gone, written>>

WritePending(p) ==
    /\ At(p, "pending")
    /\ legacy' = File("pending", NoFile)
    /\ Goto(p, "import")
    /\ UNCHANGED <<store, rollback, db, lock, gone, late, written>>

\* The migration transaction: an import when there is no schema yet, an upgrade
\* in place when it is an older one, nothing when another start was first.
Imported(data) ==
    [r \in Records |-> db.rows[r] + IF data # NoFile /\ r \in data THEN 1 ELSE 0]

\* Mutant: the import is not kept to a database without a schema.
TransactionAgain(p, digest, next) ==
    /\ At(p, "import")
    /\ lock = NoFile
    /\ db' = [schema |-> "current", digest |-> digest, rows |-> Imported(starter[p].data)]
    /\ Goto(p, next)
    /\ UNCHANGED <<store, legacy, rollback, lock, gone, late, written>>

Transaction(p, digest, next) ==
    /\ At(p, "import")
    /\ lock = NoFile
    /\ db' = [schema |-> "current", digest |-> digest,
              rows |-> IF db.schema = "none" THEN Imported(starter[p].data) ELSE db.rows]
    /\ Goto(p, next)
    /\ UNCHANGED <<store, legacy, rollback, lock, gone, late, written>>

FirstDigest(p) == IF db.schema = "none" THEN starter[p].data ELSE db.digest

\* The interface store records the digest of whichever start came last.
ImportInterfaces(p)     == store = "interfaces" /\ Transaction(p, starter[p].data, "mark")
ImportAutomation(p)     == store = "automation" /\ Transaction(p, FirstDigest(p), "mark")
ImportExternalWrites(p) == store = "external-writes" /\ Transaction(p, FirstDigest(p), "mark")
ImportContinuity(p)     == store = "continuity" /\ Transaction(p, FirstDigest(p), "mark")
ImportPersonalContext(p) == store = "personal-context" /\ Transaction(p, FirstDigest(p), "mark")
ImportModelRuns(p) ==
    /\ store = "model-runs"
    /\ Transaction(p, FirstDigest(p), IF starter[p].data = NoFile THEN "open" ELSE "mark")

WriteAuthority(p) ==
    /\ At(p, "mark")
    /\ legacy' = Marker
    /\ starter' = [starter EXCEPT ![p] = [Stopped EXCEPT !.pc = "open"]]
    /\ UNCHANGED <<store, rollback, db, lock, gone, late, written>>

-----------------------------------------------------------------------------
(* A store that is open. *)

WriteRecord(p, r) ==
    /\ At(p, "open") /\ lock = NoFile
    /\ ~Held(r) /\ r \notin gone
    /\ db' = [db EXCEPT !.rows[r] = 1]
    /\ UNCHANGED <<store, legacy, rollback, starter, lock, gone, late, written>>

\* Mutant: the rollback file is left as it is.
LeaveRollback(p, r) ==
    /\ store = "personal-context"
    /\ At(p, "open") /\ lock = NoFile
    /\ Held(r)
    /\ lock' = p
    /\ starter' = [starter EXCEPT ![p].pc = "deleting", ![p].rec = r]
    /\ written' = written \ {r}
    /\ UNCHANGED <<store, legacy, rollback, db, gone, late>>

\* PersonalContextRepository.delete: inside its transaction the rollback file
\* is rewritten first; the commit is a step of its own.
SuppressRollback(p, r) ==
    /\ store = "personal-context"
    /\ At(p, "open") /\ lock = NoFile
    /\ Held(r)
    /\ rollback' = IF rollback = NoFile THEN NoFile ELSE rollback \ {r}
    /\ lock' = p
    /\ starter' = [starter EXCEPT ![p].pc = "deleting", ![p].rec = r]
    /\ written' = written \ {r}
    /\ UNCHANGED <<store, legacy, db, gone, late>>

CommitDeletion(p) ==
    /\ At(p, "deleting")
    /\ db' = [db EXCEPT !.rows[starter[p].rec] = 0]
    /\ gone' = gone \cup {starter[p].rec}
    /\ lock' = NoFile
    /\ starter' = [starter EXCEPT ![p] = [Stopped EXCEPT !.pc = "open"]]
    /\ UNCHANGED <<store, legacy, rollback, late, written>>

-----------------------------------------------------------------------------
(* What happens to a process and to the files from outside. *)

Crash(p) ==
    /\ ~At(p, "stopped")
    /\ starter' = [starter EXCEPT ![p] = Stopped]
    /\ lock' = IF lock = p THEN NoFile ELSE lock
    /\ UNCHANGED <<store, legacy, rollback, db, gone, late, written>>

NobodyRuns == \A p \in Starters : At(p, "stopped")

\* An earlier release, run between two starts, reads legacy files only.
OldRelease(r) ==
    /\ NobodyRuns
    /\ legacy.kind \in {"none", "v1"}
    /\ r \notin InLegacyFile
    /\ legacy' = File("v1", InLegacyFile \cup {r})
    /\ written' = written \cup {r}
    /\ UNCHANGED <<store, rollback, db, starter, lock, gone, late>>

\* The database file is removed between two starts; the JSON files stay.
LoseDatabase ==
    /\ NobodyRuns
    /\ db.schema # "none"
    /\ db' = NoDatabase
    /\ UNCHANGED <<store, legacy, rollback, starter, lock, gone, late, written>>

LoadLegacy(p) ==
    \/ LoadInterfaces(p) \/ LoadAutomation(p) \/ LoadExternalWrites(p)
    \/ LoadContinuity(p) \/ LoadModelRuns(p) \/ LoadPersonalContext(p) \/ NoLegacy(p)

Import(p) ==
    \/ ImportInterfaces(p) \/ ImportAutomation(p) \/ ImportExternalWrites(p)
    \/ ImportContinuity(p) \/ ImportModelRuns(p) \/ ImportPersonalContext(p)

Open(p) ==
    \/ StoreReady(p) \/ LoadLegacy(p) \/ FinalizeLegacy(p) \/ FindRollback(p)
    \/ WriteRollback(p) \/ WritePending(p) \/ Import(p) \/ WriteAuthority(p)

Next ==
    \/ \E p \in Starters : Open(p) \/ CommitDeletion(p) \/ Crash(p)
    \/ \E p \in Starters : (\E r \in New : WriteRecord(p, r)) \/ (\E r \in Records : SuppressRollback(p, r))
    \/ \E r \in Late : OldRelease(r)
    \/ LoseDatabase

Spec == Init /\ [][Next]_vars

-----------------------------------------------------------------------------
\* Whatever starts, crashes and finds another's half-done work: a record of the
\* legacy file, or added to it later, stays in that file, or in the rollback
\* file while the database is not ready, or is in the database, once.
EveryRecordOnce ==
    /\ \A r \in Records : db.rows[r] <= 1
    /\ \A r \in written :
         \/ r \in InLegacyFile
         \/ IF db.schema = "none" THEN rollback # NoFile /\ r \in rollback ELSE Held(r)

\* A deleted record is neither in the database nor in the rollback file, so no
\* later migration brings it back; but a start that looked for the rollback file
\* before there was one may write it after the deletion.
DeletedStaysDeleted ==
    \A r \in gone \ late : ~Held(r) /\ (rollback # NoFile => r \notin rollback)

\* Whoever works in the store works in a database of the current schema.
OpenIsReady == \A p \in Starters : At(p, "open") => db.schema = "current"
==============================================================================
