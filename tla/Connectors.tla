----------------------------- MODULE Connectors -----------------------------
(***************************************************************************)
(* connectors.py, ConnectorService: one read connector, used by several    *)
(* processes that share a JSON file.  Each process keeps what it last      *)
(* loaded in memory and answers questions from there; a change takes the   *)
(* file lock, loads the file afresh, changes memory and writes it back.    *)
(* The lock is held throughout, the call of the adapter included, so a     *)
(* change is one step.  Only a process that connected holds the adapter.   *)
(*                                                                         *)
(* A document is its external identifier; its text is what the source held *)
(* when it was read, or empty after a deletion.                            *)
(***************************************************************************)
EXTENDS Naturals

CONSTANTS
    Services,       \* processes with a ConnectorService on the file
    Documents,      \* external identifiers of the source
    Texts,          \* what a document may say
    Empty           \* the text of a deleted document, or no document

VARIABLES
    source,         \* what the source holds: a text or Empty for each document
    stored,         \* the file
    held,           \* what each service holds in memory
    adapter         \* the services that hold the adapter

connector == <<source, stored, held, adapter>>

Copy == [status : {"none", "connected", "revoked", "disconnected"},
         health : {"none", "healthy", "failed", "revoked", "disconnected"},
         state : [Documents -> {"none", "active", "suppressed", "deleted"}],
         text : [Documents -> Texts \cup {Empty}],
         results : SUBSET Documents]

TypeOK ==
    /\ source \in [Documents -> Texts \cup {Empty}]
    /\ stored \in Copy
    /\ held \in [Services -> Copy]
    /\ adapter \subseteq Services

NoFile == [status |-> "none", health |-> "none", state |-> [d \in Documents |-> "none"],
           text |-> [d \in Documents |-> Empty], results |-> {}]

Init ==
    /\ source \in [Documents -> Texts \cup {Empty}]
    /\ stored = NoFile
    /\ held = [s \in Services |-> NoFile]
    /\ adapter = {}

-----------------------------------------------------------------------------

\* What the service already held, without the reload (a mutant).
AsHeld(s) == held[s]

\* What a service works on once it holds the lock: _storage_transaction reloads.
Reloaded(s) == stored

\* The change made in memory and on disk; a write that fails leaves memory ahead.
Change(s, f) ==
    /\ held' = [held EXCEPT ![s] = f]
    /\ stored' \in {f, stored}

Connect(s) ==
    /\ Change(s, [Reloaded(s) EXCEPT !.status = "connected", !.health = "healthy"])
    /\ adapter' = adapter \cup {s}
    /\ UNCHANGED source

\* Everything the source holds (a mutant).
ImportedAll(f) == {d \in Documents : source[d] # Empty}

\* What of the source may be imported: nothing that was removed here.
Imported(f) == {d \in Documents : source[d] # Empty /\ f.state[d] \in {"none", "active"}}

\* What the file says after the adapter returned the source's documents.
Synchronized(f) ==
    [f EXCEPT !.health = "healthy",
       !.state = [d \in Documents |-> IF d \in Imported(f) THEN "active" ELSE @[d]],
       !.text = [d \in Documents |-> IF d \in Imported(f) THEN source[d] ELSE @[d]],
       !.results = {d \in @ : f.state[d] \in {"none", "active"}} \cup Imported(f)]

Synchronize(s) ==
    /\ Reloaded(s).status = "connected"
    /\ s \in adapter
    /\ Change(s, Synchronized(Reloaded(s)))
    /\ UNCHANGED <<source, adapter>>

\* The adapter raises: only the health is written.
SynchronizeFails(s) ==
    /\ Reloaded(s).status = "connected"
    /\ s \in adapter
    /\ Change(s, [Reloaded(s) EXCEPT !.health = "failed"])
    /\ UNCHANGED <<source, adapter>>

End(s, status) ==
    /\ Reloaded(s).status # "none"
    /\ Change(s, [Reloaded(s) EXCEPT !.status = status, !.health = status])
    /\ UNCHANGED <<source, adapter>>

Removed(f, mode) ==
    LET gone == {d \in Documents : f.state[d] # "none"}
    IN  [f EXCEPT !.state = [d \in Documents |-> IF d \in gone THEN mode ELSE "none"],
                  !.text = [d \in Documents |->
                               IF d \in gone /\ mode = "deleted" THEN Empty ELSE @[d]],
                  !.results = {}]

Remove(s, mode) ==
    /\ Reloaded(s).status # "none"
    /\ Change(s, Removed(Reloaded(s), mode))
    /\ UNCHANGED <<source, adapter>>

\* A process ends and another starts in its place: it loads the file.
Restart(s) ==
    /\ held' = [held EXCEPT ![s] = stored]
    /\ adapter' = adapter \ {s}
    /\ UNCHANGED <<source, stored>>

SourceChanges ==
    /\ source' \in [Documents -> Texts \cup {Empty}]
    /\ UNCHANGED <<stored, held, adapter>>

Next ==
    \/ SourceChanges
    \/ \E s \in Services :
          \/ Connect(s) \/ Synchronize(s) \/ SynchronizeFails(s) \/ Restart(s)
          \/ \E st \in {"revoked", "disconnected"} : End(s, st)
          \/ \E mode \in {"suppressed", "deleted"} : Remove(s, mode)

Spec == Init /\ [][Next]_connector

-----------------------------------------------------------------------------

\* What a service shows: imported_items and content_result answer from memory.
Shown(s) == {d \in Documents : held[s].state[d] = "active"}

(* A document once removed stays removed whatever other processes do with  *)
(* their older copies, no text of a deleted one comes back, and documents  *)
(* are read only while the connection on file stands                       *)
(* (remove_imported_data, synchronize and _storage_transaction).           *)
RemovalStands ==
    [][ \A d \in Documents :
          /\ stored.state[d] \in {"suppressed", "deleted"} =>
                /\ stored'.state[d] \in {"suppressed", "deleted"}
                /\ d \notin stored'.results
                /\ stored'.text[d] \in {stored.text[d], Empty}
          /\ d \in stored'.results \ stored.results => stored.status = "connected"
      ]_connector

=============================================================================
