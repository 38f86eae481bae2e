---------------------------- MODULE StagedRoots ----------------------------
(***************************************************************************)
(* How operations.py makes an installation appear.  setup_instance and     *)
(* restore_transfer build each placement root, the local one and perhaps   *)
(* that of a personal server, in a staging directory beside its place, and *)
(* move the staging directories into place one after the other; when a     *)
(* move fails, what was moved is taken back.  create_transfer makes the    *)
(* archive that is restored; it holds the roots' files, with the path of   *)
(* the server's root replaced by a placeholder.                            *)
(*                                                                         *)
(* The process may be killed between any two steps, which leaves its       *)
(* staging directories behind.  The content of the files and the           *)
(* encryption of the archive are left out: an archive opens or it fails.   *)
(***************************************************************************)
EXTENDS Naturals

CONSTANTS
    Server,     \* the server roots a command may name
    Nothing

VARIABLES
    root,       \* what stands at each place: "missing", "empty", "installed" or
                \* "remains", of a root half removed
    names,      \* the server root that the installed record names
    archive,    \* the server entry of the archived record, or "absent"
    job,        \* the running command: its kind and the server root it installs
    at,         \* "off", "stage", "remove", "move", "undo" or "killed", which is
                \* also where an undo that fails is given up
    moved,      \* how many roots have been moved into place
    was         \* what stood at each place when the command began

roots == <<root, names, archive, job, at, moved, was>>

Local == "local"
Places == {Local} \cup Server

\* The server's root before the local one.
ServerFirst == IF job.server = Nothing THEN <<Local>> ELSE <<job.server, Local>>

\* The roots a command installs, in order.
Targets == IF job.server = Nothing THEN <<Local>> ELSE <<Local, job.server>>
Last == IF job.server = Nothing THEN 1 ELSE 2

Idle == [kind |-> "none", server |-> Nothing, names |-> Nothing]

TypeOK ==
    /\ root \in [Places -> {"missing", "empty", "installed", "remains"}]
    /\ names \in Server \cup {Nothing, "placeholder"}
    /\ archive \in {"absent", "none", "placeholder"}
    /\ job.kind \in {"none", "setup", "restore"}
    /\ job.server \in Server \cup {Nothing}
    /\ at \in {"off", "stage", "remove", "move", "undo", "killed"}
    /\ moved \in 0..2

Init ==
    /\ root \in [Places -> {"missing", "empty"}]
    /\ names = Nothing
    /\ archive \in {"absent", "none", "placeholder"}
    /\ job = Idle
    /\ at = "off"
    /\ moved = 0
    /\ was = root

-----------------------------------------------------------------------------
(* The archive: a local installation has no server entry; any other has    *)
(* its own root replaced by a placeholder.                                 *)

Portable(s) == IF s = Nothing THEN "none" ELSE "placeholder"

\* The roots the record of an installation names are there to be archived.
Archivable == root[Local] = "installed" /\ (names \in Server => root[names] = "installed")

CreateTransfer ==
    /\ at \in {"off", "killed"}
    /\ Archivable
    /\ archive' = Portable(names)
    /\ UNCHANGED <<root, names, job, at, moved, was>>

\* The restored record keeps the entry of the archive.
KeptEntry(entry, s) == IF entry = "placeholder" THEN "placeholder" ELSE Nothing

\* The restored record names the server root of this command.
Rewritten(entry, s) == IF entry = "placeholder" THEN s ELSE Nothing

-----------------------------------------------------------------------------
(* The command.                                                            *)

Begin(kind, s, record) ==
    /\ at \in {"off", "killed"}
    /\ \A p \in {Local} \cup ({s} \cap Server) : root[p] \in {"missing", "empty"}
    /\ job' = [kind |-> kind, server |-> s, names |-> record]
    /\ was' = root
    /\ moved' = 0
    /\ at' = "stage"
    /\ UNCHANGED <<root, names, archive>>

Setup(s) == Begin("setup", s, s)

\* There is an archive, it decrypts, and its manifest and checksums are right.
Opens == archive # "absent"

\* An archive with a server root needs a place for it, one without takes none.
Restore(s) ==
    /\ Opens
    /\ (archive = "placeholder") = (s \in Server)
    /\ Begin("restore", s, Rewritten(archive, s))

\* The staged roots are written and, for an archive, validated.
Staged ==
    /\ at = "stage"
    /\ at' = "remove"
    /\ UNCHANGED <<root, names, archive, job, moved, was>>

Place == Targets[moved + 1]

\* A place that exists is empty, and removed just before its replacement.
RemoveTarget ==
    /\ at = "remove"
    /\ moved < Last
    /\ root' = [root EXCEPT ![Place] = "missing"]
    /\ at' = "move"
    /\ UNCHANGED <<names, archive, job, moved, was>>

MoveIntoPlace ==
    /\ at = "move"
    /\ root' = [root EXCEPT ![Place] = "installed"]
    /\ names' = IF Place = Local THEN job.names ELSE names
    /\ moved' = moved + 1
    /\ at' = "remove"
    /\ UNCHANGED <<archive, job, was>>

End == at' = "off" /\ job' = Idle /\ moved' = 0

Finish ==
    /\ at = "remove"
    /\ moved = Last
    /\ End
    /\ UNCHANGED <<root, names, archive, was>>

\* Writing or validating the staged roots fails.
StagingFails ==
    /\ at = "stage"
    /\ End
    /\ UNCHANGED <<root, names, archive, was>>

\* The place cannot be removed; or its replacement cannot be moved there, and
\* the place is made again if it can be.
MoveFails ==
    /\ at \in {"remove", "move"}
    /\ moved < Last
    /\ \E again \in {was[Place], "missing"} :
          root' = IF at = "move" THEN [root EXCEPT ![Place] = again] ELSE root
    /\ at' = "undo"
    /\ UNCHANGED <<names, archive, job, moved, was>>

\* What was moved before is taken back, the last first.
Undo ==
    /\ at = "undo"
    /\ moved > 0
    /\ root' = [root EXCEPT ![Targets[moved]] = was[Targets[moved]]]
    /\ names' = IF Targets[moved] = Local THEN Nothing ELSE names
    /\ moved' = moved - 1
    /\ UNCHANGED <<archive, job, at, was>>

\* A root that was moved cannot be removed, or only in part, or its place cannot
\* be made again: the rest is not taken back.
UndoFails ==
    /\ at = "undo"
    /\ moved > 0
    /\ LET place == Targets[moved]
       IN  \E now \in {"installed", "remains", "missing", was[place]} :
              /\ root' = [root EXCEPT ![place] = now]
              /\ names' = IF place = Local /\ now # "installed" THEN Nothing ELSE names
    /\ at' = "killed"
    /\ job' = Idle
    /\ moved' = 0
    /\ UNCHANGED <<archive, was>>

Failed ==
    /\ at = "undo"
    /\ moved = 0
    /\ End
    /\ UNCHANGED <<root, names, archive, was>>

Die ==
    /\ at \notin {"off", "killed"}
    /\ at' = "killed"
    /\ job' = Idle
    /\ moved' = 0
    /\ UNCHANGED <<root, names, archive, was>>

Next ==
    \/ CreateTransfer
    \/ \E s \in Server \cup {Nothing} : Setup(s) \/ Restore(s)
    \/ Staged \/ RemoveTarget \/ MoveIntoPlace \/ Finish
    \/ StagingFails \/ MoveFails \/ Undo \/ UndoFails \/ Failed \/ Die

Spec == Init /\ [][Next]_roots

-----------------------------------------------------------------------------
(* Unless it was killed or could not undo what it had moved, a command     *)
(* leaves an installation that is whole, with the server root its record   *)
(* names standing, or every place as it found it: "no installation was     *)
(* created and existing empty roots were preserved", but for an empty root *)
(* that could not be made again (_commit_staged_setup).                    *)
AllOrNothing ==
    at = "off" => \/ /\ \A p \in Places : root[p] \in {was[p], "missing"}
                     /\ root[Local] # "installed"
                  \/ /\ root[Local] = "installed"
                     /\ names \in Server \cup {Nothing}
                     /\ names \in Server => root[names] = "installed"

(* Even a killed command, or one whose undo failed half-way, leaves no     *)
(* server root, whole or in part, that no record names: the local root,    *)
(* whose record says where the server's is, comes first and is taken back  *)
(* last, so that what is there can be found and removed (the order of      *)
(* staged_roots).                                                          *)
NoStrayServer ==
    \A s \in Server : root[s] \in {"installed", "remains"} =>
                          root[Local] = "installed" /\ names = s
=============================================================================
