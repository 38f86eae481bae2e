------------------------------ MODULE Personas -----------------------------
(***************************************************************************)
(* personas.py: the file of authored personas and private persona          *)
(* versions, and which of them is selected.  A command loads the whole     *)
(* file, checks what it wants to do against what it loaded, and writes     *)
(* under the file lock after loading the file once more; the selection is  *)
(* guarded by a revision, the authored personas are not.                   *)
(*                                                                         *)
(* A loaded file is validated; one whose selection or identifiers do not   *)
(* fit together cannot be loaded, so nothing more happens to it.  What a   *)
(* persona says is left out: an authored persona is its identifier, a      *)
(* private version its identifier and the fingerprint of its documents.    *)
(***************************************************************************)
EXTENDS Naturals, Sequences, FiniteSets

CONSTANTS
    Callers,        \* commands that use the file at the same time
    Presets,        \* the built-in personas
    Ids,            \* identifiers of authored and of private personas
    Fingerprints,   \* contents of a private persona's documents
    MaxRevision,    \* bound on the changes of the selection
    Nothing

VARIABLES
    file,           \* what is on disk
    mem             \* what each command has loaded, or Nothing

personas == <<file, mem>>

TypeOK ==
    /\ file.authored \subseteq Ids
    /\ file.active \in Presets \cup Ids \cup {Nothing}
    /\ file.versions \in Seq([id : Ids, print : Fingerprints, before : Nat])
    /\ file.private \in 0..Len(file.versions)
    /\ file.revision \in 0..MaxRevision
    /\ DOMAIN mem = Callers

\* The setup has selected a built-in persona.
Init ==
    /\ \E p \in Presets : file = [authored |-> {}, active |-> p, versions |-> <<>>,
                                  private |-> 0, revision |-> 1]
    /\ mem = [c \in Callers |-> Nothing]

-----------------------------------------------------------------------------
(* Versions.                                                               *)

OfPersona(f, i) == {n \in DOMAIN f.versions : f.versions[n].id = i}

Latest(ns) == IF ns = {} THEN 0 ELSE CHOOSE n \in ns : \A k \in ns : k <= n

\* Where a version of these documents is already kept, or 0.
Known(f, i, print) == Latest({n \in OfPersona(f, i) : f.versions[n].print = print})

\* The versions a rollback may choose from: those before the selected one.
Earlier(f) ==
    {n \in OfPersona(f, f.versions[f.private].id) : n < f.private}

(* What loading insists on.                                                *)
Readable(f) ==
    /\ f.active \in Presets \cup f.authored \cup {Nothing}
    /\ \A n \in DOMAIN f.versions :
          /\ f.versions[n].id \notin f.authored
          /\ f.versions[n].before = Latest({k \in OfPersona(f, f.versions[n].id) : k < n})

-----------------------------------------------------------------------------
(* A command.                                                              *)

Load(c) ==
    /\ Readable(file)
    /\ mem' = [mem EXCEPT ![c] = file]
    /\ UNCHANGED file

\* The file without another look at the disk.
AsLoaded(c) == mem[c]

\* The file as it is once the lock is held.
Refreshed(c) == file

Write(c, f) ==
    /\ mem[c] # Nothing
    /\ Readable(Refreshed(c))
    /\ file' = f
    /\ mem' = [mem EXCEPT ![c] = f]

\* Also a copy, a rename or a change of an authored persona.
SaveAuthored(c, i) ==
    Write(c, [Refreshed(c) EXCEPT !.authored = @ \cup {i}])

RemoveAuthored(c, i) ==
    /\ mem[c] # Nothing
    /\ mem[c].active # i
    /\ Write(c, [Refreshed(c) EXCEPT !.authored = @ \ {i}])

\* The selection has not moved since the command loaded it.
SelectionStands(c) ==
    /\ mem[c] # Nothing
    /\ mem[c].revision = Refreshed(c).revision
    /\ mem[c].revision < MaxRevision

Selecting(c, active, versions, private) ==
    Write(c, [Refreshed(c) EXCEPT !.active = active, !.versions = versions,
                                  !.private = private, !.revision = @ + 1])

Select(c, p) ==
    /\ SelectionStands(c)
    /\ p \in Presets \cup mem[c].authored
    /\ Selecting(c, p, Refreshed(c).versions, 0)

Import(c, i, print) ==
    /\ SelectionStands(c)
    /\ i \notin mem[c].authored
    /\ LET f == Refreshed(c)
           known == Known(f, i, print)
       IN Selecting(c, f.active,
                    IF known # 0 THEN f.versions
                    ELSE Append(f.versions, [id |-> i, print |-> print,
                                             before |-> Latest(OfPersona(f, i))]),
                    IF known # 0 THEN known ELSE Len(f.versions) + 1)

Rollback(c, n) ==
    /\ SelectionStands(c)
    /\ mem[c].private # 0
    /\ n \in Earlier(mem[c])
    /\ Selecting(c, Refreshed(c).active, Refreshed(c).versions, n)

Next ==
    \E c \in Callers :
        \/ Load(c)
        \/ \E i \in Ids : SaveAuthored(c, i) \/ RemoveAuthored(c, i)
        \/ \E p \in Presets \cup Ids : Select(c, p)
        \/ \E i \in Ids, print \in Fingerprints : Import(c, i, print)
        \/ \E n \in DOMAIN file.versions : Rollback(c, n)

Spec == Init /\ [][Next]_personas

-----------------------------------------------------------------------------
(* No command undoes what another did meanwhile: the private history only  *)
(* grows, and the selection changes only with its revision, though saving  *)
(* an authored persona writes the whole file (_refresh_from_disk).         *)
NothingIsUndone ==
    [][/\ Len(file'.versions) >= Len(file.versions)
       /\ \A n \in DOMAIN file.versions : file'.versions[n] = file.versions[n]
       /\ file'.revision >= file.revision
       /\ file'.revision = file.revision =>
             file'.active = file.active /\ file'.private = file.private]_personas

(* The selected persona exists: "the active persona must be replaced       *)
(* before it can be removed" (remove_authored).  It does not hold, and no  *)
(* run checks it: the check precedes the lock under which the file is read *)
(* again.                                                                  *)
ActivePersonaExists == file.active \in Presets \cup file.authored \cup {Nothing}
=============================================================================
