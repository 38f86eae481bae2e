--------------------------- MODULE PersonalContext ---------------------------
(***************************************************************************)
(* Personal context (personal_context.py): what the user told or confirmed *)
(* about themselves, kept as numbered versions of records.  Every          *)
(* operation of the service reads the current version in one transaction   *)
(* and saves the next one in another, so that the pages and programs that  *)
(* use the store at once interleave.  Moving the store from its JSON file, *)
(* and the rollback file a deletion rewrites, are StoreMigration.          *)
(***************************************************************************)
EXTENDS Integers

CONSTANTS
    Records,    \* identifiers of records
    Expiring,   \* those with a retention date that has passed
    Callers,    \* operations at work
    MaxVersion  \* bound: versions of a record

(* Wordings and sources are left out: an operation is told by what it does *)
(* to the status and the retrieval permission. *)
VARIABLES
    current,        \* the last version of every record, number 0 when it has none
    suppressed,     \* personal_context_suppressions
    caller,         \* what every operation is doing and the versions it has read
    approved        \* records the user remembered or confirmed, not kept apart

vars == <<current, suppressed, caller, approved>>

Statuses == {"proposed", "active", "archived", "forgotten"}
Version(n, status, permitted) == [n |-> n, status |-> status, permitted |-> permitted]
NoVersion == Version(0, "forgotten", FALSE)
Idle == [op |-> "idle", rec |-> {}, read |-> NoVersion, todo |-> {}]
Becomes == [archive |-> "archived", forget |-> "forgotten", recover |-> "active"]
Operations == {"remember", "propose", "correct", "confirm", "delete"} \cup DOMAIN Becomes

TypeOK ==
    /\ current \in [Records -> [n : 0..MaxVersion, status : Statuses, permitted : BOOLEAN]]
    /\ suppressed \cup approved \subseteq Records
    /\ DOMAIN caller = Callers

Init ==
    /\ current = [r \in Records |-> NoVersion]
    /\ suppressed = {} /\ approved = {}
    /\ caller = [c \in Callers |-> Idle]

-----------------------------------------------------------------------------
(* The repository: each operator is one BEGIN IMMEDIATE transaction. *)

\* Mutant: a suppressed identifier is not looked for.
SaveUnsuppressed(r, version) ==
    /\ current[r].n = version.n - 1
    /\ current' = [current EXCEPT ![r] = version]

Save(r, version) ==
    /\ current[r].n = version.n - 1
    /\ r \notin suppressed
    /\ current' = [current EXCEPT ![r] = version]

Refused(r, expected) == current[r].n # expected \/ r \in suppressed

DeleteRecord(r, expected) ==
    /\ current[r].n = expected
    /\ current' = [current EXCEPT ![r] = NoVersion]
    /\ suppressed' = suppressed \cup {r}

-----------------------------------------------------------------------------
(* The service: the read, and what the operation does with it. *)

\* remember and propose need a record without versions, the others need one;
\* only a proposal can be confirmed; a record that has the status already is
\* returned as it is.
Accepts(op, read) ==
    CASE op \in {"remember", "propose"} -> read.n = 0
      [] op = "confirm"                 -> read.n > 0 /\ read.status = "proposed"
      [] op \in DOMAIN Becomes          -> read.n > 0 /\ read.status # Becomes[op]
      [] OTHER                          -> read.n > 0

Read(c, op, r) ==
    /\ caller[c].op = "idle"
    /\ current[r].n < MaxVersion \/ op = "delete"
    /\ Accepts(op, current[r])
    /\ caller' = [caller EXCEPT ![c] = [op |-> op, rec |-> {r}, read |-> current[r], todo |-> {}]]
    /\ UNCHANGED <<current, suppressed, approved>>

\* The next version: what was read, with some fields replaced.
Written(c, op, r, version) ==
    /\ caller[c].op = op /\ caller[c].rec = {r}
    /\ Save(r, [version EXCEPT !.n = caller[c].read.n + 1])
    /\ caller' = [caller EXCEPT ![c] = Idle]
    /\ UNCHANGED suppressed

Remember(c, r, permitted) ==
    /\ Written(c, "remember", r, Version(1, "active", permitted))
    /\ approved' = approved \cup {r}

Propose(c, r) ==
    /\ Written(c, "propose", r, Version(1, "proposed", FALSE))
    /\ UNCHANGED approved

Correct(c, r) ==
    /\ Written(c, "correct", r, caller[c].read)
    /\ UNCHANGED approved

Confirm(c, r) ==
    /\ Written(c, "confirm", r, [caller[c].read EXCEPT !.status = "active", !.permitted = TRUE])
    /\ approved' = approved \cup {r}

\* Mutant: a record that becomes active may be retrieved.
TransitionPermits(c, r, op) ==
    /\ Written(c, op, r, [caller[c].read EXCEPT !.status = Becomes[op],
                            !.permitted = (Becomes[op] = "active") \/ @])
    /\ UNCHANGED approved

Transition(c, r, op) ==
    /\ Written(c, op, r, [caller[c].read EXCEPT !.status = Becomes[op]])
    /\ UNCHANGED approved

\* delete, for the user or for a retention date; the rest of an enforcement
\* waits in "todo".
Delete(c, r) ==
    /\ caller[c].op = "delete" /\ caller[c].rec = {r}
    /\ DeleteRecord(r, caller[c].read.n)
    /\ approved' = approved \ {r}
    /\ caller' = [caller EXCEPT ![c] = IF @.todo = {} THEN Idle
                                       ELSE [Idle EXCEPT !.op = "retain", !.todo = caller[c].todo]]

\* The revision conflict, or the suppressed identifier, that the save raises.
Conflict(c, r) ==
    /\ caller[c].rec = {r}
    /\ Refused(r, caller[c].read.n)
    /\ caller' = [caller EXCEPT ![c] = Idle]
    /\ UNCHANGED <<current, suppressed, approved>>

\* enforce_retention: what has expired is listed first and deleted record by
\* record; a record that another caller deleted meanwhile ends the enforcement.
Expired == {r \in Expiring : current[r].n > 0}

EnforceRetention(c) ==
    /\ caller[c].op = "idle" /\ Expired # {}
    /\ caller' = [caller EXCEPT ![c] = [Idle EXCEPT !.op = "retain", !.todo = Expired]]
    /\ UNCHANGED <<current, suppressed, approved>>

RetainNext(c, r) ==
    /\ caller[c].op = "retain" /\ r \in caller[c].todo
    /\ caller' = [caller EXCEPT ![c] =
                    IF current[r].n = 0 THEN Idle
                    ELSE [op |-> "delete", rec |-> {r}, read |-> current[r], todo |-> @.todo \ {r}]]
    /\ UNCHANGED <<current, suppressed, approved>>

Finish(c, r) ==
    \/ \E permitted \in BOOLEAN : Remember(c, r, permitted)
    \/ Propose(c, r) \/ Correct(c, r)
    \/ Confirm(c, r) \/ Delete(c, r) \/ Conflict(c, r)
    \/ \E op \in DOMAIN Becomes : Transition(c, r, op)

Next ==
    \E c \in Callers :
      \/ \E r \in Records : \/ Finish(c, r) \/ RetainNext(c, r)
                            \/ \E op \in Operations : Read(c, op, r)
      \/ EnforceRetention(c)

Spec == Init /\ [][Next]_vars

-----------------------------------------------------------------------------
\* What retrieve returns for a message, as far as the user's will goes.
Retrievable(r) ==
    /\ current[r].n > 0
    /\ current[r].status = "active" /\ current[r].permitted

\* A record that deletion removed never has a version again, though an operation
\* that looked before the deletion saves after it.
DeletedForGood == \A r \in suppressed : current[r].n = 0

\* What may be put before the model was remembered by the user or confirmed, in
\* whatever order proposals are corrected, archived, forgotten and recovered.
RetrievableWasApproved == \A r \in Records : Retrievable(r) => r \in approved
==============================================================================
