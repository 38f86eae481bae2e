------------------------- MODULE DecisionOperations -------------------------
(***************************************************************************)
(* The decision operations of application.py (start_reckoning,             *)
(* correct_personal_record, confirm_reckoning, record_check_in) over       *)
(* JsonFileReckoningRepository (persistence.py).                           *)
(*                                                                         *)
(* An operation looks its identifier up, reads the decision, computes the  *)
(* next one and saves it: three transactions or more, and the calls of     *)
(* other processes (terminal, web, gateway) come between them.  The save   *)
(* checks the version it read and the operation identifier again.  A       *)
(* caller stands for one call.  A payload digest stands for the payload.   *)
(***************************************************************************)
EXTENDS Decisions, FiniteSets

CONSTANTS
    DecisionIds,  \* what the identifier factory may draw
    RecordIds,    \* personal records of a decision
    Texts,        \* user texts: situations and meanings
    OpIds,        \* operation identifiers the callers may give
    Callers,      \* calls of the four operations
    None

ASSUME NoneAssumption == None \notin DecisionIds \cup RecordIds \cup Texts \cup OpIds

VARIABLES
    decisions,    \* continuity_reckonings
    operations,   \* continuity_operations
    checkIns,     \* continuity_check_ins: the decisions that have one
    pc,           \* where each call is
    call,         \* the arguments and local variables of each call
    effects       \* history: the changes of decisions, by whom

vars == <<decisions, operations, checkIns, pc, call, effects>>

-----------------------------------------------------------------------------
Kinds == {"start", "correct", "confirm", "check_in"}
Payload == [kind : Kinds,
            decision : DecisionIds \cup {None},
            record : RecordIds \cup {None},
            text : Texts \cup {None},
            expected : Nat \cup {None}]
NoPayload == [kind |-> "none", decision |-> None, record |-> None,
              text |-> None, expected |-> None]

RecordVersion == [record : RecordIds, version : Nat,
                  status : {"proposed", "confirmed"}, meaning : Texts]
Decision == [version : Nat, status : {"none", "proposed", "confirmed"},
             records : SUBSET RecordVersion]

Operation == [status : {"none", "failed", "completed"},
              payload : Payload \cup {NoPayload},
              result : DecisionIds \cup {None}]
NoOperation == [status |-> "none", payload |-> NoPayload, result |-> None]

Ended == {"returned", "replayed", "revision_conflict", "operation_conflict",
          "provider_failed", "raised", "crashed"}
Active == {"reading", "provider", "failing", "creating", "saving",
           "acknowledging", "reviewing"}
Call == [op : OpIds \cup {None}, payload : Payload \cup {NoPayload},
         draft : UNION {[rs -> Texts] : rs \in SUBSET RecordIds}, read : Decision]
NoDraft == [r \in {} |-> None]
NoCall == [op |-> None, payload |-> NoPayload, draft |-> NoDraft, read |-> Absent]

Effect == [op : OpIds \cup {None}, payload : Payload, decision : DecisionIds,
           after : Decision]

Drafts == UNION {[rs -> Texts] : rs \in SUBSET RecordIds}

Init ==
    /\ decisions = [d \in DecisionIds |-> Absent]
    /\ operations = [op \in OpIds |-> NoOperation]
    /\ checkIns = {}
    /\ pc = [c \in Callers |-> "idle"]
    /\ call = [c \in Callers |-> NoCall]
    /\ effects = {}

Goto(c, label) == pc' = [pc EXCEPT ![c] = label]
Stop(c, outcome) ==
    /\ Goto(c, outcome)
    /\ UNCHANGED <<decisions, operations, checkIns, call, effects>>

-----------------------------------------------------------------------------
(* What callers ask for.  A displayed revision is one the decision has or  *)
(* had; the terminal gives none, and no operation identifier.              *)

Revisions(d) == (1 .. decisions[d].version) \cup {None}

ToStart(text) == [NoPayload EXCEPT !.kind = "start", !.text = text]
ToCorrect(d, record, text, v) ==
    [kind |-> "correct", decision |-> d, record |-> record, text |-> text, expected |-> v]
ToConfirm(d, v) ==
    [NoPayload EXCEPT !.kind = "confirm", !.decision = d, !.expected = v]

-----------------------------------------------------------------------------
(* _replay_result and the operation table.                                 *)

AnyPayload(op, payload) == TRUE     \* mutant: the digest is not compared

SamePayload(op, payload) == operations[op].payload = payload

\* The first transaction: lookup_operation.  Another payload is a conflict, a
\* completed operation is replayed, and one that failed or is unknown goes on.
Lookup(c, op, payload) ==
    LET known == op # None /\ operations[op] # NoOperation IN
    /\ pc[c] = "idle"
    /\ call' = [call EXCEPT ![c] = [NoCall EXCEPT !.op = op, !.payload = payload]]
    /\ Goto(c, CASE known /\ ~SamePayload(op, payload) -> "operation_conflict"
                 [] known /\ SamePayload(op, payload)
                          /\ operations[op].status = "completed" -> "replayed"
                 [] OTHER -> IF payload.kind = "start" THEN "provider" ELSE "reading")
    /\ UNCHANGED <<decisions, operations, checkIns, effects>>

AlwaysOpen(op) == TRUE     \* mutant: a completed operation is written again

\* _upsert_operation refuses a completed operation and replaces any other.
Open(op) == op # None => operations[op].status # "completed"

Store(op, record) ==
    operations' = IF op = None THEN operations ELSE [operations EXCEPT ![op] = record]

-----------------------------------------------------------------------------
(* start_reckoning.                                                        *)

\* The processing grant and the provider: a draft, a reported failure, or an
\* exception (blocked, invalid or limited) that records no operation.
AskProvider(c) ==
    /\ pc[c] = "provider"
    /\ \/ \E draft \in Drafts :
             /\ call' = [call EXCEPT ![c].draft = draft]
             /\ Goto(c, "creating")
       \/ Goto(c, IF call[c].op = None THEN "provider_failed" ELSE "failing")
             /\ UNCHANGED call
       \/ Goto(c, "raised") /\ UNCHANGED call
    /\ UNCHANGED <<decisions, operations, checkIns, effects>>

\* record_operation: the input stays pending under its identifier.
RecordFailure(c) ==
    LET op == call[c].op IN
    /\ pc[c] = "failing"
    /\ \/ ~Open(op) /\ Stop(c, "operation_conflict")
       \/ /\ Open(op)
          /\ Store(op, [status |-> "failed", payload |-> call[c].payload, result |-> None])
          /\ Goto(c, "provider_failed")
          /\ UNCHANGED <<decisions, checkIns, call, effects>>

\* save: the decision and the completed operation in one transaction.
Commit(c, d, decision) ==
    /\ decisions' = [decisions EXCEPT ![d] = decision]
    /\ Store(call[c].op,
             [status |-> "completed", payload |-> call[c].payload, result |-> d])
    /\ effects' = effects \cup {[op |-> call[c].op, payload |-> call[c].payload,
                                 decision |-> d, after |-> decision]}
    /\ Goto(c, "returned")
    /\ UNCHANGED <<checkIns, call>>

\* The identifier is fresh.
Create(c) ==
    /\ pc[c] = "creating"
    /\ \/ ~Open(call[c].op) /\ Stop(c, "operation_conflict")
       \/ \E d \in DecisionIds :
             /\ Open(call[c].op)
             /\ decisions[d] = Absent
             /\ Commit(c, d, Proposed(call[c].draft))

-----------------------------------------------------------------------------
(* correct_personal_record and confirm_reckoning.                          *)

NeverStale(payload, decision) == FALSE   \* mutant: the shown revision is ignored

Stale(payload, decision) ==
    payload.expected # None /\ payload.expected # decision.version

\* get, and the checks on what it returned.
Read(c) ==
    LET payload == call[c].payload
        now == decisions[payload.decision]
    IN
    /\ pc[c] = "reading"
    /\ IF Stale(payload, now) THEN Goto(c, "revision_conflict")
       ELSE \/ /\ payload.kind = "correct"
               /\ Goto(c, IF /\ now.status # "confirmed"
                             /\ \E r \in Current(now.records) : r.record = payload.record
                          THEN "saving" ELSE "raised")
            \/ /\ payload.kind = "confirm"
               /\ Goto(c, IF now.status # "confirmed" THEN "saving"
                          ELSE IF call[c].op # None THEN "acknowledging" ELSE "returned")
    /\ call' = [call EXCEPT ![c].read = now]
    /\ UNCHANGED <<decisions, operations, checkIns, effects>>

AnyVersion(d, version) == TRUE      \* mutant: the last writer wins

VersionHolds(d, version) == decisions[d].version = version

\* save: the version that was read must still be the stored one.
Save(c) ==
    LET payload == call[c].payload
        d == payload.decision
        read == call[c].read
    IN
    /\ pc[c] = "saving"
    /\ \/ ~VersionHolds(d, read.version) /\ Stop(c, "revision_conflict")
       \/ VersionHolds(d, read.version) /\ ~Open(call[c].op)
             /\ Stop(c, "operation_conflict")
       \/ /\ VersionHolds(d, read.version)
          /\ Open(call[c].op)
          /\ Commit(c, d, IF payload.kind = "correct"
                          THEN Corrected(read, payload.record, payload.text)
                          ELSE Confirmed(read))

\* Confirming again: record_operation alone.
Acknowledge(c) ==
    LET op == call[c].op IN
    /\ pc[c] = "acknowledging"
    /\ \/ ~Open(op) /\ Stop(c, "operation_conflict")
       \/ /\ Open(op)
          /\ Store(op, [status |-> "completed", payload |-> call[c].payload,
                        result |-> call[c].payload.decision])
          /\ Goto(c, "returned")
          /\ UNCHANGED <<decisions, checkIns, call, effects>>

-----------------------------------------------------------------------------
(* record_check_in: the status is read, and read again by save_check_in.   *)

BeginCheckIn(c, d) ==
    /\ pc[c] = "idle"
    /\ decisions[d] # Absent
    /\ Goto(c, IF decisions[d].status = "confirmed" THEN "reviewing" ELSE "raised")
    /\ call' = [call EXCEPT ![c].payload = [NoPayload EXCEPT !.kind = "check_in",
                                                             !.decision = d]]
    /\ UNCHANGED <<decisions, operations, checkIns, effects>>

SaveCheckIn(c) ==
    LET d == call[c].payload.decision IN
    /\ pc[c] = "reviewing"
    /\ decisions[d].status = "confirmed"
    /\ checkIns' = checkIns \cup {d}
    /\ Goto(c, "returned")
    /\ UNCHANGED <<decisions, operations, call, effects>>

-----------------------------------------------------------------------------
\* The process dies, or the database raises, between two transactions.
Crash(c) == pc[c] \in Active /\ Stop(c, "crashed")

Begin(c) ==
    \/ \E op \in OpIds \cup {None} :
          \/ \E text \in Texts : Lookup(c, op, ToStart(text))
          \/ \E d \in DecisionIds : \E v \in Revisions(d) :
                /\ decisions[d] # Absent
                /\ \/ \E r \in RecordIds, text \in Texts : Lookup(c, op, ToCorrect(d, r, text, v))
                   \/ Lookup(c, op, ToConfirm(d, v))
    \/ \E d \in DecisionIds : BeginCheckIn(c, d)

Next ==
    \E c \in Callers :
        \/ Begin(c)
        \/ AskProvider(c)
        \/ RecordFailure(c)
        \/ Create(c)
        \/ Read(c)
        \/ Save(c)
        \/ Acknowledge(c)
        \/ SaveCheckIn(c)
        \/ Crash(c)

Spec == Init /\ [][Next]_vars

-----------------------------------------------------------------------------
(* Properties.                                                             *)

TypeOK ==
    /\ decisions \in [DecisionIds -> Decision]
    /\ operations \in [OpIds -> Operation]
    /\ checkIns \subseteq DecisionIds
    /\ pc \in [Callers -> Active \cup Ended \cup {"idle"}]
    /\ call \in [Callers -> Call]
    /\ effects \subseteq Effect

\* An operation identifier changes one decision once, whatever retries,
\* duplicates and crashes happen, and it does so as a completed operation.
OneEffectPerOperation ==
    \A e \in effects :
        e.op # None =>
            /\ \A f \in effects : f.op = e.op => f = e
            /\ operations[e.op].status = "completed"
            /\ operations[e.op].result = e.decision

\* The web page says "Confirmed exactly as shown (revision n)": a correction or
\* a confirmation given against a displayed revision applies to that revision,
\* and what is confirmed reads as it was displayed.
AppliesToWhatWasShown ==
    \A e \in effects :
        e.payload.expected # None =>
            \E f \in effects :
                /\ f.decision = e.decision
                /\ f.after.version = e.payload.expected
                /\ e.after.version = f.after.version + 1
                /\ e.payload.kind = "confirm" => Shown(e.after) = Shown(f.after)

\* A replay answers the request it was given: the operation it found did
\* this change, or was a confirmation of a decision confirmed before.
ReplayIsFaithful ==
    \A c \in Callers :
        pc[c] = "replayed" =>
            LET result == operations[call[c].op].result IN
            \/ \E e \in effects : /\ e.op = call[c].op
                                  /\ e.payload = call[c].payload
                                  /\ e.decision = result
            \/ /\ call[c].payload.kind = "confirm"
               /\ call[c].payload.decision = result
               /\ decisions[result].status = "confirmed"

\* A version number names one content: a caller that finds the version it read
\* finds the decision it read.
VersionIdentifiesContent ==
    \A c \in Callers :
        /\ pc[c] = "saving"
        /\ decisions[call[c].payload.decision].version = call[c].read.version
        => decisions[call[c].payload.decision] = call[c].read

\* An identifier has one effect, a replay answers its own request, and a caller
\* that finds the version it read finds the decision it read (_replay_result,
\* _upsert_operation and save).
OperationsAreFaithful ==
    TypeOK /\ OneEffectPerOperation /\ ReplayIsFaithful /\ VersionIdentifiesContent

\* _replay_result: "any payload change under a used operation id is a conflict".
\* The input of a call that failed and was recorded is the one its identifier
\* holds, pending or completed.
PayloadBindsOperation ==
    \A c \in Callers :
        pc[c] = "provider_failed" /\ call[c].op # None =>
            operations[call[c].op].payload = call[c].payload

-----------------------------------------------------------------------------
(* The promise: every operation acts at once on the current decision.      *)

Atomic == INSTANCE AtomicDecisions
    WITH Ids <- DecisionIds, NoOp <- None, store <- decisions,
         used <- {op \in OpIds : operations[op].status = "completed"},
         reviewed <- checkIns

\* Read, compute and save implement the atomic operation, so that no
\* correction is lost, a confirmed decision is frozen and an identifier is
\* used once.
ActsAtomically == Atomic!Spec

=============================================================================
