---------------------- MODULE DecisionOperationsProofs ----------------------
(***************************************************************************)
(* Theorems about DecisionOperations, for any callers, identifiers and     *)
(* texts.                                                                  *)
(*                                                                         *)
(* The argument: a stored decision only moves forward (Progress), so the   *)
(* version a caller read names the decision it read (Snapshot).  A save    *)
(* that passes the version check therefore acts on the current decision,   *)
(* which is what AtomicDecisions asks and what a person was shown.         *)
(***************************************************************************)
EXTENDS DecisionOperations, TLAPS

-----------------------------------------------------------------------------
(* The inductive invariant.                                                *)

Changes == {"reading", "saving", "acknowledging"}

ChangePayload ==
    {p \in Payload : /\ p.kind \in {"correct", "confirm"}
                     /\ p.decision \in DecisionIds
                     /\ p.kind = "correct" => p.record \in RecordIds /\ p.text \in Texts}
StartPayload == {p \in Payload : p.kind = "start" /\ p.expected = None}

\* The arguments a caller has at each place of its operation.
Arguments(c) ==
    /\ pc[c] \in {"provider", "failing", "creating"} => call[c].payload \in StartPayload
    /\ pc[c] \in Changes => call[c].payload \in ChangePayload
    /\ pc[c] \in {"failing", "acknowledging", "replayed"} => call[c].op \in OpIds
    /\ pc[c] = "reviewing" => call[c].payload.decision \in DecisionIds

TypeInv == TypeOK /\ \A c \in Callers : Arguments(c)

\* A decision exists from the first time somebody asks to change it.
Known(c) ==
    pc[c] \in Changes => decisions[call[c].payload.decision].version > 0

\* The version that was read names the decision that was read, and it is the
\* version that was displayed to the person.
Snapshot(c) ==
    pc[c] = "saving" =>
        LET stored == decisions[call[c].payload.decision]
            read == call[c].read
        IN
        /\ read.status = "proposed"
        /\ read.version <= stored.version
        /\ stored.version = read.version => stored = read
        /\ call[c].payload.expected # None => call[c].payload.expected = read.version

\* What a caller found confirmed stays confirmed, and only a confirmation is
\* acknowledged.
Settled(c) ==
    /\ pc[c] \in {"acknowledging", "reviewing"} =>
           decisions[call[c].payload.decision].status = "confirmed"
    /\ pc[c] = "acknowledging" => call[c].payload.kind = "confirm"

\* A replayed operation is complete and has the payload of the replay.
Replayed(c) ==
    pc[c] = "replayed" =>
        /\ operations[call[c].op].status = "completed"
        /\ operations[call[c].op].payload = call[c].payload

CallerInv(c) == Known(c) /\ Snapshot(c) /\ Settled(c) /\ Replayed(c)

\* A decision is absent, or it is what the last effect on it made it.
DecisionInv(d) ==
    \/ decisions[d] = Absent
    \/ /\ decisions[d].version > 0
       /\ decisions[d].status # "none"
       /\ \E e \in effects : e.decision = d /\ e.after = decisions[d]

\* A completed operation made its change, or confirmed what was confirmed.
OperationInv(op) ==
    operations[op].status = "completed" =>
        LET payload == operations[op].payload
            result == operations[op].result
        IN
        \/ \E e \in effects : e.op = op /\ e.payload = payload /\ e.decision = result
        \/ /\ payload.kind = "confirm"
           /\ payload.decision = result
           /\ result \in DecisionIds
           /\ decisions[result].status = "confirmed"

IInv ==
    /\ TypeInv
    /\ \A c \in Callers : CallerInv(c)
    /\ \A d \in DecisionIds : DecisionInv(d)
    /\ \A op \in OpIds : OperationInv(op)
    /\ OneEffectPerOperation
    /\ AppliesToWhatWasShown

-----------------------------------------------------------------------------
(* The value of a decision.                                                *)

\* The changes give decisions of the right type.
LEMMA ChangesTyped ==
    ASSUME NEW decision \in Decision
    PROVE  /\ \A r \in RecordIds, m \in Texts : Corrected(decision, r, m) \in Decision
           /\ Confirmed(decision) \in Decision
<1>1. \A r \in Current(decision.records) : r \in RecordVersion
  BY DEF Current, Decision
<1>2. ASSUME NEW r \in RecordVersion
      PROVE  /\ \A m \in Texts : [r EXCEPT !.version = @ + 1, !.status = "proposed",
                                             !.meaning = m] \in RecordVersion
             /\ [r EXCEPT !.version = @ + 1, !.status = "confirmed"] \in RecordVersion
  <2> DEFINE n == r.version + 1
  <2>1. n \in Nat
    BY DEF RecordVersion
  <2> HIDE DEF n
  <2>2. /\ \A m \in Texts : [r EXCEPT !.version = n, !.status = "proposed",
                                        !.meaning = m] \in RecordVersion
        /\ [r EXCEPT !.version = n, !.status = "confirmed"] \in RecordVersion
    BY <2>1 DEF RecordVersion
  <2> QED BY <2>2 DEF n
<1>3. decision.version + 1 \in Nat /\ decision.records \subseteq RecordVersion
      /\ decision.status \in {"none", "proposed", "confirmed"}
  BY DEF Decision
<1>4. ASSUME NEW x \in RecordIds, NEW m \in Texts
      PROVE  Corrected(decision, x, m) \in Decision
  <2> DEFINE new == {[r EXCEPT !.version = @ + 1, !.status = "proposed", !.meaning = m] :
                        r \in {s \in Current(decision.records) : s.record = x}}
  <2>1. new \subseteq RecordVersion
    BY <1>1, <1>2
  <2> HIDE DEF new
  <2>2. decision.records \cup new \in SUBSET RecordVersion
    BY <1>3, <2>1
  <2>3. Corrected(decision, x, m) =
           [version |-> decision.version + 1, status |-> decision.status,
            records |-> decision.records \cup new]
    BY DEF Corrected, new
  <2> QED BY <1>3, <2>2, <2>3 DEF Decision
<1>5. Confirmed(decision) \in Decision
  <2> DEFINE new == {[r EXCEPT !.version = @ + 1, !.status = "confirmed"] :
                        r \in Current(decision.records)}
  <2>1. new \subseteq RecordVersion
    BY <1>1, <1>2
  <2> HIDE DEF new
  <2>2. decision.records \cup new \in SUBSET RecordVersion
    BY <1>3, <2>1
  <2>3. Confirmed(decision) =
           [version |-> decision.version + 1, status |-> "confirmed",
            records |-> decision.records \cup new]
    BY DEF Confirmed, new
  <2> QED BY <1>3, <2>2, <2>3 DEF Decision
<1> QED BY <1>4, <1>5

\* So does the first version.
LEMMA ProposedTyped ==
    ASSUME NEW draft \in Drafts
    PROVE  Proposed(draft) \in Decision
<1>1. PICK rs \in SUBSET RecordIds : draft \in [rs -> Texts]
  BY DEF Drafts
<1>2. DOMAIN draft = rs /\ \A r \in rs : r \in RecordIds /\ draft[r] \in Texts
  BY <1>1
<1> DEFINE records == {[record |-> r, version |-> 1, status |-> "proposed",
                        meaning |-> draft[r]] : r \in DOMAIN draft}
<1>3. records \in SUBSET RecordVersion
  BY <1>2 DEF RecordVersion
<1> HIDE DEF records
<1>4. Proposed(draft) = [version |-> 1, status |-> "proposed", records |-> records]
  BY DEF Proposed, records
<1> QED BY <1>3, <1>4 DEF Decision

\* Confirming a decision leaves what a person reads in it: each current record
\* gets one more version with the same meaning.
LEMMA ConfirmedShowsTheSame ==
    ASSUME NEW decision \in Decision
    PROVE  Shown(Confirmed(decision)) = Shown(decision)
<1> DEFINE old == decision.records
           next(r) == [r EXCEPT !.version = @ + 1, !.status = "confirmed"]
           new == {next(r) : r \in Current(old)}
<1>1. \A r \in old : r.version \in Nat /\ r \in RecordVersion
  BY DEF Decision, RecordVersion
<1>2. \A r \in old : next(r).version = r.version + 1 /\ next(r).record = r.record
                     /\ next(r).meaning = r.meaning
  BY <1>1 DEF RecordVersion
<1>3. Current(old) \subseteq old
  BY DEF Current
<1> HIDE DEF next
<1>4. Current(old \cup new) = new
  <2>1. ASSUME NEW x \in new PROVE x \in Current(old \cup new)
    <3>1. PICK r \in Current(old) : x = next(r)
      OBVIOUS
    <3>2. ASSUME NEW s \in old, s.record = x.record PROVE s.version <= x.version
      BY <1>1, <1>2, <1>3, <3>1, <3>2 DEF Current
    <3>3. ASSUME NEW s \in new, s.record = x.record PROVE s.version <= x.version
      <4>1. PICK q \in Current(old) : s = next(q)
        OBVIOUS
      <4> QED BY <1>1, <1>2, <1>3, <3>1, <3>3, <4>1 DEF Current
    <3> QED BY <3>2, <3>3 DEF Current
  <2>2. ASSUME NEW x \in old, x \in Current(old \cup new) PROVE FALSE
    <3>1. x \in Current(old)
      BY <2>2 DEF Current
    <3>2. next(x) \in new
      BY <3>1
    <3> QED BY <1>1, <1>2, <2>2, <3>2 DEF Current
  <2> QED BY <2>1, <2>2 DEF Current
<1>5. Confirmed(decision).records = old \cup new
  BY DEF Confirmed, next
<1>6. Shown(Confirmed(decision)) = {<<r.record, r.meaning>> : r \in new}
  BY <1>4, <1>5 DEF Shown
<1>7. {<<r.record, r.meaning>> : r \in new} = {<<r.record, r.meaning>> : r \in Current(old)}
  BY <1>2, <1>3
<1> QED BY <1>6, <1>7 DEF Shown

-----------------------------------------------------------------------------
(* Type correctness.                                                       *)

\* A request is a start, or a change of a decision that exists.
LEMMA RequestTyped ==
    ASSUME TypeOK
    PROVE  /\ \A text \in Texts : ToStart(text) \in StartPayload
           /\ \A d \in DecisionIds : \A v \in Revisions(d) :
                 /\ \A r \in RecordIds, text \in Texts : ToCorrect(d, r, text, v) \in ChangePayload
                 /\ ToConfirm(d, v) \in ChangePayload
<1>1. \A d \in DecisionIds : Revisions(d) \subseteq Nat \cup {None}
  BY DEF TypeOK, Revisions, Decision
<1> QED BY <1>1 DEF ToStart, ToCorrect, ToConfirm, Payload, NoPayload, Kinds, StartPayload,
               ChangePayload

\* Updating the locals of a caller keeps them well typed.
LEMMA CallUpdate ==
    ASSUME NEW l \in Call
    PROVE  /\ \A draft \in Drafts : [l EXCEPT !.draft = draft] \in Call
           /\ \A read \in Decision : [l EXCEPT !.read = read] \in Call
BY DEF Call, Drafts

\* A call begins with its arguments only.
LEMMA NewCallTyped ==
    /\ NoCall \in Call
    /\ \A op \in OpIds \cup {None}, p \in Payload :
          [NoCall EXCEPT !.op = op, !.payload = p] \in Call
<1>1. NoDraft \in Drafts
  <2>1. NoDraft \in [{} -> Texts]
    BY DEF NoDraft
  <2> QED BY <2>1 DEF Drafts
<1>2. Absent \in Decision
  BY DEF Absent, Decision
<1> HIDE DEF NoDraft
<1> QED BY <1>1, <1>2 DEF NoCall, Call, Drafts

\* The initial state is well typed.
LEMMA TypeInit == Init => TypeInv
<1>1. Absent \in Decision /\ NoOperation \in Operation
  BY DEF Absent, Decision, NoOperation, Operation
<1> QED BY <1>1, NewCallTyped DEF Init, TypeInv, TypeOK, Arguments, Changes

\* The operation table keeps its type when a typed record is stored.
LEMMA StoreTyped ==
    ASSUME NEW op \in OpIds \cup {None}, NEW record \in Operation,
           operations \in [OpIds -> Operation], Store(op, record)
    PROVE  operations' \in [OpIds -> Operation]
BY DEF Store

\* A commit keeps the types.
LEMMA CommitTyped ==
    ASSUME TypeInv, NEW c \in Callers, NEW d \in DecisionIds, NEW new \in Decision,
           call[c].payload \in Payload, Commit(c, d, new)
    PROVE  TypeInv'
<1> USE DEF TypeInv, TypeOK
<1>1. call[c].op \in OpIds \cup {None}
  BY DEF Call
<1>2. [status |-> "completed", payload |-> call[c].payload, result |-> d] \in Operation
  BY DEF Operation
<1>3. operations' \in [OpIds -> Operation]
  BY <1>1, <1>2, StoreTyped DEF Commit
<1>4. [op |-> call[c].op, payload |-> call[c].payload, decision |-> d, after |-> new] \in Effect
  BY <1>1 DEF Effect
<1>5. decisions' \in [DecisionIds -> Decision] /\ effects' \subseteq Effect
  BY <1>4 DEF Commit
<1>6. pc' = [pc EXCEPT ![c] = "returned"] /\ UNCHANGED <<checkIns, call>>
  BY DEF Commit, Goto
<1> QED BY <1>3, <1>5, <1>6 DEF Arguments, Changes, Ended

\* Every step keeps the types and the arguments.
LEMMA TypeNext == TypeInv /\ [Next]_vars => TypeInv'
<1> SUFFICES ASSUME TypeInv, [Next]_vars PROVE TypeInv'
  OBVIOUS
<1> USE DEF TypeInv, TypeOK, Goto
<1>1. ASSUME NEW c \in Callers, NEW label \in Ended, Stop(c, label),
             label = "replayed" => call[c].op \in OpIds
      PROVE  TypeInv'
  BY <1>1 DEF Stop, Arguments, Changes, Ended
<1>2. ASSUME NEW c \in Callers, NEW op \in OpIds \cup {None}, NEW p \in StartPayload \cup ChangePayload,
             Lookup(c, op, p)
      PROVE  TypeInv'
  <2> DEFINE l == [NoCall EXCEPT !.op = op, !.payload = p]
  <2>1. p \in Payload /\ (p.kind = "start" => p \in StartPayload)
        /\ (p.kind # "start" => p \in ChangePayload)
    BY DEF StartPayload, ChangePayload
  <2>2. l \in Call /\ l.op = op /\ l.payload = p
    BY <2>1, NewCallTyped DEF NoCall
  <2> HIDE DEF l
  <2>3. call' = [call EXCEPT ![c] = l] /\ UNCHANGED <<decisions, operations, checkIns, effects>>
    BY <1>2 DEF Lookup, l
  <2>4. \E label \in {"operation_conflict", "replayed", "provider", "reading"} :
           /\ pc' = [pc EXCEPT ![c] = label]
           /\ label = "replayed" => op \in OpIds
           /\ label = "provider" => p.kind = "start"
           /\ label = "reading" => p.kind # "start"
    BY <1>2 DEF Lookup
  <2> QED BY <2>1, <2>2, <2>3, <2>4 DEF Arguments, Changes, Ended, Active
<1>3. ASSUME NEW c \in Callers, AskProvider(c) PROVE TypeInv'
  <2>1. CASE call' = call
    BY <1>3, <2>1 DEF AskProvider, Arguments, Changes, Ended, Active, Call
  <2>2. ASSUME NEW draft \in Drafts, call' = [call EXCEPT ![c].draft = draft],
               pc' = [pc EXCEPT ![c] = "creating"]
        PROVE  TypeInv'
    <3> DEFINE l == [call[c] EXCEPT !.draft = draft]
    <3>1. l \in Call /\ l.op = call[c].op /\ l.payload = call[c].payload
      BY CallUpdate DEF Call
    <3>2. call' = [call EXCEPT ![c] = l]
      BY <2>2
    <3> HIDE DEF l
    <3> QED BY <1>3, <2>2, <3>1, <3>2 DEF AskProvider, Arguments, Changes, Active
  <2> QED BY <1>3, <2>1, <2>2 DEF AskProvider
<1>4. ASSUME NEW c \in Callers, RecordFailure(c) PROVE TypeInv'
  <2>1. CASE Open(call[c].op)
    <3>1. call[c].payload \in Payload /\ call[c].op \in OpIds
      BY <1>4 DEF RecordFailure, Arguments, StartPayload
    <3>2. [status |-> "failed", payload |-> call[c].payload, result |-> None] \in Operation
      BY <3>1 DEF Operation
    <3>3. operations' \in [OpIds -> Operation]
      BY <1>4, <2>1, <3>1, <3>2, StoreTyped DEF RecordFailure
    <3> QED BY <1>4, <2>1, <3>3 DEF RecordFailure, Arguments, Changes, Ended
  <2> QED BY <1>1, <1>4, <2>1 DEF RecordFailure, Ended
<1>5. ASSUME NEW c \in Callers, Create(c) PROVE TypeInv'
  <2>1. call[c].draft \in Drafts /\ call[c].payload \in Payload
    BY <1>5 DEF Create, Arguments, StartPayload, Call, Drafts
  <2> QED BY <1>1, <1>5, <2>1, CommitTyped, ProposedTyped DEF Create, Ended
<1>6. ASSUME NEW c \in Callers, Read(c) PROVE TypeInv'
  <2> DEFINE now == decisions[call[c].payload.decision]
             l == [call[c] EXCEPT !.read = now]
  <2>1. call[c].payload \in ChangePayload /\ now \in Decision
    BY <1>6 DEF Read, Arguments, Changes, ChangePayload
  <2>2. l \in Call /\ l.op = call[c].op /\ l.payload = call[c].payload
    BY ZenonT(30), <2>1, CallUpdate DEF Call
  <2>3. call' = [call EXCEPT ![c] = l] /\ UNCHANGED <<decisions, operations, checkIns, effects>>
    BY <1>6 DEF Read
  <2> HIDE DEF l
  <2>4. \E label \in {"revision_conflict", "saving", "raised", "acknowledging", "returned"} :
           /\ pc' = [pc EXCEPT ![c] = label]
           /\ label = "acknowledging" => call[c].op # None
    BY <1>6 DEF Read
  <2>5. call[c].op \in OpIds \cup {None}
    BY DEF Call
  <2> QED BY <2>1, <2>2, <2>3, <2>4, <2>5 DEF Arguments, Changes, Ended, Active
<1>7. ASSUME NEW c \in Callers, Save(c) PROVE TypeInv'
  <2>1. call[c].payload \in ChangePayload /\ call[c].read \in Decision
    BY <1>7 DEF Save, Arguments, Changes, Call
  <2>2. \A new \in Decision : Commit(c, call[c].payload.decision, new) => TypeInv'
    BY <2>1, CommitTyped DEF ChangePayload
  <2>3. call[c].payload.kind = "correct" =>
           Corrected(call[c].read, call[c].payload.record, call[c].payload.text) \in Decision
    BY <2>1, ChangesTyped DEF ChangePayload
  <2>4. Confirmed(call[c].read) \in Decision
    BY <2>1, ChangesTyped
  <2> QED BY <1>1, <1>7, <2>2, <2>3, <2>4 DEF Save, Ended
<1>8. ASSUME NEW c \in Callers, Acknowledge(c) PROVE TypeInv'
  <2>1. CASE Open(call[c].op)
    <3>1. call[c].payload \in ChangePayload /\ call[c].op \in OpIds
      BY <1>8 DEF Acknowledge, Arguments, Changes
    <3>2. [status |-> "completed", payload |-> call[c].payload,
           result |-> call[c].payload.decision] \in Operation
      BY <3>1 DEF Operation, ChangePayload
    <3>3. operations' \in [OpIds -> Operation]
      BY <1>8, <2>1, <3>1, <3>2, StoreTyped DEF Acknowledge
    <3> QED BY <1>8, <2>1, <3>3 DEF Acknowledge, Arguments, Changes, Ended
  <2> QED BY <1>1, <1>8, <2>1 DEF Acknowledge, Ended
<1>9. ASSUME NEW c \in Callers, NEW d \in DecisionIds, BeginCheckIn(c, d) PROVE TypeInv'
  <2> DEFINE p == [NoPayload EXCEPT !.kind = "check_in", !.decision = d]
             l == [call[c] EXCEPT !.payload = p]
  <2>1. p \in Payload /\ p.decision = d
    BY DEF Payload, NoPayload, Kinds
  <2> HIDE DEF p
  <2>2. l \in Call /\ l.payload = p
    BY <2>1 DEF Call
  <2>3. call' = [call EXCEPT ![c] = l]
    BY <1>9 DEF BeginCheckIn, p
  <2> HIDE DEF l
  <2> QED BY <1>9, <2>1, <2>2, <2>3 DEF BeginCheckIn, Arguments, Changes, Ended, Active
<1>10. ASSUME NEW c \in Callers, SaveCheckIn(c) PROVE TypeInv'
  BY <1>10 DEF SaveCheckIn, Arguments, Changes, Ended
<1>11. ASSUME NEW c \in Callers, Crash(c) PROVE TypeInv'
  BY <1>1, <1>11 DEF Crash, Ended
<1>12. CASE UNCHANGED vars
  BY <1>12 DEF vars, Arguments
<1>13. ASSUME NEW c \in Callers, Begin(c) PROVE TypeInv'
  BY <1>2, <1>9, <1>13, RequestTyped DEF Begin
<1> QED BY <1>3, <1>4, <1>5, <1>6, <1>7, <1>8, <1>10, <1>11, <1>12, <1>13 DEF Next

\* Every variable keeps its type, for any callers, identifiers and texts.
THEOREM TypeCorrect == Spec => []TypeOK
<1>1. TypeInv => TypeOK
  BY DEF TypeInv
<1> QED BY TypeInit, TypeNext, <1>1, PTL DEF Spec

-----------------------------------------------------------------------------
(* What a step may do to the store.                                        *)

\* Decisions gain one version at a time until they are confirmed, completed
\* operations stay, and effects are never undone.
Progress ==
    /\ \A d \in DecisionIds :
          \/ decisions'[d] = decisions[d]
          \/ /\ decisions[d].status # "confirmed"
             /\ decisions'[d].version = decisions[d].version + 1
    /\ \A op \in OpIds :
          operations[op].status = "completed" => operations'[op] = operations[op]
    /\ effects \subseteq effects'

\* Progress keeps the invariant of every caller that does not move.
LEMMA OthersKeep ==
    ASSUME TypeInv, TypeInv', Progress, NEW c \in Callers, CallerInv(c),
           pc'[c] = pc[c], call'[c] = call[c]
    PROVE  CallerInv(c)'
<1> DEFINE d == call[c].payload.decision
<1>1. pc[c] \in Changes \cup {"reviewing"} =>
         /\ d \in DecisionIds
         /\ decisions[d] \in Decision /\ decisions'[d] \in Decision
         /\ decisions[d].version \in Nat /\ decisions'[d].version \in Nat
  BY DEF TypeInv, TypeOK, Arguments, ChangePayload, Decision
<1>2. pc[c] \in Changes \cup {"reviewing"} =>
         \/ decisions'[d] = decisions[d]
         \/ /\ decisions[d].status # "confirmed"
            /\ decisions'[d].version = decisions[d].version + 1
  BY <1>1 DEF Progress
<1>3. Known(c)'
  BY <1>1, <1>2 DEF CallerInv, Known, Changes
<1>4. Snapshot(c)'
  <2> SUFFICES ASSUME pc[c] = "saving" PROVE Snapshot(c)'
    BY DEF Snapshot
  <2>1. call[c].read.version \in Nat
    BY DEF TypeInv, TypeOK, Call, Decision
  <2>2. CASE decisions'[d] = decisions[d]
    BY <2>2 DEF CallerInv, Snapshot
  <2>3. CASE decisions'[d].version = decisions[d].version + 1
    BY <1>1, <2>1, <2>3 DEF CallerInv, Snapshot, Changes
  <2> QED BY <1>2, <2>2, <2>3 DEF Changes
<1>5. Settled(c)'
  BY <1>1, <1>2 DEF CallerInv, Settled, Changes
<1>6. Replayed(c)'
  <2>1. pc[c] = "replayed" => call[c].op \in OpIds
    BY DEF TypeInv, Arguments
  <2> QED BY <2>1 DEF CallerInv, Replayed, Progress
<1> QED BY <1>3, <1>4, <1>5, <1>6 DEF CallerInv

\* A step that stores no decision keeps the invariant if it keeps that of its
\* caller and of the operations it writes.
LEMMA QuietStep ==
    ASSUME IInv, TypeInv', NEW c \in Callers, UNCHANGED <<decisions, effects>>,
           \A b \in Callers \ {c} : pc'[b] = pc[b] /\ call'[b] = call[b],
           \A op \in OpIds : \/ operations'[op] = operations[op]
                             \/ operations[op].status # "completed" /\ OperationInv(op)',
           Progress => CallerInv(c)'
    PROVE  IInv'
<1>1. Progress
  BY DEF Progress
<1>2. \A b \in Callers : CallerInv(b)'
  BY <1>1, OthersKeep DEF IInv
<1>3. \A d \in DecisionIds : DecisionInv(d)'
  BY DEF IInv, DecisionInv
<1>4. \A op \in OpIds : OperationInv(op)'
  BY DEF IInv, OperationInv
<1>5. OneEffectPerOperation'
  <2>1. \A e \in effects : e.op \in OpIds \cup {None}
    BY DEF IInv, TypeInv, TypeOK, Effect
  <2> QED BY <1>1, <2>1 DEF IInv, OneEffectPerOperation, Progress
<1>6. AppliesToWhatWasShown'
  BY DEF IInv, AppliesToWhatWasShown
<1> QED BY <1>2, <1>3, <1>4, <1>5, <1>6 DEF IInv

\* What a request must find to apply to what its caller was shown.
AppliesTo(payload, old, new) ==
    payload.expected # None =>
        /\ old # Absent
        /\ payload.expected = old.version
        /\ payload.kind = "confirm" => Shown(new) = Shown(old)

\* A commit on the current version of a decision that is not confirmed keeps
\* the invariant.
LEMMA CommitStep ==
    ASSUME IInv, TypeInv', NEW c \in Callers, NEW d \in DecisionIds, NEW new \in Decision,
           Commit(c, d, new), Open(call[c].op),
           new.version = decisions[d].version + 1,
           new.status # "none", decisions[d].status # "confirmed",
           AppliesTo(call[c].payload, decisions[d], new)
    PROVE  IInv'
<1> DEFINE op == call[c].op
           effect == [op |-> op, payload |-> call[c].payload, decision |-> d, after |-> new]
<1>1. /\ decisions' = [decisions EXCEPT ![d] = new] /\ decisions \in [DecisionIds -> Decision]
      /\ effects' = effects \cup {effect}
      /\ pc' = [pc EXCEPT ![c] = "returned"] /\ pc'[c] = "returned"
      /\ call' = call /\ checkIns' = checkIns
      /\ op \in OpIds \cup {None}
  BY DEF Commit, Goto, IInv, TypeInv, TypeOK, Call
<1>2. /\ op = None => operations' = operations
      /\ op # None => /\ operations' = [operations EXCEPT ![op] =
                            [status |-> "completed", payload |-> call[c].payload, result |-> d]]
                      /\ operations[op].status # "completed"
  BY DEF Commit, Store, Open
<1>3. operations \in [OpIds -> Operation]
  BY DEF IInv, TypeInv, TypeOK
<1>4. Progress
  BY <1>1, <1>2, <1>3 DEF Progress
<1> HIDE DEF effect
<1>5. \A b \in Callers : CallerInv(b)'
  <2>1. CallerInv(c)'
    BY <1>1 DEF CallerInv, Known, Snapshot, Settled, Replayed, Changes
  <2>2. ASSUME NEW b \in Callers \ {c} PROVE CallerInv(b)'
    <3>1. pc'[b] = pc[b] /\ call'[b] = call[b]
      BY <1>1 DEF IInv, TypeInv, TypeOK
    <3> QED BY <1>4, <3>1, OthersKeep DEF IInv
  <2> QED BY <2>1, <2>2
<1>6. \A e \in DecisionIds : DecisionInv(e)'
  <2>1. DecisionInv(d)'
    <3>1. decisions'[d] = new /\ effect \in effects' /\ effect.decision = d /\ effect.after = new
      BY <1>1 DEF effect
    <3>2. decisions[d].version \in Nat
      BY <1>1 DEF Decision
    <3> QED BY <3>1, <3>2 DEF DecisionInv
  <2>2. ASSUME NEW e \in DecisionIds \ {d} PROVE DecisionInv(e)'
    BY <1>1 DEF IInv, DecisionInv
  <2> QED BY <2>1, <2>2
<1>7. \A o \in OpIds : OperationInv(o)'
  <2>1. ASSUME NEW o \in OpIds, o = op PROVE OperationInv(o)'
    <3>1. /\ effect \in effects' /\ effect.op = o /\ effect.decision = d
          /\ effect.payload = call[c].payload
      BY <1>1, <2>1 DEF effect
    <3>2. operations'[o] = [status |-> "completed", payload |-> call[c].payload, result |-> d]
      BY <1>2, <1>3, <2>1, NoneAssumption
    <3> QED BY <3>1, <3>2 DEF OperationInv
  <2>2. ASSUME NEW o \in OpIds, o # op PROVE OperationInv(o)'
    <3>1. operations'[o] = operations[o]
      BY <1>2, <1>3, <2>2
    <3>2. \A e \in DecisionIds : decisions[e].status = "confirmed" => decisions'[e] = decisions[e]
      BY <1>1
    <3> QED BY <1>4, <3>1, <3>2 DEF IInv, OperationInv, Progress
  <2> QED BY <2>1, <2>2
<1>8. OneEffectPerOperation'
  <2>1. \A e \in effects : e.op \in OpIds \cup {None}
    BY DEF IInv, TypeInv, TypeOK, Effect
  <2>2. \A e \in effects : op # None => e.op # op
    BY <1>2 DEF IInv, OneEffectPerOperation
  <2>3. ASSUME NEW e \in effects, e.op # None
        PROVE  /\ \A f \in effects' : f.op = e.op => f = e
               /\ operations'[e.op].status = "completed"
               /\ operations'[e.op].result = e.decision
    <3>1. effect.op = op
      BY DEF effect
    <3>2. operations'[e.op] = operations[e.op]
      BY <1>4, <2>1, <2>3 DEF Progress, IInv, OneEffectPerOperation
    <3> QED BY <1>1, <2>2, <2>3, <3>1, <3>2 DEF IInv, OneEffectPerOperation
  <2>4. effect.op # None =>
           /\ \A f \in effects' : f.op = effect.op => f = effect
           /\ operations'[effect.op].status = "completed"
           /\ operations'[effect.op].result = effect.decision
    BY <1>1, <1>2, <1>3, <2>2 DEF effect
  <2> QED BY <1>1, <2>3, <2>4 DEF OneEffectPerOperation
<1>9. AppliesToWhatWasShown'
  <2>1. ASSUME NEW e \in effects, e.payload.expected # None
        PROVE  \E f \in effects' :
                  /\ f.decision = e.decision
                  /\ f.after.version = e.payload.expected
                  /\ e.after.version = f.after.version + 1
                  /\ e.payload.kind = "confirm" => Shown(e.after) = Shown(f.after)
    BY <1>1, <2>1 DEF IInv, AppliesToWhatWasShown
  <2>2. ASSUME effect.payload.expected # None
        PROVE  \E f \in effects' :
                  /\ f.decision = effect.decision
                  /\ f.after.version = effect.payload.expected
                  /\ effect.after.version = f.after.version + 1
                  /\ effect.payload.kind = "confirm" => Shown(effect.after) = Shown(f.after)
    <3>1. decisions[d] # Absent
      BY <2>2 DEF AppliesTo, effect
    <3>2. PICK f \in effects : f.decision = d /\ f.after = decisions[d]
      BY <3>1 DEF IInv, DecisionInv
    <3> QED BY <1>1, <2>2, <3>2 DEF AppliesTo, effect
  <2> QED BY <1>1, <2>1, <2>2 DEF AppliesToWhatWasShown
<1> QED BY <1>5, <1>6, <1>7, <1>8, <1>9 DEF IInv

\* The invariant holds initially.
LEMMA InvInit == Init => IInv
BY TypeInit DEF Init, IInv, CallerInv, Known, Snapshot, Settled, Replayed, Changes,
   DecisionInv, OperationInv, NoOperation, OneEffectPerOperation, AppliesToWhatWasShown

\* Every step keeps the invariant.
LEMMA InvNext == IInv /\ [Next]_vars => IInv'
<1> SUFFICES ASSUME IInv, [Next]_vars PROVE IInv'
  OBVIOUS
<1> USE DEF Goto
<1>0. /\ TypeInv /\ TypeInv' /\ TypeOK
      /\ decisions \in [DecisionIds -> Decision] /\ operations \in [OpIds -> Operation]
      /\ pc \in [Callers -> Active \cup Ended \cup {"idle"}] /\ call \in [Callers -> Call]
      /\ \A d \in DecisionIds : DecisionInv(d) /\ decisions[d].version \in Nat
      /\ \A c \in Callers : Arguments(c) /\ CallerInv(c)
  BY TypeNext DEF IInv, TypeInv, TypeOK, Decision
<1>1. ASSUME NEW c \in Callers, NEW label \in Ended \ {"replayed"}, Stop(c, label) PROVE IInv'
  <2>1. CallerInv(c)'
    BY <1>0, <1>1 DEF Stop, CallerInv, Known, Snapshot, Settled, Replayed, Changes, Ended
  <2> QED BY <1>0, <1>1, <2>1, QuietStep DEF Stop
<1>2. ASSUME NEW c \in Callers, NEW op \in OpIds \cup {None},
             NEW p \in StartPayload \cup ChangePayload, Lookup(c, op, p),
             p \in ChangePayload => decisions[p.decision] # Absent
      PROVE  IInv'
  <2> DEFINE l == [NoCall EXCEPT !.op = op, !.payload = p]
  <2>1. l.op = op /\ l.payload = p
    BY DEF NoCall
  <2> HIDE DEF l
  <2>2. call' = [call EXCEPT ![c] = l] /\ UNCHANGED <<decisions, operations, checkIns, effects>>
    BY <1>2 DEF Lookup, l
  <2>3. \E label \in {"operation_conflict", "replayed", "provider", "reading"} :
           /\ pc' = [pc EXCEPT ![c] = label]
           /\ label = "replayed" => operations[op].status = "completed" /\ operations[op].payload = p
           /\ label = "reading" => p.kind # "start"
    BY <1>2 DEF Lookup, SamePayload
  <2>4. p.kind # "start" => p \in ChangePayload
    BY DEF StartPayload
  <2>5. p \in ChangePayload => p.decision \in DecisionIds /\ decisions[p.decision].version > 0
    BY <1>0, <1>2 DEF ChangePayload, DecisionInv
  <2>6. CallerInv(c)'
    BY <1>0, <2>1, <2>2, <2>3, <2>4, <2>5
       DEF CallerInv, Known, Snapshot, Settled, Replayed, Changes
  <2>7. \A b \in Callers \ {c} : pc'[b] = pc[b] /\ call'[b] = call[b]
    BY <1>0, <2>2, <2>3
  <2> QED BY <1>0, <2>2, <2>6, <2>7, QuietStep
<1>3. ASSUME NEW c \in Callers, AskProvider(c) PROVE IInv'
  <2>1. /\ pc'[c] \in {"creating", "failing", "provider_failed", "raised"}
        /\ \A b \in Callers \ {c} : pc'[b] = pc[b] /\ call'[b] = call[b]
        /\ UNCHANGED <<decisions, operations, effects>>
    BY <1>0, <1>3 DEF AskProvider
  <2>2. CallerInv(c)'
    BY <2>1 DEF CallerInv, Known, Snapshot, Settled, Replayed, Changes
  <2> QED BY <1>0, <2>1, <2>2, QuietStep
<1>4. ASSUME NEW c \in Callers, RecordFailure(c) PROVE IInv'
  <2>1. CASE Open(call[c].op)
    <3>1. /\ pc'[c] = "provider_failed"
          /\ \A b \in Callers \ {c} : pc'[b] = pc[b] /\ call'[b] = call[b]
          /\ UNCHANGED <<decisions, effects>>
      BY <1>0, <1>4, <2>1 DEF RecordFailure
    <3>2. call[c].op \in OpIds /\ operations[call[c].op].status # "completed"
      BY <1>0, <1>4, <2>1, NoneAssumption DEF RecordFailure, Open, Arguments
    <3>3. /\ operations'[call[c].op].status = "failed"
          /\ \A op \in OpIds \ {call[c].op} : operations'[op] = operations[op]
      BY <1>0, <1>4, <2>1, <3>2, NoneAssumption DEF RecordFailure, Store
    <3>4. \A op \in OpIds : \/ operations'[op] = operations[op]
                            \/ operations[op].status # "completed" /\ OperationInv(op)'
      BY <3>2, <3>3 DEF OperationInv
    <3>5. CallerInv(c)'
      BY <3>1 DEF CallerInv, Known, Snapshot, Settled, Replayed, Changes
    <3> QED BY <1>0, <3>1, <3>4, <3>5, QuietStep
  <2> QED BY <1>1, <1>4, <2>1 DEF RecordFailure, Ended
<1>5. ASSUME NEW c \in Callers, Create(c) PROVE IInv'
  <2>1. ASSUME NEW d \in DecisionIds, Open(call[c].op), decisions[d] = Absent,
               Commit(c, d, Proposed(call[c].draft))
        PROVE  IInv'
    <3>1. Proposed(call[c].draft) \in Decision
      BY <1>0, ProposedTyped DEF Call, Drafts
    <3>2. /\ Proposed(call[c].draft).version = decisions[d].version + 1
          /\ Proposed(call[c].draft).status # "none" /\ decisions[d].status # "confirmed"
      BY <2>1 DEF Proposed, Absent
    <3>3. call[c].payload.expected = None
      BY <1>0, <1>5 DEF Create, Arguments, StartPayload
    <3> QED BY <1>0, <2>1, <3>1, <3>2, <3>3, CommitStep DEF AppliesTo
  <2> QED BY <1>1, <1>5, <2>1 DEF Create, Ended
<1>6. ASSUME NEW c \in Callers, Read(c) PROVE IInv'
  <2> DEFINE now == decisions[call[c].payload.decision]
             l == [call[c] EXCEPT !.read = now]
  <2>1. /\ call[c].payload.decision \in DecisionIds /\ now \in Decision /\ now.version > 0
        /\ DecisionInv(call[c].payload.decision)
    BY <1>0, <1>6 DEF Read, Arguments, Changes, ChangePayload, CallerInv, Known
  <2>2. now.version \in Nat /\ now.status \in {"proposed", "confirmed"}
    BY <2>1 DEF DecisionInv, Decision, Absent
  <2>3. l.op = call[c].op /\ l.payload = call[c].payload /\ l.read = now
    BY <1>0 DEF Call
  <2>4. call' = [call EXCEPT ![c] = l] /\ UNCHANGED <<decisions, operations, checkIns, effects>>
    BY <1>6 DEF Read
  <2> HIDE DEF l
  <2>5. \E label \in {"revision_conflict", "saving", "raised", "acknowledging", "returned"} :
           /\ pc' = [pc EXCEPT ![c] = label]
           /\ label = "saving" => ~Stale(call[c].payload, now) /\ now.status # "confirmed"
           /\ label = "acknowledging" => now.status = "confirmed"
                                          /\ call[c].payload.kind = "confirm"
    BY <1>6 DEF Read
  <2>6. /\ call'[c] = l /\ \A b \in Callers \ {c} : pc'[b] = pc[b] /\ call'[b] = call[b]
    BY <1>0, <2>4, <2>5
  <2> HIDE DEF now
  <2>7. /\ pc'[c] \in {"revision_conflict", "saving", "raised", "acknowledging", "returned"}
        /\ pc'[c] = "saving" => ~Stale(call[c].payload, now) /\ now.status # "confirmed"
        /\ pc'[c] = "acknowledging" => now.status = "confirmed"
                                       /\ call[c].payload.kind = "confirm"
    BY <1>0, <2>5
  <2>8. decisions'[l.payload.decision] = now
    BY <2>3, <2>4 DEF now
  <2>9. Known(c)' /\ Settled(c)' /\ Replayed(c)'
    BY <2>1, <2>3, <2>6, <2>7, <2>8 DEF Known, Settled, Replayed
  <2>10. Snapshot(c)'
    BY <2>2, <2>3, <2>6, <2>7, <2>8 DEF Snapshot, Stale
  <2> QED BY <1>0, <2>4, <2>6, <2>9, <2>10, QuietStep DEF CallerInv
<1>7. ASSUME NEW c \in Callers, Save(c) PROVE IInv'
  <2> DEFINE p == call[c].payload
             d == p.decision
  <2>1. /\ pc[c] = "saving" /\ p \in ChangePayload /\ d \in DecisionIds
        /\ call[c].read \in Decision
    BY <1>0, <1>7 DEF Save, Arguments, Changes, ChangePayload, Call
  <2>2. ASSUME VersionHolds(d, call[c].read.version)
        PROVE  /\ decisions[d] = call[c].read /\ decisions[d].status = "proposed"
               /\ decisions[d] # Absent
               /\ p.expected # None => p.expected = decisions[d].version
    BY <1>0, <2>1, <2>2 DEF CallerInv, Snapshot, VersionHolds, Absent
  <2>3. ASSUME VersionHolds(d, call[c].read.version), Open(call[c].op), p.kind = "correct",
               Commit(c, d, Corrected(call[c].read, p.record, p.text))
        PROVE  IInv'
    <3> DEFINE new == Corrected(decisions[d], p.record, p.text)
    <3>1. new \in Decision
      BY <1>0, <2>1, <2>3, ChangesTyped DEF ChangePayload
    <3>2. new.version = decisions[d].version + 1 /\ new.status = decisions[d].status
      BY DEF Corrected
    <3>3. Commit(c, d, new)
      BY <2>2, <2>3
    <3>4. AppliesTo(p, decisions[d], new)
      BY <2>2, <2>3 DEF AppliesTo
    <3> HIDE DEF new
    <3> QED BY <1>0, <2>1, <2>2, <2>3, <3>1, <3>2, <3>3, <3>4, CommitStep
  <2>4. ASSUME VersionHolds(d, call[c].read.version), Open(call[c].op),
               Commit(c, d, Confirmed(call[c].read))
        PROVE  IInv'
    <3> DEFINE new == Confirmed(decisions[d])
    <3>1. new \in Decision
      BY <1>0, <2>1, ChangesTyped
    <3>2. new.version = decisions[d].version + 1 /\ new.status = "confirmed"
      BY DEF Confirmed
    <3>3. Commit(c, d, new)
      BY <2>2, <2>4
    <3>4. AppliesTo(p, decisions[d], new)
      BY <1>0, <2>1, <2>2, <2>4, ConfirmedShowsTheSame DEF AppliesTo
    <3> HIDE DEF new
    <3> QED BY <1>0, <2>1, <2>2, <2>4, <3>1, <3>2, <3>3, <3>4, CommitStep
  <2> QED BY <1>1, <1>7, <2>3, <2>4 DEF Save, Ended
<1>8. ASSUME NEW c \in Callers, Acknowledge(c) PROVE IInv'
  <2>1. CASE Open(call[c].op)
    <3>1. /\ pc'[c] = "returned" /\ pc[c] = "acknowledging"
          /\ \A b \in Callers \ {c} : pc'[b] = pc[b] /\ call'[b] = call[b]
          /\ UNCHANGED <<decisions, effects>>
      BY <1>0, <1>8, <2>1 DEF Acknowledge
    <3>2. call[c].op \in OpIds /\ operations[call[c].op].status # "completed"
      BY <1>0, <1>8, <2>1, NoneAssumption DEF Acknowledge, Open, Arguments
    <3>3. /\ operations'[call[c].op] = [status |-> "completed", payload |-> call[c].payload,
                                        result |-> call[c].payload.decision]
          /\ \A op \in OpIds \ {call[c].op} : operations'[op] = operations[op]
      BY <1>0, <1>8, <2>1, <3>2, NoneAssumption DEF Acknowledge, Store
    <3>4. /\ call[c].payload.decision \in DecisionIds
          /\ decisions[call[c].payload.decision].status = "confirmed"
      BY <1>0, <3>1 DEF CallerInv, Settled, Arguments, Changes, ChangePayload
    <3>5. call[c].payload.kind = "confirm"
      BY <1>0, <3>1 DEF CallerInv, Settled
    <3>6. \A op \in OpIds : \/ operations'[op] = operations[op]
                            \/ operations[op].status # "completed" /\ OperationInv(op)'
      BY <3>1, <3>2, <3>3, <3>4, <3>5 DEF OperationInv
    <3>7. CallerInv(c)'
      BY <3>1 DEF CallerInv, Known, Snapshot, Settled, Replayed, Changes
    <3> QED BY <1>0, <3>1, <3>6, <3>7, QuietStep
  <2> QED BY <1>1, <1>8, <2>1 DEF Acknowledge, Ended
<1>9. ASSUME NEW c \in Callers, NEW d \in DecisionIds, BeginCheckIn(c, d) PROVE IInv'
  <2> DEFINE p == [NoPayload EXCEPT !.kind = "check_in", !.decision = d]
  <2>1. p.decision = d
    BY DEF NoPayload
  <2> HIDE DEF p
  <2>2. /\ call'[c].payload = p
        /\ \A b \in Callers \ {c} : pc'[b] = pc[b] /\ call'[b] = call[b]
        /\ UNCHANGED <<decisions, operations, effects>>
        /\ pc'[c] \in {"reviewing", "raised"}
        /\ pc'[c] = "reviewing" => decisions[d].status = "confirmed"
    BY <1>0, <1>9 DEF BeginCheckIn, Call, p
  <2>3. CallerInv(c)'
    BY <2>1, <2>2 DEF CallerInv, Known, Snapshot, Settled, Replayed, Changes
  <2> QED BY <1>0, <2>2, <2>3, QuietStep
<1>10. ASSUME NEW c \in Callers, SaveCheckIn(c) PROVE IInv'
  <2>1. /\ pc'[c] = "returned"
        /\ \A b \in Callers \ {c} : pc'[b] = pc[b] /\ call'[b] = call[b]
        /\ UNCHANGED <<decisions, operations, effects>>
    BY <1>0, <1>10 DEF SaveCheckIn
  <2>2. CallerInv(c)'
    BY <2>1 DEF CallerInv, Known, Snapshot, Settled, Replayed, Changes
  <2> QED BY <1>0, <2>1, <2>2, QuietStep
<1>11. ASSUME NEW c \in Callers, Crash(c) PROVE IInv'
  BY <1>1, <1>11 DEF Crash, Ended
<1>12. CASE UNCHANGED vars
  BY <1>0, <1>12 DEF vars, IInv, CallerInv, Known, Snapshot, Settled, Replayed, DecisionInv,
     OperationInv, OneEffectPerOperation, AppliesToWhatWasShown
<1>13. ASSUME NEW c \in Callers, Begin(c) PROVE IInv'
  <2>1. ASSUME NEW op \in OpIds \cup {None}, NEW text \in Texts, Lookup(c, op, ToStart(text))
        PROVE  IInv'
    <3>1. ToStart(text) \in StartPayload /\ ToStart(text) \notin ChangePayload
      BY <1>0, RequestTyped DEF StartPayload, ChangePayload
    <3> QED BY <1>2, <2>1, <3>1
  <2>2. ASSUME NEW op \in OpIds \cup {None}, NEW d \in DecisionIds, NEW v \in Revisions(d),
               decisions[d] # Absent,
               NEW r \in RecordIds, NEW text \in Texts, Lookup(c, op, ToCorrect(d, r, text, v))
        PROVE  IInv'
    <3>1. ToCorrect(d, r, text, v) \in ChangePayload
      BY <1>0, RequestTyped
    <3>2. ToCorrect(d, r, text, v).decision = d
      BY DEF ToCorrect
    <3> QED BY <1>2, <2>2, <3>1, <3>2
  <2>3. ASSUME NEW op \in OpIds \cup {None}, NEW d \in DecisionIds, NEW v \in Revisions(d),
               decisions[d] # Absent, Lookup(c, op, ToConfirm(d, v))
        PROVE  IInv'
    <3>1. ToConfirm(d, v) \in ChangePayload
      BY <1>0, RequestTyped
    <3>2. ToConfirm(d, v).decision = d
      BY DEF ToConfirm, NoPayload
    <3> QED BY <1>2, <2>3, <3>1, <3>2
  <2>4. CASE \E op \in OpIds \cup {None} : \E text \in Texts : Lookup(c, op, ToStart(text))
    BY <2>1, <2>4
  <2>5. CASE \E op \in OpIds \cup {None} : \E d \in DecisionIds : \E v \in Revisions(d) :
                /\ decisions[d] # Absent
                /\ \/ \E r \in RecordIds, text \in Texts : Lookup(c, op, ToCorrect(d, r, text, v))
                   \/ Lookup(c, op, ToConfirm(d, v))
    BY <2>2, <2>3, <2>5
  <2> QED BY <1>9, <1>13, <2>4, <2>5 DEF Begin
<1> QED BY <1>3, <1>4, <1>5, <1>6, <1>7, <1>8, <1>10, <1>11, <1>12, <1>13 DEF Next

\* IInv holds in every reachable state.
LEMMA Invariance == Spec => []IInv
BY InvInit, InvNext, PTL DEF Spec

-----------------------------------------------------------------------------
(* The safety properties.                                                  *)

\* An operation identifier changes one decision once, for any number of
\* retries and callers: the save and the completed operation are one
\* transaction, and a completed operation is never written again.
THEOREM OneEffectPerOperationCorrect == Spec => []OneEffectPerOperation
<1>1. IInv => OneEffectPerOperation
  BY DEF IInv
<1> QED BY Invariance, <1>1, PTL

\* A correction or a confirmation applies to the revision its caller was
\* shown, and what is confirmed reads as it was shown.
THEOREM AppliesToWhatWasShownCorrect == Spec => []AppliesToWhatWasShown
<1>1. IInv => AppliesToWhatWasShown
  BY DEF IInv
<1> QED BY Invariance, <1>1, PTL

\* A caller that finds the version it read finds the decision it read, so the
\* version check of save is enough.
THEOREM VersionIdentifiesContentCorrect == Spec => []VersionIdentifiesContent
<1>1. IInv => VersionIdentifiesContent
  BY DEF IInv, CallerInv, Snapshot, VersionIdentifiesContent
<1> QED BY Invariance, <1>1, PTL

\* A replay answers with the operation that made the requested change, or with
\* a decision that was confirmed before.
THEOREM ReplayIsFaithfulCorrect == Spec => []ReplayIsFaithful
<1>1. IInv => ReplayIsFaithful
  <2> SUFFICES ASSUME IInv, NEW c \in Callers, pc[c] = "replayed"
               PROVE  LET result == operations[call[c].op].result IN
                      \/ \E e \in effects : /\ e.op = call[c].op
                                            /\ e.payload = call[c].payload
                                            /\ e.decision = result
                      \/ /\ call[c].payload.kind = "confirm"
                         /\ call[c].payload.decision = result
                         /\ decisions[result].status = "confirmed"
    BY DEF ReplayIsFaithful
  <2>1. call[c].op \in OpIds
    BY DEF IInv, TypeInv, Arguments
  <2>2. /\ operations[call[c].op].status = "completed"
        /\ operations[call[c].op].payload = call[c].payload
    BY DEF IInv, CallerInv, Replayed
  <2>3. OperationInv(call[c].op)
    BY <2>1 DEF IInv
  <2> QED BY <2>2, <2>3 DEF OperationInv
<1> QED BY Invariance, <1>1, PTL

-----------------------------------------------------------------------------
(* The atomic operations.                                                  *)

\* The operations that are used up.
Used == {op \in OpIds : operations[op].status = "completed"}

\* Storing a completed operation uses its identifier up.
LEMMA StoreUses ==
    ASSUME TypeInv, NEW op \in OpIds \cup {None}, Open(op),
           NEW record, record.status = "completed", Store(op, record)
    PROVE  op \notin Used /\ Used' = Used \cup ({op} \ {None})
<1>1. operations \in [OpIds -> Operation] /\ None \notin OpIds
  BY NoneAssumption DEF TypeInv, TypeOK
<1>2. CASE op = None
  BY <1>1, <1>2 DEF Store, Used
<1>3. CASE op # None
  BY <1>1, <1>3 DEF Store, Used, Open
<1> QED BY <1>2, <1>3

\* The abstraction reads the decisions with the definitions of this module.
LEMMA SameDecisions ==
    /\ Atomic!Absent = Absent
    /\ Atomic!Drafts = Drafts
    /\ \A draft : Atomic!Proposed(draft) = Proposed(draft)
    /\ \A x, r, m : Atomic!Corrected(x, r, m) = Corrected(x, r, m)
    /\ \A x : Atomic!Confirmed(x) = Confirmed(x)
BY DEF Atomic!Absent, Absent, Atomic!Drafts, Drafts, Atomic!Proposed, Proposed,
   Atomic!Current, Current, Atomic!Corrected, Corrected, Atomic!Confirmed, Confirmed

\* A step that stores no decision, no completion and no check-in is a stutter.
Stutters == UNCHANGED <<decisions, checkIns, Used>>

\* Every step is a step of the atomic operations, or a stutter.
LEMMA StepsAtomically == IInv /\ [Next]_vars => Stutters \/ Atomic!Next
<1> SUFFICES ASSUME IInv, [Next]_vars PROVE Stutters \/ Atomic!Next
  OBVIOUS
<1>0. /\ TypeInv
      /\ decisions \in [DecisionIds -> Decision] /\ operations \in [OpIds -> Operation]
      /\ \A d \in DecisionIds : DecisionInv(d)
      /\ \A c \in Callers : Arguments(c) /\ CallerInv(c) /\ call[c].op \in OpIds \cup {None}
                             /\ call[c].draft \in Drafts
  BY DEF IInv, TypeInv, TypeOK, Call, Drafts
<1>1. ASSUME UNCHANGED <<decisions, operations, checkIns>> PROVE Stutters
  BY <1>1 DEF Stutters, Used
<1>2. ASSUME NEW c \in Callers, NEW d, NEW new, Commit(c, d, new), Open(call[c].op)
      PROVE  /\ decisions' = [decisions EXCEPT ![d] = new] /\ checkIns' = checkIns
             /\ call[c].op \notin Used /\ Used' = Used \cup ({call[c].op} \ {None})
  <2> DEFINE record == [status |-> "completed", payload |-> call[c].payload, result |-> d]
  <2>1. record.status = "completed" /\ Store(call[c].op, record)
    BY <1>2 DEF Commit
  <2> HIDE DEF record
  <2>2. call[c].op \notin Used /\ Used' = Used \cup ({call[c].op} \ {None})
    BY <1>0, <1>2, <2>1, StoreUses
  <2> QED BY <1>2, <2>2 DEF Commit
<1>3. ASSUME NEW c \in Callers, RecordFailure(c) PROVE Stutters
  <2>1. CASE Open(call[c].op)
    <3>1. call[c].op \in OpIds /\ call[c].op # None /\ operations[call[c].op].status # "completed"
      BY <1>0, <1>3, <2>1, NoneAssumption DEF RecordFailure, Open, Arguments
    <3>2. operations' = [operations EXCEPT ![call[c].op] =
             [status |-> "failed", payload |-> call[c].payload, result |-> None]]
      BY <1>3, <2>1, <3>1 DEF RecordFailure, Store
    <3>3. Used' = Used
      BY <1>0, <3>1, <3>2 DEF Used
    <3> QED BY <1>3, <2>1, <3>3 DEF RecordFailure, Stutters
  <2> QED BY <1>1, <1>3, <2>1 DEF RecordFailure, Stop
<1>4. ASSUME NEW c \in Callers, Create(c) PROVE Stutters \/ Atomic!Next
  <2>1. ASSUME NEW d \in DecisionIds, Open(call[c].op), decisions[d] = Absent,
               Commit(c, d, Proposed(call[c].draft))
        PROVE  Atomic!Next
    <3>1. PICK op \in OpIds \cup {None}, draft \in Drafts : op = call[c].op /\ draft = call[c].draft
      BY <1>0
    <3>2. Atomic!Start(d, draft, op)
      BY <1>2, <2>1, <3>1, SameDecisions DEF Atomic!Start, Atomic!Use, Used
    <3> QED BY <3>2, SameDecisions DEF Atomic!Next
  <2> QED BY <1>1, <1>4, <2>1 DEF Create, Stop
<1>5. ASSUME NEW c \in Callers, Save(c) PROVE Stutters \/ Atomic!Next
  <2>0. PICK p \in ChangePayload, op \in OpIds \cup {None} : p = call[c].payload /\ op = call[c].op
    BY <1>0, <1>5 DEF Save, Arguments, Changes
  <2>1. PICK d \in DecisionIds : d = p.decision
    BY DEF ChangePayload
  <2>2. ASSUME VersionHolds(d, call[c].read.version)
        PROVE  decisions[d] = call[c].read /\ decisions[d].status = "proposed"
    BY <1>0, <1>5, <2>0, <2>1, <2>2 DEF Save, CallerInv, Snapshot, VersionHolds
  <2>3. ASSUME VersionHolds(d, call[c].read.version), Open(call[c].op), p.kind = "correct",
               Commit(c, d, Corrected(call[c].read, p.record, p.text))
        PROVE  Atomic!Next
    <3>1. p.record \in RecordIds /\ p.text \in Texts
      BY <2>3 DEF ChangePayload
    <3>2. Atomic!Correct(d, p.record, p.text, op)
      BY <1>0, <1>2, <2>0, <2>2, <2>3, SameDecisions DEF Atomic!Correct, Atomic!Use, Used
    <3> QED BY <3>1, <3>2 DEF Atomic!Next
  <2>4. ASSUME VersionHolds(d, call[c].read.version), Open(call[c].op),
               Commit(c, d, Confirmed(call[c].read))
        PROVE  Atomic!Next
    <3>1. Atomic!Confirm(d, op)
      BY <1>0, <1>2, <2>0, <2>2, <2>4, SameDecisions DEF Atomic!Confirm, Atomic!Use, Used
    <3> QED BY <3>1 DEF Atomic!Next
  <2> QED BY <1>1, <1>5, <2>0, <2>1, <2>3, <2>4 DEF Save, Stop
<1>6. ASSUME NEW c \in Callers, Acknowledge(c) PROVE Stutters \/ Atomic!Next
  <2>1. CASE Open(call[c].op)
    <3>1. /\ call[c].op \in OpIds /\ call[c].op # None
          /\ call[c].payload.decision \in DecisionIds
          /\ decisions[call[c].payload.decision].status = "confirmed"
      BY <1>0, <1>6, NoneAssumption
         DEF Acknowledge, Arguments, Changes, ChangePayload, CallerInv, Settled
    <3>2. PICK op \in OpIds, d \in DecisionIds : op = call[c].op /\ d = call[c].payload.decision
      BY <3>1
    <3> DEFINE record == [status |-> "completed", payload |-> call[c].payload, result |-> d]
    <3>3. Store(op, record) /\ record.status = "completed" /\ UNCHANGED <<decisions, checkIns>>
      BY <1>6, <2>1, <3>2 DEF Acknowledge
    <3> HIDE DEF record
    <3>4. op \notin Used /\ Used' = Used \cup ({op} \ {None})
      BY <1>0, <2>1, <3>2, <3>3, StoreUses
    <3>5. Atomic!Acknowledge(d, op)
      BY <3>1, <3>2, <3>3, <3>4 DEF Atomic!Acknowledge, Atomic!Use, Used
    <3> QED BY <3>5 DEF Atomic!Next
  <2> QED BY <1>1, <1>6, <2>1 DEF Acknowledge, Stop
<1>7. ASSUME NEW c \in Callers, SaveCheckIn(c) PROVE Atomic!Next
  <2>1. PICK d \in DecisionIds : d = call[c].payload.decision
    BY <1>0, <1>7 DEF SaveCheckIn, Arguments
  <2>2. Atomic!Review(d)
    BY <1>7, <2>1 DEF SaveCheckIn, Atomic!Review
  <2> QED BY <2>2 DEF Atomic!Next
<1>8. ASSUME NEW c \in Callers, Begin(c) PROVE Stutters
  <2>1. \A op, p : Lookup(c, op, p) => Stutters
    BY <1>1 DEF Lookup
  <2>2. \A d : BeginCheckIn(c, d) => Stutters
    BY <1>1 DEF BeginCheckIn
  <2> QED BY <1>8, <2>1, <2>2 DEF Begin
<1>9. ASSUME NEW c \in Callers, AskProvider(c) \/ Read(c) \/ Crash(c) PROVE Stutters
  BY <1>1, <1>9 DEF AskProvider, Read, Crash, Stop
<1>10. CASE UNCHANGED vars
  BY <1>1, <1>10 DEF vars
<1> QED BY <1>3, <1>4, <1>5, <1>6, <1>7, <1>8, <1>9, <1>10 DEF Next

\* The operations, with their lookups, reads, saves and crashes interleaved in
\* any order, implement operations that act at once on the current decision:
\* no correction is lost, a confirmed decision is frozen, only a confirmed one
\* is reviewed, and an identifier is used once.
THEOREM ActsAtomicallyCorrect == Spec => ActsAtomically
<1>1. Init => Atomic!Init
  BY DEF Init, Atomic!Init, Absent, Atomic!Absent, NoOperation
<1>2. IInv /\ [Next]_vars =>
         [Atomic!Next]_<<decisions, {op \in OpIds : operations[op].status = "completed"}, checkIns>>
  BY StepsAtomically DEF Stutters, Used
<1> QED BY Invariance, <1>1, <1>2, PTL DEF Spec, ActsAtomically, Atomic!Spec


\* Operations are faithful as a whole: types, one effect per identifier, replays
\* that answer their own request, and versions that name one content.
THEOREM OperationsAreFaithfulCorrect == Spec => []OperationsAreFaithful
<1>1. TypeOK /\ OneEffectPerOperation /\ ReplayIsFaithful /\ VersionIdentifiesContent
        => OperationsAreFaithful
  BY DEF OperationsAreFaithful
<1> QED
  BY <1>1, TypeCorrect, OneEffectPerOperationCorrect, ReplayIsFaithfulCorrect,
     VersionIdentifiesContentCorrect, PTL
=============================================================================
