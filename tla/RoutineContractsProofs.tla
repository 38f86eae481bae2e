----------------------- MODULE RoutineContractsProofs -----------------------
(***************************************************************************)
(* Theorems about RoutineContracts: one contract of a routine is in force, *)
(* runs rest on confirmed contracts, an idempotency key names one run, and *)
(* a revision comes after contracts that were in force.  Only the last     *)
(* depends on the version numbers, which have an invariant of their own.   *)
(* No set of identifiers need be finite.                                   *)
(***************************************************************************)
EXTENDS RoutineContracts, ListFacts, TLAPS

-----------------------------------------------------------------------------
(* What the steps rely on.                                                 *)

ShapeOf(value) ==
    value \in [status : Statuses \cup {"absent"}, routine : Routines \cup {None},
               version : {value.version}, supersedes : Proposals \cup {None}]

Shape ==
    /\ DOMAIN proposals = Proposals
    /\ \A p \in Proposals :
          /\ ShapeOf(proposals[p])
          /\ proposals[p].status # "absent" => proposals[p].routine \in Routines
          /\ proposals[p].status = "absent" => proposals[p] = NoProposal
    /\ runs \in [Runs -> Run \cup {NoRun}]
    /\ pc \in [Callers -> Ended \cup {"idle", "looking", "storing"}]
    /\ call \in [Callers -> Call \cup {NoCall}]

\* A contract that was in force at one time.
WasConfirmed(p) == proposals[p].status \in {"confirmed", "superseded"}

\* A caller past its first check holds a contract that was confirmed.
CallersUnderContract ==
    \A c \in Callers :
        pc[c] \in {"looking", "storing"} => call[c] \in Call /\ WasConfirmed(call[c].contract)

CallersReturnTheirKey ==
    \A c \in Callers :
        pc[c] = "returned" =>
            /\ call[c] \in Call
            /\ call[c].returned \in Runs
            /\ runs[call[c].returned].key = call[c].key

KeysDiffer ==
    \A r, s \in Runs : runs[r] # NoRun /\ runs[r].key = runs[s].key => r = s

IInv ==
    /\ Shape
    /\ OneContractInForce
    /\ CallersUnderContract
    /\ RunsUnderContract
    /\ CallersReturnTheirKey
    /\ KeysDiffer

\* What a step does to a contract: its status goes forward only.
Forward ==
    \A p \in Proposals :
        /\ WasConfirmed(p) => proposals'[p].status \in {"confirmed", "superseded"}
        /\ proposals[p].status = "superseded" => proposals'[p] = proposals[p]

-----------------------------------------------------------------------------
(* The contracts.                                                          *)

LEMMA InitHolds == Init => IInv
BY NoneAssumption DEF Init, IInv, Shape, ShapeOf, Statuses, NoProposal, NoRun, NoCall,
   Run, Call, Ended, OneContractInForce, CallersUnderContract, RunsUnderContract,
   CallersReturnTheirKey, KeysDiffer

LEMMA InsertStep ==
    ASSUME IInv, NEW p \in Proposals, NEW routine \in Routines,
           NEW current \in Proposals \cup {None}, Insert(p, routine, current)
    PROVE  IInv' /\ Forward
<1> DEFINE new == [status |-> "proposed", routine |-> routine,
                   version |-> NextVersion(routine), supersedes |-> current]
<1>1. /\ proposals[p] = NoProposal
      /\ proposals' = [proposals EXCEPT ![p] = new]
      /\ UNCHANGED <<runs, pc, call>>
  BY DEF Insert
<1> HIDE DEF new
<1>2. /\ ShapeOf(new) /\ new.status = "proposed" /\ new.routine \in Routines
  BY DEF new, ShapeOf, Statuses
<1>3. \A q \in Proposals : proposals'[q] = IF q = p THEN new ELSE proposals[q]
  BY <1>1 DEF IInv, Shape
<1>4. proposals[p].status = "absent"
  BY <1>1 DEF NoProposal
<1>5. Forward
  BY <1>2, <1>3, <1>4 DEF Forward, WasConfirmed
<1>6. DOMAIN proposals' = Proposals
  BY <1>1 DEF IInv, Shape
<1>7. Shape'
  BY <1>1, <1>2, <1>3, <1>6 DEF IInv, Shape, ShapeOf
<1>8. OneContractInForce'
  BY <1>2, <1>3 DEF IInv, OneContractInForce
<1>9. CallersUnderContract' /\ RunsUnderContract'
  BY <1>1, <1>5 DEF IInv, Shape, CallersUnderContract, RunsUnderContract, Forward,
     WasConfirmed, Call, Run, NoRun
<1>10. CallersReturnTheirKey' /\ KeysDiffer'
  BY <1>1 DEF IInv, CallersReturnTheirKey, KeysDiffer
<1> QED
  BY <1>5, <1>7, <1>8, <1>9, <1>10 DEF IInv

LEMMA ConfirmStep ==
    ASSUME IInv, NEW p \in Proposals, Confirm(p)
    PROVE  IInv' /\ Forward
<1>1. /\ proposals[p].status = "proposed"
      /\ proposals' = [q \in Proposals |->
            IF q = p THEN [proposals[q] EXCEPT !.status = "confirmed"]
            ELSE IF q \in GivingWay(p) THEN [proposals[q] EXCEPT !.status = "superseded"]
            ELSE proposals[q]]
      /\ UNCHANGED <<runs, pc, call>>
  BY DEF Confirm, Confirmable
<1>2. \A q \in Proposals :
          /\ ShapeOf(proposals'[q])
          /\ proposals'[q].routine = proposals[q].routine
          /\ proposals'[q].status = IF q = p THEN "confirmed"
                                    ELSE IF q \in GivingWay(p) THEN "superseded"
                                    ELSE proposals[q].status
  BY <1>1 DEF IInv, Shape, ShapeOf, Statuses
<1>3. \A q \in Proposals : q \in GivingWay(p) => proposals[q].status = "confirmed"
  BY DEF GivingWay
<1>4. \A q \in Proposals : q # p /\ q \notin GivingWay(p) => proposals'[q] = proposals[q]
  BY <1>1
<1>5. Forward
  BY <1>1, <1>2, <1>3, <1>4 DEF Forward, WasConfirmed
<1>6. Shape'
  <2>1. DOMAIN proposals' = Proposals
    BY <1>1
  <2>2. \A q \in Proposals :
            /\ proposals'[q].status # "absent" => proposals'[q].routine \in Routines
            /\ proposals'[q].status = "absent" => proposals'[q] = NoProposal
    BY <1>1, <1>2, <1>3, <1>4 DEF IInv, Shape
  <2> QED
    BY <1>1, <1>2, <2>1, <2>2 DEF IInv, Shape
<1>7. OneContractInForce'
  BY <1>1, <1>2 DEF IInv, Shape, OneContractInForce, GivingWay
<1>8. CallersUnderContract' /\ RunsUnderContract'
  BY <1>1, <1>5 DEF IInv, Shape, CallersUnderContract, RunsUnderContract, Forward,
     WasConfirmed, Call, Run, NoRun
<1>9. CallersReturnTheirKey' /\ KeysDiffer'
  BY <1>1 DEF IInv, CallersReturnTheirKey, KeysDiffer
<1> QED
  BY <1>5, <1>6, <1>7, <1>8, <1>9 DEF IInv
-----------------------------------------------------------------------------
(* start_run.                                                              *)

LEMMA BeginStartStep ==
    ASSUME IInv, NEW c \in Callers, NEW r \in Runs, NEW p \in Proposals, NEW k \in Keys,
           BeginStart(c, r, p, k)
    PROVE  IInv' /\ Forward
<1> DEFINE mine == [run |-> r, key |-> k, contract |-> p, returned |-> None]
<1>1. /\ call' = [call EXCEPT ![c] = mine]
      /\ UNCHANGED <<proposals, runs>>
      /\ \/ pc' = [pc EXCEPT ![c] = "looking"] /\ proposals[p].status = "confirmed"
         \/ pc' = [pc EXCEPT ![c] = "refused"]
  BY DEF BeginStart, Goto, MayStart
<1>2. mine \in Call /\ mine.contract = p
  BY DEF Call
<1> HIDE DEF mine
<1>3. Shape'
  BY <1>1, <1>2 DEF IInv, Shape, Ended
<1>4. CallersUnderContract'
  BY <1>1, <1>2 DEF IInv, Shape, CallersUnderContract, WasConfirmed
<1>5. CallersReturnTheirKey'
  BY <1>1 DEF IInv, Shape, CallersReturnTheirKey
<1>6. Forward
  BY <1>1 DEF Forward, WasConfirmed
<1> QED
  BY <1>1, <1>3, <1>4, <1>5, <1>6 DEF IInv, OneContractInForce, RunsUnderContract, KeysDiffer

\* A call returns a run that has its key.
LEMMA ReturnStep ==
    ASSUME IInv, NEW c \in Callers, pc[c] \in {"looking", "storing"},
           NEW r \in WithKey(call[c].key), Return(c, r), UNCHANGED <<proposals, runs>>
    PROVE  IInv' /\ Forward
<1>1. call[c] \in Call /\ r \in Runs /\ runs[r].key = call[c].key
  BY DEF IInv, CallersUnderContract, WithKey
<1>2. /\ call' = [call EXCEPT ![c] = [call[c] EXCEPT !.returned = r]]
      /\ pc' = [pc EXCEPT ![c] = "returned"]
  BY DEF Return, Goto, IInv, Shape
<1>3. /\ call'[c] \in Call
      /\ call'[c].returned = r
      /\ call'[c].key = call[c].key
      /\ \A d \in Callers \ {c} : call'[d] = call[d]
      /\ call' \in [Callers -> Call \cup {NoCall}]
  BY <1>1, <1>2 DEF IInv, Shape, Call
<1>4. Shape'
  BY <1>2, <1>3 DEF IInv, Shape, Ended
<1>5. CallersUnderContract'
  BY <1>2, <1>3 DEF IInv, Shape, CallersUnderContract, WasConfirmed
<1>6. CallersReturnTheirKey'
  BY <1>1, <1>2, <1>3 DEF IInv, Shape, CallersReturnTheirKey
<1>7. Forward
  BY DEF Forward, WasConfirmed
<1> QED
  BY <1>4, <1>5, <1>6, <1>7 DEF IInv, OneContractInForce, RunsUnderContract, KeysDiffer

\* A call that only moves on, and ends or goes to its last transaction.
LEMMA MoveOn ==
    ASSUME IInv, NEW c \in Callers, pc[c] \in {"looking", "storing"},
           NEW label \in {"storing", "refused", "raised", "crashed"},
           Goto(c, label), UNCHANGED <<proposals, runs, call>>
    PROVE  IInv' /\ Forward
<1>1. pc' = [pc EXCEPT ![c] = label]
  BY DEF Goto
<1>2. Shape' /\ CallersUnderContract' /\ CallersReturnTheirKey'
  BY <1>1 DEF IInv, Shape, CallersUnderContract, CallersReturnTheirKey, Ended, WasConfirmed
<1> QED
  BY <1>2 DEF IInv, OneContractInForce, RunsUnderContract, KeysDiffer, Forward, WasConfirmed

\* The new run: nobody has its key, so keys still differ.
LEMMA NewRunStep ==
    ASSUME IInv, NEW c \in Callers, pc[c] = "storing",
           WithKey(call[c].key) = {}, runs[call[c].run] = NoRun,
           runs' = [runs EXCEPT ![call[c].run] =
                       [key |-> call[c].key, contract |-> call[c].contract]],
           Return(c, call[c].run), UNCHANGED proposals
    PROVE  IInv' /\ Forward
<1> DEFINE mine == call[c]
           new == [key |-> mine.key, contract |-> mine.contract]
<1>1. mine \in Call /\ WasConfirmed(mine.contract)
  BY DEF IInv, CallersUnderContract
<1>2. new \in Run /\ new # NoRun /\ new.key = mine.key /\ new.contract = mine.contract
  BY <1>1, NoneAssumption DEF Call, Run, NoRun
<1>3. \A r \in Runs : runs'[r] = IF r = mine.run THEN new ELSE runs[r]
  BY <1>1 DEF IInv, Shape
<1>4. runs' \in [Runs -> Run \cup {NoRun}] /\ mine.run \in Runs
  BY <1>1, <1>2 DEF IInv, Shape, Call
<1>5. /\ call' = [call EXCEPT ![c] = [mine EXCEPT !.returned = mine.run]]
      /\ pc' = [pc EXCEPT ![c] = "returned"]
  BY DEF Return, Goto, IInv, Shape
<1>6. /\ call'[c] \in Call
      /\ call'[c].returned = mine.run
      /\ call'[c].key = mine.key
      /\ \A d \in Callers \ {c} : call'[d] = call[d]
      /\ call' \in [Callers -> Call \cup {NoCall}]
  BY <1>1, <1>5 DEF IInv, Shape, Call
<1>7. \A r \in Runs : runs[r].key # mine.key
  BY DEF WithKey
<1>8. Shape'
  BY <1>4, <1>5, <1>6 DEF IInv, Shape, Ended
<1>9. CallersUnderContract'
  BY <1>5, <1>6 DEF IInv, Shape, CallersUnderContract, WasConfirmed
<1>10. RunsUnderContract'
  BY <1>1, <1>2, <1>3 DEF IInv, RunsUnderContract, WasConfirmed
<1> HIDE DEF mine, new
<1>11. KeysDiffer'
  BY <1>2, <1>3, <1>7 DEF IInv, KeysDiffer
<1>12. CallersReturnTheirKey'
  <2> SUFFICES ASSUME NEW d \in Callers, pc'[d] = "returned"
               PROVE  /\ call'[d] \in Call
                      /\ call'[d].returned \in Runs
                      /\ runs'[call'[d].returned].key = call'[d].key
    BY DEF CallersReturnTheirKey
  <2>1. CASE d = c
    BY <2>1, <1>2, <1>3, <1>4, <1>6
  <2>2. CASE d # c
    <3>1. /\ call[d] \in Call /\ call'[d] = call[d]
          /\ call[d].returned \in Runs
          /\ runs[call[d].returned].key = call[d].key
      BY <2>2, <1>5, <1>6 DEF IInv, Shape, CallersReturnTheirKey
    <3>2. call[d].returned # mine.run
      BY <3>1, NoneAssumption DEF mine, NoRun, Call
    <3> QED
      BY <3>1, <3>2, <1>3
  <2> QED
    BY <2>1, <2>2
<1>13. Forward /\ OneContractInForce'
  BY DEF IInv, OneContractInForce, Forward, WasConfirmed
<1> QED
  BY <1>8, <1>9, <1>10, <1>11, <1>12, <1>13 DEF IInv

-----------------------------------------------------------------------------
(* The versions of a routine.                                              *)

\* Versions are bounded at any time, so a routine has a highest one, whatever
\* the identifiers of its contracts are.
VersionsBounded ==
    /\ \A p \in Proposals : proposals[p].version \in Nat
    /\ \A p \in Proposals : proposals[p].status # "absent" => proposals[p].version # 0
    /\ \E bound \in Nat : \A p \in Proposals : proposals[p].version <= bound

Rows == proposals = [p \in Proposals |-> proposals[p]]

VersionInv == Rows /\ VersionsBounded /\ RevisesWhatWasInForce

\* The next version of a routine is above all it has.
LEMMA NextVersionAbove ==
    ASSUME VersionsBounded, NEW routine
    PROVE  /\ NextVersion(routine) \in Nat \ {0}
           /\ \A p \in Proposals : proposals[p].routine = routine =>
                 proposals[p].version < NextVersion(routine)
<1> DEFINE S == Versions(routine) \cup {0}
<1>1. PICK bound \in Nat : \A p \in Proposals : proposals[p].version <= bound
  BY DEF VersionsBounded
<1>2. S \subseteq 0..bound /\ S # {}
  <2>1. \A p \in Proposals : proposals[p].version \in 0..bound
    BY <1>1 DEF VersionsBounded
  <2> QED BY <2>1 DEF Versions
<1>3. \A p \in Proposals : proposals[p].routine = routine => proposals[p].version \in S
  BY DEF Versions
<1> HIDE DEF S
<1>4. PICK m \in S : \A n \in S : n <= m
  BY <1>2, Greatest
<1>5. \A n \in S : n \in Nat
  BY <1>2
<1>6. Max(S) \in S /\ \A n \in S : Max(S) >= n
  <2>1. m \in S /\ \A n \in S : m >= n
    BY <1>4, <1>5
  <2> QED BY <2>1 DEF Max
<1>7. NextVersion(routine) = Max(S) + 1
  BY DEF NextVersion, S
<1> QED BY <1>3, <1>5, <1>6, <1>7

LEMMA VersionsInsert ==
    ASSUME IInv, VersionInv, NEW p \in Proposals, NEW routine,
           NEW current \in Proposals \cup {None}, Insert(p, routine, current),
           current # None => /\ current \in Proposals
                             /\ proposals[current].status = "confirmed"
                             /\ proposals[current].routine = routine
    PROVE  VersionInv'
<1> DEFINE version == NextVersion(routine)
           new == [status |-> "proposed", routine |-> routine,
                   version |-> version, supersedes |-> current]
<1>1. /\ proposals[p] = NoProposal
      /\ proposals' = [proposals EXCEPT ![p] = new]
  BY DEF Insert
<1>2. /\ version \in Nat \ {0}
      /\ \A q \in Proposals : proposals[q].routine = routine => proposals[q].version < version
  BY NextVersionAbove DEF VersionInv
<1> HIDE DEF version
<1>3. /\ new.version = version /\ new.routine = routine /\ new.supersedes = current
      /\ new.status = "proposed"
  OBVIOUS
<1> HIDE DEF new
<1>4. proposals'[p] = new /\ \A q \in Proposals \ {p} : proposals'[q] = proposals[q]
  BY <1>1 DEF IInv, Shape
<1>5. proposals[p].status = "absent"
  BY <1>1 DEF NoProposal
<1>6. VersionsBounded'
  <2>1. PICK bound \in Nat : \A q \in Proposals : proposals[q].version <= bound
    BY DEF VersionInv, VersionsBounded
  <2>2. \A q \in Proposals : proposals[q].version \in Nat
    BY DEF VersionInv, VersionsBounded
  <2>3. \A q \in Proposals : proposals'[q].version <= bound + version
    BY <1>2, <1>3, <1>4, <2>1, <2>2
  <2>4. bound + version \in Nat
    BY <1>2
  <2> QED BY <1>2, <1>3, <1>4, <2>3, <2>4 DEF VersionInv, VersionsBounded
<1>7. RevisesWhatWasInForce'
  <2> SUFFICES ASSUME NEW q \in Proposals, proposals'[q].supersedes # None
               PROVE  LET previous == proposals'[proposals'[q].supersedes] IN
                      /\ previous.status \in {"confirmed", "superseded"}
                      /\ previous.routine = proposals'[q].routine
                      /\ previous.version < proposals'[q].version
    BY DEF RevisesWhatWasInForce
  <2>1. CASE q = p
    <3>1. proposals'[q] = new /\ current \in Proposals \ {p}
      BY <1>3, <1>4, <1>5, <2>1
    <3> QED BY <1>2, <1>3, <1>4, <3>1
  <2>2. CASE q # p
    <3>1. proposals'[q] = proposals[q] /\ ShapeOf(proposals[q])
      BY <1>4, <2>2 DEF IInv, Shape
    <3>2. proposals[q].supersedes \in Proposals
      BY <3>1 DEF ShapeOf
    <3>3. /\ proposals[proposals[q].supersedes].status \in {"confirmed", "superseded"}
          /\ proposals[proposals[q].supersedes].routine = proposals[q].routine
          /\ proposals[proposals[q].supersedes].version < proposals[q].version
      BY <3>1 DEF VersionInv, RevisesWhatWasInForce
    <3>4. proposals[q].supersedes # p
      BY <1>5, <3>3
    <3> QED BY <1>4, <3>1, <3>2, <3>3, <3>4
  <2> QED BY <2>1, <2>2
<1>8. Rows'
  BY <1>1 DEF IInv, Shape, Rows
<1> QED BY <1>6, <1>7, <1>8 DEF VersionInv

LEMMA VersionsConfirm ==
    ASSUME IInv, VersionInv, NEW p \in Proposals, Confirm(p)
    PROVE  VersionInv'
<1>1. \A q \in Proposals :
         /\ proposals'[q].version = proposals[q].version
         /\ proposals'[q].routine = proposals[q].routine
         /\ proposals'[q].supersedes = proposals[q].supersedes
  BY DEF Confirm, IInv, Shape, ShapeOf
<1>2. Forward
  BY ConfirmStep
<1>3. \A q \in Proposals : proposals'[q].status # "absent" => proposals[q].status # "absent"
  <2>1. \A q \in Proposals : q = p \/ q \in GivingWay(p) \/ proposals'[q] = proposals[q]
    BY DEF Confirm
  <2> QED BY <2>1 DEF Confirm, Confirmable, GivingWay
<1>4. VersionsBounded'
  BY <1>1, <1>3 DEF VersionInv, VersionsBounded
<1>5. RevisesWhatWasInForce'
  <2> SUFFICES ASSUME NEW q \in Proposals, proposals'[q].supersedes # None
               PROVE  LET previous == proposals'[proposals'[q].supersedes] IN
                      /\ previous.status \in {"confirmed", "superseded"}
                      /\ previous.routine = proposals'[q].routine
                      /\ previous.version < proposals'[q].version
    BY DEF RevisesWhatWasInForce
  <2>1. proposals[q].supersedes # None /\ proposals[q].supersedes \in Proposals
    BY <1>1 DEF IInv, Shape, ShapeOf
  <2>2. PICK s \in Proposals : s = proposals[q].supersedes
    BY <2>1
  <2>3. /\ proposals[s].status \in {"confirmed", "superseded"}
        /\ proposals[s].routine = proposals[q].routine
        /\ proposals[s].version < proposals[q].version
    BY <2>1, <2>2 DEF VersionInv, RevisesWhatWasInForce
  <2>4. proposals'[s].status \in {"confirmed", "superseded"}
    BY <1>2, <2>3 DEF Forward, WasConfirmed
  <2> QED BY <1>1, <2>2, <2>3, <2>4
<1>6. Rows'
  BY DEF Confirm, Rows
<1> QED BY <1>4, <1>5, <1>6 DEF VersionInv

LEMMA VersionsStep ==
    ASSUME IInv, VersionInv, [Next]_vars
    PROVE  VersionInv'
<1>1. CASE UNCHANGED proposals
  BY <1>1 DEF VersionInv, Rows, VersionsBounded, RevisesWhatWasInForce
<1>2. ASSUME NEW p \in Proposals, NEW routine \in Routines, Propose(p, routine)
      PROVE  VersionInv'
  BY <1>2, VersionsInsert DEF Propose
<1>3. ASSUME NEW p \in Proposals, NEW current \in Proposals, Revise(p, current)
      PROVE  VersionInv'
  <2>1. /\ proposals[current].status = "confirmed"
        /\ Insert(p, proposals[current].routine, current)
    BY <1>3 DEF Revise, Revisable
  <2> QED BY <2>1, VersionsInsert
<1>4. ASSUME NEW p \in Proposals, Confirm(p) PROVE VersionInv'
  BY <1>4, VersionsConfirm
<1>5. \/ UNCHANGED proposals
      \/ \E p \in Proposals :
            \/ \E routine \in Routines : Propose(p, routine)
            \/ \E current \in Proposals : Revise(p, current)
            \/ Confirm(p)
  BY DEF Next, vars, BeginStart, FindByKey, StoreRun, Crash
<1> QED BY <1>1, <1>2, <1>3, <1>4, <1>5

-----------------------------------------------------------------------------
(* The theorems.                                                           *)

LEMMA NextStep ==
    ASSUME IInv, [Next]_vars
    PROVE  IInv' /\ Forward
<1>1. ASSUME NEW p \in Proposals, NEW routine \in Routines, Propose(p, routine)
      PROVE  IInv' /\ Forward
  BY <1>1, InsertStep DEF Propose
<1>2. ASSUME NEW p \in Proposals, NEW current \in Proposals, Revise(p, current)
      PROVE  IInv' /\ Forward
  <2>1. proposals[current].routine \in Routines
    BY <1>2 DEF Revise, Revisable, IInv, Shape
  <2> QED
    BY <1>2, <2>1, InsertStep DEF Revise
<1>3. ASSUME NEW p \in Proposals, Confirm(p)
      PROVE  IInv' /\ Forward
  BY <1>3, ConfirmStep
<1>4. ASSUME NEW c \in Callers, NEW r \in Runs, NEW p \in Proposals, NEW k \in Keys,
             BeginStart(c, r, p, k)
      PROVE  IInv' /\ Forward
  BY <1>4, BeginStartStep
<1>5. ASSUME NEW c \in Callers, FindByKey(c)
      PROVE  IInv' /\ Forward
  <2>1. CASE \E r \in WithKey(call[c].key) : Return(c, r)
    BY <1>5, <2>1, ReturnStep DEF FindByKey
  <2>2. CASE UNCHANGED call /\ (Goto(c, "storing") \/ Goto(c, "refused"))
    BY <1>5, <2>2, MoveOn DEF FindByKey
  <2> QED
    BY <1>5, <2>1, <2>2 DEF FindByKey
<1>6. ASSUME NEW c \in Callers, StoreRun(c)
      PROVE  IInv' /\ Forward
  <2>1. CASE \E r \in WithKey(call[c].key) : Return(c, r) /\ UNCHANGED runs
    BY <1>6, <2>1, ReturnStep DEF StoreRun
  <2>2. CASE Goto(c, "raised") /\ UNCHANGED <<runs, call>>
    BY <1>6, <2>2, MoveOn DEF StoreRun
  <2>3. CASE /\ WithKey(call[c].key) = {}
             /\ runs[call[c].run] = NoRun
             /\ runs' = [runs EXCEPT ![call[c].run] =
                            [key |-> call[c].key, contract |-> call[c].contract]]
             /\ Return(c, call[c].run)
    BY <1>6, <2>3, NewRunStep DEF StoreRun
  <2> QED
    BY <1>6, <2>1, <2>2, <2>3 DEF StoreRun
<1>7. ASSUME NEW c \in Callers, Crash(c)
      PROVE  IInv' /\ Forward
  BY <1>7, MoveOn DEF Crash
<1>8. CASE UNCHANGED vars
  BY <1>8 DEF vars, IInv, Shape, OneContractInForce, CallersUnderContract, RunsUnderContract,
     CallersReturnTheirKey, KeysDiffer, Forward, WasConfirmed
<1> QED
  BY <1>1, <1>2, <1>3, <1>4, <1>5, <1>6, <1>7, <1>8 DEF Next

THEOREM Invariance == Spec => []IInv
<1>1. Init => IInv
  BY InitHolds
<1>2. IInv /\ [Next]_vars => IInv'
  BY NextStep
<1> QED
  BY <1>1, <1>2, PTL DEF Spec

\* At most one contract of a routine is in force, in whatever order the
\* revisions of it are written and confirmed.
THEOREM OneContractInForceCorrect == Spec => []OneContractInForce
<1>1. IInv => OneContractInForce
  BY DEF IInv
<1> QED
  BY <1>1, Invariance, PTL

\* Every run rests on a contract that was confirmed, though start_run checks
\* the contract in an earlier transaction than it stores the run in.
THEOREM RunsUnderContractCorrect == Spec => []RunsUnderContract
<1>1. IInv => RunsUnderContract
  BY DEF IInv
<1> QED
  BY <1>1, Invariance, PTL

\* An idempotency key names one run, and start_run returns that one.
THEOREM OneRunPerKeyCorrect == Spec => []OneRunPerKey
<1>1. IInv => OneRunPerKey
  BY DEF IInv, KeysDiffer, CallersReturnTheirKey, OneRunPerKey
<1> QED
  BY <1>1, Invariance, PTL

\* A contract that gave way never comes back into force.
THEOREM SupersededForGoodCorrect == Spec => SupersededForGood
<1>1. IInv /\ [Next]_vars =>
          [\A p \in Proposals :
              proposals[p].status = "superseded" => proposals'[p] = proposals[p]]_vars
  BY NextStep DEF Forward
<1> QED
  BY <1>1, Invariance, PTL DEF Spec, SupersededForGood

\* One contract of a routine is in force, and what gave way never returns.
THEOREM ContractsGiveWayCorrect == Spec => ContractsGiveWay
BY OneContractInForceCorrect, SupersededForGoodCorrect, PTL DEF ContractsGiveWay

\* Runs rest on confirmed contracts and a trigger has one run.
THEOREM RunsAreSoundCorrect == Spec => []RunsAreSound
<1>1. RunsUnderContract /\ OneRunPerKey => RunsAreSound
  BY DEF RunsAreSound
<1> QED
  BY <1>1, RunsUnderContractCorrect, OneRunPerKeyCorrect, PTL

\* Every contract is well formed, and the contracts that a revision goes back
\* to were in force, though others revise and confirm at the same time
\* (revise_proposal and _insert_proposal).
THEOREM RevisionsAreSoundCorrect == Spec => []RevisionsAreSound
<1>1. Init => VersionInv
  BY DEF Init, VersionInv, Rows, VersionsBounded, RevisesWhatWasInForce, NoProposal
<1>2. IInv /\ VersionInv /\ [Next]_vars => VersionInv'
  BY VersionsStep
<1>3. IInv /\ VersionInv => RevisionsAreSound
  <2> SUFFICES ASSUME IInv, VersionInv PROVE TypeOK
    BY DEF VersionInv, RevisionsAreSound
  <2>1. ASSUME NEW p \in Proposals PROVE proposals[p] \in Proposal \cup {NoProposal}
    <3>1. /\ ShapeOf(proposals[p]) /\ proposals[p].version \in Nat
          /\ proposals[p].status # "absent" => /\ proposals[p].routine \in Routines
                                               /\ proposals[p].version # 0
          /\ proposals[p].status = "absent" => proposals[p] = NoProposal
      BY DEF IInv, Shape, VersionInv, VersionsBounded
    <3> QED BY <3>1 DEF ShapeOf, Proposal, Statuses
  <2>2. proposals \in [Proposals -> Proposal \cup {NoProposal}]
    <3>1. proposals = [p \in Proposals |-> proposals[p]]
      BY DEF VersionInv, Rows
    <3> QED BY <2>1, <3>1
  <2> QED BY <2>2 DEF IInv, Shape, TypeOK
<1> QED BY <1>1, <1>2, <1>3, Invariance, PTL DEF Spec
=============================================================================
