-------------------------- MODULE RoutineContracts --------------------------
(***************************************************************************)
(* Routine contracts and the runs started under them: RoutineService       *)
(* (automation.py) over the proposal and run rows of                       *)
(* SQLiteAutomationRepository (automation_store.py).                       *)
(*                                                                         *)
(* Proposing, revising and confirming a contract are one transaction each. *)
(* start_run is three: it reads the contract, looks for a run with its     *)
(* idempotency key, and stores the run; contracts change and other callers *)
(* start runs in between.  What a contract says never changes and is left  *)
(* out; what a run does is in RoutineRuns.                                 *)
(***************************************************************************)
EXTENDS Integers, FiniteSetsExt

CONSTANTS
    Proposals,  \* proposal identifiers
    Routines,   \* routine identifiers
    Runs,       \* run identifiers
    Keys,       \* idempotency keys
    Callers,    \* calls of start_run
    None

ASSUME NoneAssumption == None \notin Proposals \cup Routines \cup Runs \cup Keys

VARIABLES
    proposals,  \* routine_proposals
    runs,       \* routine_runs: the run and the contract it is for
    pc,         \* where each call of start_run is
    call        \* its arguments, and the run it returned

vars == <<proposals, runs, pc, call>>

-----------------------------------------------------------------------------
Statuses == {"proposed", "confirmed", "superseded"}
Proposal == [status : Statuses, routine : Routines, version : Nat \ {0},
             supersedes : Proposals \cup {None}]
NoProposal == [status |-> "absent", routine |-> None, version |-> 0, supersedes |-> None]

Run == [key : Keys, contract : Proposals]
NoRun == [key |-> None, contract |-> None]

Call == [run : Runs, key : Keys, contract : Proposals, returned : Runs \cup {None}]
NoCall == [run |-> None, key |-> None, contract |-> None, returned |-> None]
Ended == {"returned", "refused", "raised", "crashed"}

Init ==
    /\ proposals = [p \in Proposals |-> NoProposal]
    /\ runs = [r \in Runs |-> NoRun]
    /\ pc = [c \in Callers |-> "idle"]
    /\ call = [c \in Callers |-> NoCall]

Goto(c, label) == pc' = [pc EXCEPT ![c] = label]

-----------------------------------------------------------------------------
(* Contracts.                                                              *)

Versions(routine) ==
    {proposals[p].version : p \in {q \in Proposals : proposals[q].routine = routine}}

VersionFromZero(routine) ==     \* mutant: the first version is 0
    Max(Versions(routine) \cup {-1}) + 1

\* One more than the highest version of the routine, whichever is revised.
NextVersion(routine) == Max(Versions(routine) \cup {0}) + 1

\* _insert_proposal: an identifier or a version that is taken raises.
Insert(p, routine, current) ==
    /\ proposals[p] = NoProposal
    /\ NextVersion(routine) \notin Versions(routine)
    /\ proposals' = [proposals EXCEPT ![p] =
          [status |-> "proposed", routine |-> routine,
           version |-> NextVersion(routine), supersedes |-> current]]
    /\ UNCHANGED <<runs, pc, call>>

Propose(p, routine) == Insert(p, routine, None)

RevisableUnconfirmed(p) ==      \* mutant: a draft can be revised
    proposals[p].status \in {"proposed", "confirmed"}

Revisable(p) == proposals[p].status = "confirmed"

\* Only a confirmed contract can be revised; several revisions may wait.
Revise(p, current) ==
    /\ Revisable(current)
    /\ Insert(p, proposals[current].routine, current)

ConfirmableAgain(p) ==      \* mutant: the status is not checked
    proposals[p] # NoProposal

Confirmable(p) == proposals[p].status = "proposed"

OnlyRevised(p) ==           \* mutant: only the revised contract gives way
    {proposals[p].supersedes} \ {None}

\* The confirmed contracts that give way: the one it revises and any other of
\* its routine.
GivingWay(p) ==
    {q \in Proposals \ {p} :
        /\ proposals[q].status = "confirmed"
        /\ q = proposals[p].supersedes \/ proposals[q].routine = proposals[p].routine}

Confirm(p) ==
    /\ Confirmable(p)
    /\ proposals' = [q \in Proposals |->
          IF q = p THEN [proposals[q] EXCEPT !.status = "confirmed"]
          ELSE IF q \in GivingWay(p) THEN [proposals[q] EXCEPT !.status = "superseded"]
          ELSE proposals[q]]
    /\ UNCHANGED <<runs, pc, call>>

-----------------------------------------------------------------------------
(* start_run.                                                              *)

MayStartAny(p) == TRUE      \* mutant: the status is not checked

MayStart(p) == proposals[p].status = "confirmed"

\* get_proposal, and the checks of status and trigger.
BeginStart(c, r, p, k) ==
    /\ pc[c] = "idle"
    /\ proposals[p] # NoProposal
    /\ call' = [call EXCEPT ![c] = [run |-> r, key |-> k, contract |-> p, returned |-> None]]
    /\ \/ MayStart(p) /\ Goto(c, "looking")
       \/ Goto(c, "refused")
    /\ UNCHANGED <<proposals, runs>>

NoneWithKey(k) == {}        \* mutant: the key is not looked up

WithKey(k) == {r \in Runs : runs[r].key = k}

Return(c, r) ==
    /\ call' = [call EXCEPT ![c].returned = r]
    /\ Goto(c, "returned")

\* find_run_by_key, and the checks of the steps against the contract.
FindByKey(c) ==
    /\ pc[c] = "looking"
    /\ \/ \E r \in WithKey(call[c].key) : Return(c, r)
       \/ WithKey(call[c].key) = {} /\ Goto(c, "storing") /\ UNCHANGED call
       \/ WithKey(call[c].key) = {} /\ Goto(c, "refused") /\ UNCHANGED call
    /\ UNCHANGED <<proposals, runs>>

\* The transaction of start_run: a run with the key is returned, one with the
\* identifier and another key raises.
StoreRun(c) ==
    LET mine == call[c] IN
    /\ pc[c] = "storing"
    /\ \/ \E r \in WithKey(mine.key) : Return(c, r) /\ UNCHANGED runs
       \/ /\ WithKey(mine.key) = {}
          /\ runs[mine.run] # NoRun
          /\ Goto(c, "raised")
          /\ UNCHANGED <<runs, call>>
       \/ /\ WithKey(mine.key) = {}
          /\ runs[mine.run] = NoRun
          /\ runs' = [runs EXCEPT ![mine.run] = [key |-> mine.key, contract |-> mine.contract]]
          /\ Return(c, mine.run)
    /\ UNCHANGED proposals

Crash(c) ==
    /\ pc[c] \in {"looking", "storing"}
    /\ Goto(c, "crashed")
    /\ UNCHANGED <<proposals, runs, call>>

Next ==
    \/ \E p \in Proposals :
          \/ \E routine \in Routines : Propose(p, routine)
          \/ \E current \in Proposals : Revise(p, current)
          \/ Confirm(p)
    \/ \E c \in Callers :
          \/ \E r \in Runs, p \in Proposals, k \in Keys : BeginStart(c, r, p, k)
          \/ FindByKey(c)
          \/ StoreRun(c)
          \/ Crash(c)

Spec == Init /\ [][Next]_vars

-----------------------------------------------------------------------------
(* Properties.                                                             *)

TypeOK ==
    /\ proposals \in [Proposals -> Proposal \cup {NoProposal}]
    /\ runs \in [Runs -> Run \cup {NoRun}]
    /\ pc \in [Callers -> Ended \cup {"idle", "looking", "storing"}]
    /\ call \in [Callers -> Call \cup {NoCall}]

\* At most one contract of a routine is in force, whatever is revised and
\* confirmed, and in whatever order.
OneContractInForce ==
    \A p, q \in Proposals :
        /\ proposals[p].status = "confirmed"
        /\ proposals[q].status = "confirmed"
        /\ proposals[p].routine = proposals[q].routine
        => p = q

\* A revision comes after a contract of its routine that a person confirmed, so
\* the contracts a revision goes back to were all in force in their turn.
RevisesWhatWasInForce ==
    \A p \in Proposals :
        proposals[p].supersedes # None =>
            LET previous == proposals[proposals[p].supersedes] IN
            /\ previous.status \in {"confirmed", "superseded"}
            /\ previous.routine = proposals[p].routine
            /\ previous.version < proposals[p].version

\* A contract that gave way never comes back into force.
SupersededForGood ==
    [][\A p \in Proposals :
          proposals[p].status = "superseded" => proposals'[p] = proposals[p]]_vars

\* One contract of a routine at most is in force, and what gave way to another
\* never returns (confirm_proposal).
ContractsGiveWay == []OneContractInForce /\ SupersededForGood

\* A run rests on a contract that a person confirmed, though the contract may
\* be superseded while start_run is on its way.
RunsUnderContract ==
    \A r \in Runs :
        runs[r] # NoRun => proposals[runs[r].contract].status \in {"confirmed", "superseded"}

\* An idempotency key names one run: every caller that gives it gets that run,
\* also when two of them find no run with it.
OneRunPerKey ==
    /\ \A r, s \in Runs : runs[r] # NoRun /\ runs[r].key = runs[s].key => r = s
    /\ \A c \in Callers : pc[c] = "returned" => runs[call[c].returned].key = call[c].key

\* Runs are of contracts a person confirmed, and a trigger has one run, though
\* start_run looks in one transaction and stores in another.
RunsAreSound == RunsUnderContract /\ OneRunPerKey

\* Whatever is revised while others confirm, the contracts that a revision goes
\* back to were in force (revise_proposal and _insert_proposal).
RevisionsAreSound == TypeOK /\ RevisesWhatWasInForce
=============================================================================
