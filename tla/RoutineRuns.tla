----------------------------- MODULE RoutineRuns -----------------------------
(***************************************************************************)
(* The execution of one routine run: RoutineService.resume_run             *)
(* (automation.py) over the run and claim rows of                          *)
(* SQLiteAutomationRepository (automation_store.py).                       *)
(*                                                                         *)
(* A call claims the run, loads it and works through its steps.  Every     *)
(* attempt is saved before the executor is called and every result after   *)
(* it; each save is fenced by the owner and the revision of the claim.     *)
(* Calls of other processes, crashes and an operator's recoveries come     *)
(* between any two transactions.  Runs share nothing, so one is enough.    *)
(***************************************************************************)
EXTENDS Naturals, Sequences, FiniteSets, Lists

CONSTANTS
    LastStep,       \* steps are numbered 1 .. LastStep
    ModelSteps,     \* those of kind "model"
    Quote,          \* quote_cost of each step
    Ceiling,        \* cost_ceiling of the contract
    RetryLimit,     \* retry_limit of the contract
    Calls,          \* calls of resume_run
    Names,          \* worker names
    Name,           \* the worker name of each call
    RecoveryNames,  \* names an operator recovers to
    MaxRecoveries,  \* bound on the recoveries
    None

Steps == 1 .. LastStep

ASSUME StepAssumption == LastStep \in Nat /\ ModelSteps \subseteq Steps
ASSUME CostAssumption == Quote \in [Steps -> Nat] /\ Ceiling \in Nat
ASSUME LimitAssumption == RetryLimit \in Nat /\ MaxRecoveries \in Nat
ASSUME NameAssumption ==
    Name \in [Calls -> Names] /\ RecoveryNames \subseteq Names /\ None \notin Names

VARIABLES
    run,          \* routine_runs: the payload of the run
    claim,        \* routine_runs: its claim columns and its revision
    receipt,      \* routine_receipts
    pc,           \* where each call is
    local,        \* the local variables of each call
    executions,   \* history: the executor calls that were made
    recoveries    \* how many recoveries there were

vars == <<run, claim, receipt, pc, local, executions, recoveries>>

-----------------------------------------------------------------------------
StepStatus == {"success", "partial", "blocked", "failed"}
Result == [status : StepStatus, cost : Nat]
Failed == [status |-> "failed", cost |-> 0]
Blocked == [status |-> "blocked", cost |-> 0]

\* current_step is the number of results, attempts is current_step_attempts.
Run == [results : Seq(Result), attempts : Nat]
NewRun == [results |-> <<>>, attempts |-> 0]

Claim == [owner : Names \cup {None}, state : {"unclaimed", "active", "finalized"},
          revision : Nat]

Receipt == [status : StepStatus, results : Seq(Result)]
NoReceipt == [status |-> "none", results |-> <<>>]

Ended == {"returned", "conflict", "raised", "crashed"}
Active == {"claiming", "loading", "stepping", "executing", "recording",
           "finalizing", "releasing"}
Local == [model : BOOLEAN, revision : Nat, run : Run, result : Result]
NoLocal == [model |-> FALSE, revision |-> 0, run |-> NewRun, result |-> Failed]

Execution == [step : Steps, attempt : Nat, by : Calls]

Init ==
    /\ run = NewRun
    /\ claim = [owner |-> None, state |-> "unclaimed", revision |-> 1]
    /\ receipt = NoReceipt
    /\ pc = [c \in Calls |-> "start"]
    /\ local = [c \in Calls |-> NoLocal]
    /\ executions = {}
    /\ recoveries = 0

Goto(c, label) == pc' = [pc EXCEPT ![c] = label]

\* The end of a call: its local variables go with it.
End(c, label) == Goto(c, label) /\ local' = [local EXCEPT ![c] = NoLocal]

tables == <<run, claim, receipt>>
history == <<executions, recoveries>>

\* The step a copy of the run is at.
StepOf(r) == Len(r.results) + 1

-----------------------------------------------------------------------------
(* Beginning: the receipt, the claim, the run.                             *)

ReadReceipt(c) ==
    /\ pc[c] = "start"
    /\ Goto(c, IF receipt # NoReceipt THEN "returned" ELSE "claiming")
    /\ UNCHANGED <<tables, local, history>>

ClaimableAlways(name) ==    \* mutant: an active claim is taken over
    claim.state # "finalized"

ClaimableFinalized(name) == \* mutant: a finalized run is claimed again
    claim.state = "active" => claim.owner = name

\* claim_run: a worker may claim again what it holds.
Claimable(name) ==
    \/ claim.state = "unclaimed"
    \/ claim.state = "active" /\ claim.owner = name

ClaimRun(c) ==
    /\ pc[c] = "claiming"
    /\ \/ /\ Claimable(Name[c])
          /\ claim' = [owner |-> Name[c], state |-> "active", revision |-> claim.revision + 1]
          /\ local' = [local EXCEPT ![c].revision = claim.revision + 1]
          /\ Goto(c, "loading")
       \/ /\ ~Claimable(Name[c])
          /\ End(c, "conflict")
          /\ UNCHANGED claim
    /\ UNCHANGED <<run, receipt, history>>

\* get_run and get_proposal; the contract itself never changes.  Whether there
\* is a model executor is an argument that matters from here on.
LoadRun(c) ==
    /\ pc[c] = "loading"
    /\ \E model \in BOOLEAN :
          local' = [local EXCEPT ![c].run = run, ![c].model = model]
    /\ Goto(c, IF StepOf(run) \in Steps THEN "stepping" ELSE "finalizing")
    /\ UNCHANGED <<tables, history>>

-----------------------------------------------------------------------------
(* save_run_progress.                                                      *)

Holds(c) == claim.owner = Name[c] /\ claim.revision = local[c].revision

\* The copy r is saved, or the claim is lost and the call goes to its except
\* clause.
SaveProgress(c, r, label) ==
    \/ /\ Holds(c)
       /\ run' = r
       /\ claim' = [claim EXCEPT !.revision = local[c].revision + 1]
       /\ local' = [local EXCEPT ![c].run = r, ![c].revision = @ + 1, ![c].result = Failed]
       /\ Goto(c, label)
    \/ /\ ~Holds(c)
       /\ Goto(c, "releasing")
       /\ UNCHANGED <<run, claim, local>>

-----------------------------------------------------------------------------
(* One step of the routine.                                                *)

ForgottenTotal(r) == 0     \* mutant: a resumed run starts with its whole budget

Total(r) == Sum([i \in DOMAIN r.results |-> r.results[i].cost])

\* Why a step is not attempted: the attempts are used up, there is no model
\* executor, or the quote does not fit under the ceiling.
Exhausted(c) == local[c].run.attempts > RetryLimit
NoExecutor(c) == StepOf(local[c].run) \in ModelSteps /\ ~local[c].model
TooDear(c) == Total(local[c].run) + Quote[StepOf(local[c].run)] > Ceiling

GiveUp(c) ==
    /\ pc[c] = "stepping"
    /\ \/ Exhausted(c) \/ NoExecutor(c) \/ TooDear(c)
    /\ local' = [local EXCEPT ![c].result =
                    IF Exhausted(c) \/ NoExecutor(c) THEN Failed ELSE Blocked]
    /\ Goto(c, "recording")
    /\ UNCHANGED <<tables, history>>

\* The database raises, or an executor that gives no proper quote: the except
\* clause releases the claim.
Raise(c) ==
    /\ pc[c] \in {"loading", "stepping", "recording", "finalizing"}
    /\ Goto(c, "releasing")
    /\ UNCHANGED <<tables, local, history>>

UncountedAttempt(r) == r     \* mutant: the attempt is not counted

CountedAttempt(r) == [r EXCEPT !.attempts = @ + 1]

\* The attempt is saved before the executor is called.
SaveAttempt(c) ==
    /\ pc[c] = "stepping"
    /\ ~Exhausted(c) /\ ~NoExecutor(c) /\ ~TooDear(c)
    /\ SaveProgress(c, CountedAttempt(local[c].run), "executing")
    /\ UNCHANGED <<receipt, history>>

\* A result that cost more than its quote, or than the contract allows, blocks
\* the routine and keeps its cost.
CheckedResult(r, result) ==
    IF result.cost > Quote[StepOf(r)] \/ Total(r) + result.cost > Ceiling
    THEN [result EXCEPT !.status = "blocked"]
    ELSE result

\* The executor returns a result, raises (and the loop tries again), or is
\* interrupted.  One unit above the quote stands for any overrun.
Execute(c) ==
    LET r == local[c].run IN
    /\ pc[c] = "executing"
    /\ executions' = executions \cup
          {[step |-> StepOf(r), attempt |-> r.attempts, by |-> c]}
    /\ \/ \E status \in StepStatus, cost \in 0 .. Quote[StepOf(r)] + 1 :
             /\ local' = [local EXCEPT ![c].result =
                             CheckedResult(r, [status |-> status, cost |-> cost])]
             /\ Goto(c, "recording")
       \/ Goto(c, "stepping") /\ UNCHANGED local
       \/ Goto(c, "releasing") /\ UNCHANGED local
    /\ UNCHANGED <<tables, recoveries>>

ResultAlone(r, result) ==   \* mutant: a resumed run starts a new list
    [results |-> <<result>>, attempts |-> 0]

WithResult(r, result) == [results |-> Append(r.results, result), attempts |-> 0]

\* The result is saved; a blocked or failed one ends the loop.
Record(c) ==
    LET next == WithResult(local[c].run, local[c].result) IN
    /\ pc[c] = "recording"
    /\ SaveProgress(c, next,
          IF local[c].result.status \in {"blocked", "failed"} \/ StepOf(next) \notin Steps
          THEN "finalizing" ELSE "stepping")
    /\ UNCHANGED <<receipt, history>>

-----------------------------------------------------------------------------
(* The end of a call.                                                      *)

AggregateLast(results) ==      \* mutant: the last step speaks for the run
    results[Len(results)].status

\* _aggregate_run_status.
Aggregate(results) ==
    LET has(status) == \E i \in DOMAIN results : results[i].status = status IN
    CASE has("blocked") -> "blocked"
      [] ~has("blocked") /\ has("failed") -> IF has("success") THEN "partial" ELSE "failed"
      [] OTHER -> IF Len(results) < LastStep \/ has("partial") THEN "partial" ELSE "success"

\* finalize_run: the terminal run and the receipt in one transaction.
Finalize(c) ==
    LET results == local[c].run.results IN
    /\ pc[c] = "finalizing"
    /\ \/ /\ Holds(c)
          /\ run' = local[c].run
          /\ claim' = [claim EXCEPT !.state = "finalized", !.revision = local[c].revision + 2]
          /\ receipt' = [status |-> Aggregate(results), results |-> results]
          /\ End(c, "returned")
       \/ /\ ~Holds(c)
          /\ Goto(c, "releasing")
          /\ UNCHANGED <<tables, local>>
    /\ UNCHANGED history

Releasable(name) == claim.state = "active" /\ claim.owner = name

\* release_run, from the except clause; the exception goes on.
Release(c) ==
    /\ pc[c] = "releasing"
    /\ claim' = IF Releasable(Name[c])
                THEN [claim EXCEPT !.state = "unclaimed", !.revision = @ + 1]
                ELSE claim
    /\ End(c, "raised")
    /\ UNCHANGED <<run, receipt, history>>

-----------------------------------------------------------------------------
(* Crashes and recoveries.                                                 *)

Crash(c) ==
    /\ pc[c] \in Active
    /\ End(c, "crashed")
    /\ UNCHANGED <<tables, history>>

\* recover_run with the revision the run has: revisions never come back, so a
\* stale one is refused and changes nothing.
Recover(name) ==
    /\ recoveries < MaxRecoveries
    /\ claim.state # "finalized"
    /\ claim' = [owner |-> name, state |-> "active", revision |-> claim.revision + 1]
    /\ recoveries' = recoveries + 1
    /\ UNCHANGED <<run, receipt, pc, local, executions>>

\* One step of a call's own code.
Proceed(c) ==
    \/ ClaimRun(c)
    \/ LoadRun(c)
    \/ GiveUp(c)
    \/ Raise(c)
    \/ SaveAttempt(c)
    \/ Execute(c)
    \/ Record(c)
    \/ Finalize(c)
    \/ Release(c)

Next ==
    \/ \E c \in Calls : ReadReceipt(c) \/ Proceed(c) \/ Crash(c)
    \/ \E name \in RecoveryNames : Recover(name)

Spec == Init /\ [][Next]_vars

-----------------------------------------------------------------------------
(* Properties.                                                             *)

TypeOK ==
    /\ run \in Run
    /\ claim \in Claim
    /\ receipt \in Receipt \cup {NoReceipt}
    /\ pc \in [Calls -> Active \cup Ended \cup {"start"}]
    /\ local \in [Calls -> Local]
    /\ executions \subseteq Execution
    /\ recoveries \in Nat

\* Every call of the executor has a number of its own, and the numbers stay
\* within the retry limit: crashes, interruptions, rivals and recoveries never
\* give a step one attempt more than its contract allows.
AttemptsNumbered ==
    \A e \in executions :
        /\ e.attempt \in 1 .. RetryLimit + 1
        /\ \A f \in executions : f.step = e.step /\ f.attempt = e.attempt => f = e

\* A receipt is written together with the end of the run, says what the run
\* recorded, and reports success only if every step was executed and succeeded.
ReceiptIsTruthful ==
    /\ receipt # NoReceipt <=> claim.state = "finalized"
    /\ receipt # NoReceipt => receipt.results = run.results
    /\ receipt.status = "success" =>
          \A s \in Steps : /\ s \in DOMAIN receipt.results
                           /\ receipt.results[s].status = "success"
                           /\ \E e \in executions : e.step = s

\* What the accepted results cost stays under the ceiling; only a result that
\* is marked blocked may exceed it.
BudgetKept ==
    Sum([i \in DOMAIN run.results |->
            IF run.results[i].status = "blocked" THEN 0 ELSE run.results[i].cost]) <= Ceiling

\* The results of a run only grow, one step at a time, and a run that is
\* finalized stays as it is.
ResultsOnlyGrow ==
    [][/\ Len(run'.results) \in {Len(run.results), Len(run.results) + 1}
       /\ \A i \in DOMAIN run.results : run'.results[i] = run.results[i]
       /\ claim.state = "finalized" => UNCHANGED tables]_vars

\* A contract of the routine tests says "record failure and wait for the next
\* trigger": nothing is executed after a step that failed or was blocked.
NothingAfterFailure ==
    \A i \in DOMAIN run.results :
        run.results[i].status \in {"failed", "blocked"} =>
            \A e \in executions : e.step <= i

-----------------------------------------------------------------------------
Lease == INSTANCE ClaimLease
    WITH Items <- {"run"}, Owners <- Names, Takers <- RecoveryNames,
         Free <- None, NoOutcome <- NoReceipt,
         holder <- [i \in {"run"} |-> IF claim.state = "active" THEN claim.owner ELSE None],
         outcome <- [i \in {"run"} |-> receipt]

\* The claim columns implement the lease: no ordinary worker takes a claim from
\* its holder, and the receipt ends the run.
HoldsLease == Lease!Spec

\* Whatever crashes, rivals of one name and recoveries do, a claim is taken only
\* when it is free or recovered, and the recorded results only grow until the
\* receipt (automation_store.py).
ProgressHolds == []TypeOK /\ HoldsLease /\ ResultsOnlyGrow

=============================================================================
