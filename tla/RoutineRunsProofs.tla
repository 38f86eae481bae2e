-------------------------- MODULE RoutineRunsProofs --------------------------
(***************************************************************************)
(* Theorems about RoutineRuns: types, numbered attempts, a truthful        *)
(* receipt, results that only grow, the refinement of ClaimLease, and the  *)
(* budget.                                                                 *)
(*                                                                         *)
(* They hold for any worker names, shared or not: what keeps the calls     *)
(* apart is the revision.  At most one call knows the revision of the      *)
(* claim, it holds an active claim, and its copy of the run is the stored  *)
(* one.  A call that lost its claim can change nothing.                    *)
(***************************************************************************)
EXTENDS RoutineRuns, ListFacts, TLAPS

-----------------------------------------------------------------------------
(* The invariant.                                                          *)

\* Where a call has a claim, or believes so, and has a copy of the run.
Working == {"loading", "stepping", "executing", "recording", "finalizing"}
Loaded == {"stepping", "executing", "recording", "finalizing"}

\* A copy is at a step of the routine as long as it works on it.
AtAStep ==
    \A c \in Calls :
        pc[c] \in {"stepping", "executing", "recording"} => StepOf(local[c].run) \in Steps

\* The call that knows the revision of the claim.
Current(c) == pc[c] \in Working /\ local[c].revision = claim.revision

RevisionsBounded ==
    \A c \in Calls : pc[c] \in Working => local[c].revision <= claim.revision

OneCurrent == \A c, d \in Calls : Current(c) /\ Current(d) => c = d

CurrentHolds ==
    \A c \in Calls :
        Current(c) => /\ claim.state = "active"
                      /\ claim.owner = Name[c]
                      /\ pc[c] \in Loaded => local[c].run = run

\* An attempt of a step is saved in the run r, or r is past it.
SavedIn(r, step, attempt) ==
    \/ step < StepOf(r)
    \/ step = StepOf(r) /\ attempt <= r.attempts

ExecutionsSaved == \A e \in executions : SavedIn(run, e.step, e.attempt)

\* A call of the executor that is under way: its attempt is saved, is in the
\* limit, and nobody else has made it or makes it.
ExecutingSaved ==
    \A c \in Calls : pc[c] = "executing" =>
        LET mine == local[c].run IN
        /\ mine.attempts \in 1 .. RetryLimit + 1
        /\ SavedIn(run, StepOf(mine), mine.attempts)
        /\ \A e \in executions : ~(e.step = StepOf(mine) /\ e.attempt = mine.attempts)
        /\ \A d \in Calls :
              /\ pc[d] = "executing"
              /\ StepOf(local[d].run) = StepOf(mine)
              /\ local[d].run.attempts = mine.attempts
              => d = c

Executed(step) == \E e \in executions : e.step = step

\* Success is reported of executed steps only.
SuccessExecuted ==
    /\ \A i \in DOMAIN run.results : run.results[i].status = "success" => Executed(i)
    /\ \A c \in Calls :
          pc[c] = "recording" /\ local[c].result.status = "success" =>
              Executed(StepOf(local[c].run))

ReceiptFinal ==
    /\ receipt # NoReceipt <=> claim.state = "finalized"
    /\ receipt # NoReceipt => /\ receipt.results = run.results
                              /\ receipt.status = Aggregate(run.results)

ClaimInv == RevisionsBounded /\ OneCurrent /\ CurrentHolds
AttemptInv == AttemptsNumbered /\ ExecutionsSaved /\ ExecutingSaved
ResultInv == SuccessExecuted /\ ReceiptFinal

IInv == TypeOK /\ AtAStep /\ ClaimInv /\ AttemptInv /\ ResultInv

-----------------------------------------------------------------------------
(* Steps that leave the tables alone.                                      *)

LEMMA InitHolds == Init => IInv
<1> SUFFICES ASSUME Init PROVE IInv
  OBVIOUS
<1>1. TypeOK
  BY NameAssumption DEF Init, TypeOK, Run, NewRun, Claim, Receipt, NoReceipt, NoLocal, Local,
     Failed, Result, StepStatus, Active, Ended, Execution
<1>2. AtAStep /\ ClaimInv /\ AttemptInv /\ ResultInv
  BY DEF Init, AtAStep, ClaimInv, RevisionsBounded, OneCurrent, CurrentHolds, Current, Working,
     AttemptInv, AttemptsNumbered, ExecutionsSaved, ExecutingSaved, ResultInv,
     SuccessExecuted, ReceiptFinal, NewRun
<1> QED
  BY <1>1, <1>2 DEF IInv

\* A call goes to another place with the same copy of the run and the same
\* revision.  It does not begin to execute.
LEMMA PrivateStep ==
    ASSUME IInv, NEW c \in Calls, NEW label \in Active \cup Ended, NEW mine \in Local,
           pc' = [pc EXCEPT ![c] = label], local' = [local EXCEPT ![c] = mine],
           UNCHANGED <<tables, executions>>, recoveries' = recoveries,
           label # "executing",
           label \in Working => /\ pc[c] \in Working
                               /\ mine.revision = local[c].revision,
           label \in Loaded => /\ mine.run = local[c].run /\ pc[c] \in Loaded
                              \/ mine.run = run,
           label \in {"stepping", "recording"} => StepOf(mine.run) \in Steps,
           label = "recording" /\ mine.result.status = "success" =>
               Executed(StepOf(mine.run))
    PROVE  IInv'
<1>1. /\ pc \in [Calls -> Active \cup Ended \cup {"start"}]
      /\ local \in [Calls -> Local]
      /\ run' = run /\ claim' = claim /\ receipt' = receipt /\ executions' = executions
  BY DEF IInv, TypeOK, tables
<1>2. /\ pc'[c] = label /\ local'[c] = mine
      /\ \A d \in Calls : d # c => pc'[d] = pc[d] /\ local'[d] = local[d]
  BY <1>1
<1>3. TypeOK'
  BY <1>1 DEF IInv, TypeOK
<1>4. AtAStep'
  BY <1>2 DEF IInv, AtAStep
<1>5. ClaimInv'
  <2>1. \A d \in Calls : Current(d)' => Current(d)
    BY <1>1, <1>2 DEF Current
  <2>2. RevisionsBounded'
    BY <1>1, <1>2 DEF IInv, ClaimInv, RevisionsBounded
  <2>3. OneCurrent'
    BY <2>1 DEF IInv, ClaimInv, OneCurrent
  <2>4. CurrentHolds'
    BY <1>1, <1>2, <2>1 DEF IInv, ClaimInv, CurrentHolds, Loaded, Working
  <2> QED
    BY <2>2, <2>3, <2>4 DEF ClaimInv
<1>6. AttemptInv'
  <2>1. AttemptsNumbered' /\ ExecutionsSaved'
    BY <1>1 DEF IInv, AttemptInv, AttemptsNumbered, ExecutionsSaved, SavedIn
  <2>2. ExecutingSaved'
    BY <1>1, <1>2 DEF IInv, AttemptInv, ExecutingSaved, SavedIn
  <2> QED
    BY <2>1, <2>2 DEF AttemptInv
<1>7. ResultInv'
  BY <1>1, <1>2 DEF IInv, ResultInv, SuccessExecuted, Executed, ReceiptFinal
<1> QED
  BY <1>3, <1>4, <1>5, <1>6, <1>7 DEF IInv

LEMMA PrivateActions ==
    ASSUME IInv, NEW c \in Calls,
           ReadReceipt(c) \/ LoadRun(c) \/ GiveUp(c) \/ Raise(c) \/ Crash(c)
    PROVE  IInv'
<1> USE DEF tables, history
<1>0. /\ pc \in [Calls -> Active \cup Ended \cup {"start"}]
      /\ local \in [Calls -> Local]
      /\ local = [local EXCEPT ![c] = local[c]]
  BY DEF IInv, TypeOK
<1>1. CASE ReadReceipt(c)
  <2> DEFINE label == IF receipt # NoReceipt THEN "returned" ELSE "claiming"
  <2>1. /\ pc' = [pc EXCEPT ![c] = label]
        /\ label \in {"returned", "claiming"}
    BY <1>1 DEF ReadReceipt, Goto
  <2> QED
    BY <1>0, <1>1, <2>1, PrivateStep DEF ReadReceipt, Active, Ended, Working, Loaded
<1>2. CASE LoadRun(c)
  <2>1. PICK model \in BOOLEAN :
            local' = [local EXCEPT ![c].run = run, ![c].model = model]
    BY <1>2 DEF LoadRun
  <2> DEFINE label == IF StepOf(run) \in Steps THEN "stepping" ELSE "finalizing"
             mine == [[local[c] EXCEPT !.run = run] EXCEPT !.model = model]
  <2>2. /\ local' = [local EXCEPT ![c] = mine]
        /\ mine \in Local /\ mine.run = run
        /\ mine.revision = local[c].revision
    BY <1>0, <2>1 DEF Local, IInv, TypeOK
  <2>3. /\ pc' = [pc EXCEPT ![c] = label] /\ pc[c] = "loading"
        /\ label \in {"stepping", "finalizing"}
        /\ label = "stepping" => StepOf(run) \in Steps
    BY <1>2 DEF LoadRun, Goto
  <2> HIDE DEF mine, label
  <2> QED
    BY <1>2, <2>2, <2>3, PrivateStep DEF LoadRun, Active, Working, Loaded
<1>3. CASE GiveUp(c)
  <2> DEFINE result == IF Exhausted(c) \/ NoExecutor(c) THEN Failed ELSE Blocked
             mine == [local[c] EXCEPT !.result = result]
  <2>1. result \in Result /\ result.status # "success"
    BY DEF Failed, Blocked, Result, StepStatus
  <2>2. local' = [local EXCEPT ![c].result = result]
    BY <1>3 DEF GiveUp
  <2> HIDE DEF result
  <2>3. /\ local' = [local EXCEPT ![c] = mine]
        /\ mine \in Local /\ mine.result = result
        /\ mine.run = local[c].run /\ mine.revision = local[c].revision
    BY <1>0, <2>1, <2>2 DEF Local
  <2>4. /\ pc' = [pc EXCEPT ![c] = "recording"] /\ pc[c] = "stepping"
        /\ StepOf(local[c].run) \in Steps
    BY <1>3 DEF GiveUp, Goto, IInv, AtAStep
  <2> HIDE DEF mine
  <2> QED
    BY <1>3, <2>1, <2>3, <2>4, PrivateStep DEF GiveUp, Active, Working, Loaded
<1>4. CASE Raise(c)
  BY <1>0, <1>4, PrivateStep DEF Raise, Goto, Active, Working, Loaded
<1>5. CASE Crash(c)
  <2>1. NoLocal \in Local
    BY DEF NoLocal, Local, NewRun, Run, Failed, Result, StepStatus
  <2> QED
    BY <1>5, <2>1, PrivateStep DEF Crash, End, Goto, Ended, Working, Loaded, Active
<1> QED
  BY <1>1, <1>2, <1>3, <1>4, <1>5

\* A save or a claim that is refused.
LEMMA Refused ==
    ASSUME IInv, NEW c \in Calls, UNCHANGED <<tables, local, history>>,
           Goto(c, "releasing")
    PROVE  IInv'
<1>1. /\ local' = [local EXCEPT ![c] = local[c]] /\ local[c] \in Local
      /\ pc' = [pc EXCEPT ![c] = "releasing"]
  BY DEF IInv, TypeOK, Goto
<1> QED
  BY <1>1, PrivateStep DEF Active, Working, Loaded, history

-----------------------------------------------------------------------------
(* Steps that change the claim alone.                                      *)

\* The claim gets a new revision, and at most one call knows it.
LEMMA ClaimStep ==
    ASSUME IInv, UNCHANGED <<run, receipt, executions>>,
           claim' \in Claim, recoveries' \in Nat,
           claim'.revision = claim.revision + 1,
           claim.state # "finalized", claim'.state # "finalized",
           pc' \in [Calls -> Active \cup Ended \cup {"start"}],
           local' \in [Calls -> Local],
           \A d \in Calls : Current(d)' =>
               /\ pc'[d] = "loading" /\ claim'.state = "active" /\ claim'.owner = Name[d],
           \A d \in Calls : pc'[d] \in Loaded \cup {"recording"} =>
               pc'[d] = pc[d] /\ local'[d] = local[d],
           \A d \in Calls : pc'[d] \in Working =>
               \/ pc'[d] = pc[d] /\ local'[d] = local[d]
               \/ local'[d].revision = claim'.revision,
           OneCurrent'
    PROVE  IInv'
<1>1. TypeOK'
  BY DEF IInv, TypeOK
<1>2. AtAStep'
  BY DEF IInv, AtAStep, Loaded
<1>3. ClaimInv'
  <2>1. RevisionsBounded'
    BY DEF IInv, TypeOK, Claim, Local, ClaimInv, RevisionsBounded
  <2>2. CurrentHolds'
    BY DEF CurrentHolds, Loaded
  <2> QED
    BY <2>1, <2>2 DEF ClaimInv
<1>4. AttemptInv'
  BY DEF IInv, AttemptInv, AttemptsNumbered, ExecutionsSaved, ExecutingSaved, SavedIn, Loaded
<1>5. ResultInv'
  BY DEF IInv, ResultInv, SuccessExecuted, Executed, ReceiptFinal, Loaded
<1> QED
  BY <1>1, <1>2, <1>3, <1>4, <1>5 DEF IInv

LEMMA ClaimActions ==
    ASSUME IInv, NEW c \in Calls, ClaimRun(c) \/ Release(c)
    PROVE  IInv'
<1> USE DEF tables, history
<1>0. /\ pc \in [Calls -> Active \cup Ended \cup {"start"}]
      /\ local \in [Calls -> Local]
      /\ claim \in Claim /\ claim.revision \in Nat
      /\ Name[c] \in Names
      /\ NoLocal \in Local
  BY NameAssumption DEF IInv, TypeOK, Claim, NoLocal, Local, NewRun, Run, Failed, Result, StepStatus
<1>1. CASE ClaimRun(c)
  <2>1. CASE Claimable(Name[c])
    <3>1. /\ claim' = [owner |-> Name[c], state |-> "active", revision |-> claim.revision + 1]
          /\ local' = [local EXCEPT ![c].revision = claim.revision + 1]
          /\ pc' = [pc EXCEPT ![c] = "loading"]
          /\ UNCHANGED <<run, receipt, executions, recoveries>>
      BY <1>1, <2>1 DEF ClaimRun, Goto
    <3>2. /\ claim' \in Claim /\ claim'.revision = claim.revision + 1
          /\ claim'.state = "active" /\ claim'.owner = Name[c]
      BY <1>0, <3>1 DEF Claim
    <3>3. /\ local' \in [Calls -> Local]
          /\ local'[c].revision = claim.revision + 1
          /\ \A d \in Calls : d # c => local'[d] = local[d] /\ pc'[d] = pc[d]
          /\ pc'[c] = "loading"
          /\ pc' \in [Calls -> Active \cup Ended \cup {"start"}]
      BY <1>0, <3>1 DEF Local, Active
    <3>4. \A d \in Calls : Current(d)' => d = c
      BY <1>0, <3>2, <3>3 DEF Current, IInv, ClaimInv, RevisionsBounded, TypeOK, Local
    <3>5. OneCurrent'
      BY <3>4 DEF OneCurrent
    <3>6. claim.state # "finalized" /\ recoveries' \in Nat
      BY <2>1, <3>1 DEF Claimable, IInv, TypeOK
    <3> QED
      BY <3>1, <3>2, <3>3, <3>4, <3>5, <3>6, ClaimStep DEF Loaded
  <2>2. CASE ~Claimable(Name[c])
    BY <1>0, <1>1, <2>2, PrivateStep DEF ClaimRun, End, Goto, Ended, Working, Loaded
  <2> QED
    BY <2>1, <2>2
<1>2. CASE Release(c)
  <2>1. /\ pc' = [pc EXCEPT ![c] = "raised"]
        /\ local' = [local EXCEPT ![c] = NoLocal]
        /\ UNCHANGED <<run, receipt, executions, recoveries>>
    BY <1>2 DEF Release, End, Goto
  <2>2. CASE Releasable(Name[c])
    <3>1. claim' = [claim EXCEPT !.state = "unclaimed", !.revision = @ + 1]
      BY <1>2, <2>2 DEF Release
    <3>2. /\ claim' \in Claim /\ claim'.revision = claim.revision + 1
          /\ claim'.state = "unclaimed" /\ claim.state = "active"
      <4>1. /\ claim.owner \in Names \cup {None} /\ claim.state = "active"
            /\ claim' = [owner |-> claim.owner, state |-> "unclaimed",
                         revision |-> claim.revision + 1]
        BY <1>0, <2>2, <3>1 DEF Claim, Releasable
      <4> QED
        BY <1>0, <4>1 DEF Claim
    <3>3. /\ local' \in [Calls -> Local]
          /\ \A d \in Calls : d # c => local'[d] = local[d] /\ pc'[d] = pc[d]
          /\ pc'[c] = "raised"
          /\ pc' \in [Calls -> Active \cup Ended \cup {"start"}]
      BY <1>0, <2>1 DEF Ended
    <3>4. \A d \in Calls : ~Current(d)'
      BY <1>0, <3>2, <3>3 DEF Current, IInv, ClaimInv, RevisionsBounded, TypeOK, Local, Working
    <3>5. OneCurrent' /\ recoveries' \in Nat
      BY <3>4, <2>1 DEF OneCurrent, IInv, TypeOK
    <3> QED
      BY <2>1, <3>2, <3>3, <3>4, <3>5, ClaimStep DEF Loaded, Working
  <2>3. CASE ~Releasable(Name[c])
    BY <1>0, <1>2, <2>1, <2>3, PrivateStep DEF Release, Ended, Working, Loaded
  <2> QED
    BY <2>2, <2>3
<1> QED
  BY <1>1, <1>2

LEMMA RecoverStep ==
    ASSUME IInv, NEW name \in RecoveryNames, Recover(name)
    PROVE  IInv'
<1>1. /\ claim' = [owner |-> name, state |-> "active", revision |-> claim.revision + 1]
      /\ claim.state # "finalized"
      /\ recoveries' = recoveries + 1
      /\ UNCHANGED <<run, receipt, pc, local, executions>>
  BY DEF Recover
<1>2. /\ claim' \in Claim /\ claim'.revision = claim.revision + 1
      /\ claim'.state = "active" /\ claim.revision \in Nat
  BY <1>1, NameAssumption DEF IInv, TypeOK, Claim
<1>3. \A d \in Calls : ~Current(d)'
  BY <1>1, <1>2 DEF Current, IInv, ClaimInv, RevisionsBounded, TypeOK, Local
<1>4. OneCurrent'
  BY <1>3 DEF OneCurrent
<1>5. recoveries' \in Nat /\ pc \in [Calls -> Active \cup Ended \cup {"start"}]
      /\ local \in [Calls -> Local]
  BY <1>1 DEF IInv, TypeOK
<1> QED
  BY <1>1, <1>2, <1>3, <1>4, <1>5, ClaimStep

-----------------------------------------------------------------------------
(* The executor.                                                           *)

LEMMA ExecuteStep ==
    ASSUME IInv, NEW c \in Calls, Execute(c)
    PROVE  IInv'
<1> DEFINE mine == local[c].run
           new == [step |-> StepOf(mine), attempt |-> mine.attempts, by |-> c]
<1>0. /\ pc \in [Calls -> Active \cup Ended \cup {"start"}]
      /\ local \in [Calls -> Local]
      /\ mine \in Run
      /\ pc[c] = "executing" /\ StepOf(mine) \in Steps
      /\ executions' = executions \cup {new}
      /\ run' = run /\ claim' = claim /\ receipt' = receipt /\ recoveries' = recoveries
  BY DEF Execute, IInv, TypeOK, AtAStep, tables, Local
<1>1. \E label \in {"stepping", "recording", "releasing"}, result \in Result :
          /\ pc' = [pc EXCEPT ![c] = label]
          /\ local' = [local EXCEPT ![c] = [local[c] EXCEPT !.result = result]]
  <2>1. CASE \E status \in StepStatus, cost \in 0 .. Quote[StepOf(mine)] + 1 :
                /\ local' = [local EXCEPT ![c].result =
                       CheckedResult(mine, [status |-> status, cost |-> cost])]
                /\ Goto(c, "recording")
    <3>1. PICK status \in StepStatus, cost \in 0 .. Quote[StepOf(mine)] + 1 :
                /\ local' = [local EXCEPT ![c].result =
                       CheckedResult(mine, [status |-> status, cost |-> cost])]
                /\ Goto(c, "recording")
      BY <2>1
    <3> DEFINE result == CheckedResult(mine, [status |-> status, cost |-> cost])
    <3>2. cost \in Nat
      BY <1>0, <3>1, CostAssumption
    <3>3. [status |-> status, cost |-> cost] \in Result
      BY <3>2 DEF Result
    <3>4. result \in Result
      BY <3>3 DEF CheckedResult, Result, StepStatus
    <3>5. local' = [local EXCEPT ![c] = [local[c] EXCEPT !.result = result]]
      BY <1>0, <3>1
    <3> QED
      BY <3>1, <3>4, <3>5 DEF Goto
  <2>2. CASE \/ Goto(c, "stepping") /\ UNCHANGED local
             \/ Goto(c, "releasing") /\ UNCHANGED local
    <3>1. local[c].result \in Result
      BY <1>0 DEF Local
    <3>2. local' = [local EXCEPT ![c] = [local[c] EXCEPT !.result = local[c].result]]
      BY <1>0, <2>2 DEF Local
    <3> QED
      BY <2>2, <3>1, <3>2 DEF Goto
  <2> QED
    BY <2>1, <2>2 DEF Execute
<1>2. PICK label \in {"stepping", "recording", "releasing"}, result \in Result :
          /\ pc' = [pc EXCEPT ![c] = label]
          /\ local' = [local EXCEPT ![c] = [local[c] EXCEPT !.result = result]]
  BY <1>1
<1>3. /\ pc'[c] = label
      /\ local'[c] \in Local /\ local'[c].run = mine
      /\ local'[c].revision = local[c].revision
      /\ \A d \in Calls : d # c => pc'[d] = pc[d] /\ local'[d] = local[d]
      /\ pc' \in [Calls -> Active \cup Ended \cup {"start"}]
      /\ local' \in [Calls -> Local]
  BY <1>0, <1>2 DEF Local, Active
<1>4. /\ mine.attempts \in 1 .. RetryLimit + 1
      /\ SavedIn(run, StepOf(mine), mine.attempts)
      /\ \A e \in executions : ~(e.step = StepOf(mine) /\ e.attempt = mine.attempts)
      /\ \A d \in Calls :
            /\ pc[d] = "executing"
            /\ StepOf(local[d].run) = StepOf(mine)
            /\ local[d].run.attempts = mine.attempts
            => d = c
  BY <1>0 DEF IInv, AttemptInv, ExecutingSaved
<1>5. new \in Execution /\ new.step = StepOf(mine) /\ new.attempt = mine.attempts
  BY <1>0, <1>4, LimitAssumption DEF Execution
<1> HIDE DEF new
<1>6. TypeOK'
  BY <1>0, <1>3, <1>5 DEF IInv, TypeOK
<1> HIDE DEF mine
<1>7. AtAStep'
  BY <1>0, <1>3 DEF IInv, AtAStep, mine
<1>8. ClaimInv'
  <2>1. \A d \in Calls : /\ Current(d)' <=> Current(d) /\ (d = c => label # "releasing")
                         /\ local'[d].run = local[d].run
    BY <1>0, <1>3 DEF Current, Working, mine
  <2>2. RevisionsBounded' /\ OneCurrent'
    BY <1>0, <1>3, <2>1 DEF IInv, ClaimInv, RevisionsBounded, OneCurrent, Working
  <2>3. CurrentHolds'
    BY <1>0, <1>3, <2>1 DEF IInv, ClaimInv, CurrentHolds, Loaded
  <2> QED
    BY <2>2, <2>3 DEF ClaimInv
<1>9. AttemptsNumbered'
  BY <1>0, <1>4, <1>5 DEF IInv, AttemptInv, AttemptsNumbered
<1>10. ExecutionsSaved'
  BY <1>0, <1>4, <1>5 DEF IInv, AttemptInv, ExecutionsSaved, SavedIn
<1>11. ExecutingSaved'
  <2> SUFFICES ASSUME NEW d \in Calls, pc'[d] = "executing"
               PROVE  LET its == local'[d].run IN
                      /\ its.attempts \in 1 .. RetryLimit + 1
                      /\ SavedIn(run', StepOf(its), its.attempts)
                      /\ \A e \in executions' :
                            ~(e.step = StepOf(its) /\ e.attempt = its.attempts)
                      /\ \A x \in Calls :
                            /\ pc'[x] = "executing"
                            /\ StepOf(local'[x].run) = StepOf(its)
                            /\ local'[x].run.attempts = its.attempts
                            => x = d
    BY DEF ExecutingSaved
  <2>1. d # c /\ pc[d] = "executing" /\ local'[d] = local[d]
    BY <1>3
  <2>2. /\ local[d].run.attempts \in 1 .. RetryLimit + 1
        /\ SavedIn(run, StepOf(local[d].run), local[d].run.attempts)
        /\ \A e \in executions :
               ~(e.step = StepOf(local[d].run) /\ e.attempt = local[d].run.attempts)
        /\ \A x \in Calls :
              /\ pc[x] = "executing"
              /\ StepOf(local[x].run) = StepOf(local[d].run)
              /\ local[x].run.attempts = local[d].run.attempts
              => x = d
    BY <2>1 DEF IInv, AttemptInv, ExecutingSaved
  <2>3. ~(new.step = StepOf(local[d].run) /\ new.attempt = local[d].run.attempts)
    BY <1>0, <1>4, <1>5, <2>1
  <2>4. \A x \in Calls : pc'[x] = "executing" => pc[x] = "executing" /\ local'[x] = local[x]
    BY <1>3
  <2> QED
    BY <1>0, <2>1, <2>2, <2>3, <2>4 DEF SavedIn
<1>12. SuccessExecuted'
  <2>1. \A step : Executed(step) => Executed(step)'
    BY <1>0 DEF Executed
  <2>2. \E e \in executions' : e.step = StepOf(mine)
    BY <1>0, <1>5
  <2>3. \A d \in Calls :
            pc'[d] = "recording" /\ local'[d].result.status = "success" =>
                \E e \in executions' : e.step = StepOf(local'[d].run)
    BY <1>0, <1>3, <2>1, <2>2 DEF IInv, ResultInv, SuccessExecuted, Executed
  <2> QED
    BY <1>0, <2>1, <2>3 DEF IInv, ResultInv, SuccessExecuted, Executed
<1>13. ReceiptFinal'
  BY <1>0 DEF IInv, ResultInv, ReceiptFinal
<1> QED
  BY <1>6, <1>7, <1>8, <1>9, <1>10, <1>11, <1>12, <1>13 DEF IInv, AttemptInv, ResultInv

-----------------------------------------------------------------------------
(* Saves.                                                                  *)

\* One run is later than another: its step or its attempts grew.
Later(r) ==
    \/ StepOf(r) > StepOf(run)
    \/ StepOf(r) = StepOf(run) /\ r.attempts >= run.attempts

\* The call that holds the claim replaces the run by a later one.
LEMMA SaveStep ==
    ASSUME IInv, NEW c \in Calls, Current(c), NEW r \in Run, NEW mine \in Local,
           NEW label \in {"stepping", "executing", "finalizing"}, Later(r),
           run' = r, mine.run = r, mine.revision = claim.revision + 1,
           claim' = [claim EXCEPT !.revision = claim.revision + 1],
           local' = [local EXCEPT ![c] = mine],
           pc' = [pc EXCEPT ![c] = label],
           UNCHANGED <<receipt, executions, recoveries>>,
           label \in {"stepping", "executing"} => StepOf(r) \in Steps,
           label = "executing" =>
               /\ r.attempts \in 1 .. RetryLimit + 1
               /\ StepOf(r) = StepOf(run) /\ r.attempts = run.attempts + 1,
           \A i \in DOMAIN r.results : r.results[i].status = "success" => Executed(i)
    PROVE  IInv'
<1>0. /\ pc \in [Calls -> Active \cup Ended \cup {"start"}]
      /\ local \in [Calls -> Local]
      /\ run \in Run /\ claim \in Claim /\ claim.revision \in Nat
      /\ run.attempts \in Nat /\ r.attempts \in Nat
      /\ StepOf(run) \in Nat /\ StepOf(r) \in Nat
  BY DEF IInv, TypeOK, Claim, Run, StepOf
<1>1. /\ pc'[c] = label /\ local'[c] = mine
      /\ \A d \in Calls : d # c => pc'[d] = pc[d] /\ local'[d] = local[d]
      /\ claim' \in Claim /\ claim'.revision = claim.revision + 1
      /\ claim'.state = claim.state /\ claim'.owner = claim.owner
  BY <1>0 DEF Claim
<1>2. claim.state = "active" /\ claim.owner = Name[c] /\ receipt = NoReceipt
  BY DEF IInv, ClaimInv, CurrentHolds, ResultInv, ReceiptFinal
<1>3. TypeOK'
  BY <1>0, <1>1 DEF IInv, TypeOK, Active
<1>4. AtAStep'
  BY <1>1 DEF IInv, AtAStep
<1>5. ClaimInv'
  <2>1. \A d \in Calls : Current(d)' <=> d = c
    BY <1>0, <1>1 DEF Current, Working, IInv, ClaimInv, RevisionsBounded, Local
  <2>2. RevisionsBounded'
    BY <1>0, <1>1 DEF IInv, ClaimInv, RevisionsBounded, Local
  <2>3. OneCurrent' /\ CurrentHolds'
    BY <1>1, <1>2, <2>1 DEF OneCurrent, CurrentHolds
  <2> QED
    BY <2>2, <2>3 DEF ClaimInv
<1>6. ASSUME NEW step \in Nat, NEW attempt \in Nat, SavedIn(run, step, attempt)
      PROVE  SavedIn(run', step, attempt)
  BY <1>0, <1>6 DEF Later, SavedIn
<1>7. AttemptsNumbered' /\ ExecutionsSaved'
  <2>1. \A e \in executions : e.step \in Nat /\ e.attempt \in Nat
    BY StepAssumption DEF IInv, TypeOK, Execution, Steps
  <2> QED
    BY <1>6, <2>1 DEF IInv, AttemptInv, AttemptsNumbered, ExecutionsSaved
<1>8. ExecutingSaved'
  <2>1. \A d \in Calls : StepOf(local[d].run) \in Nat /\ local[d].run.attempts \in Nat
    BY SMTT(30), <1>0 DEF Local, Run, StepOf
  <2>2. label = "executing" =>
            /\ \A e \in executions : ~(e.step = StepOf(r) /\ e.attempt = r.attempts)
            /\ \A d \in Calls : pc[d] = "executing" =>
                   ~(StepOf(local[d].run) = StepOf(r) /\ local[d].run.attempts = r.attempts)
            /\ SavedIn(run', StepOf(r), r.attempts)
    <3>1. \A e \in executions : e.step \in Nat /\ e.attempt \in Nat
      BY StepAssumption DEF IInv, TypeOK, Execution, Steps
    <3> QED
      BY <1>0, <2>1, <3>1 DEF IInv, AttemptInv, ExecutionsSaved, ExecutingSaved, SavedIn
  <2>3. \A d \in Calls : pc[d] = "executing" =>
            SavedIn(run', StepOf(local[d].run), local[d].run.attempts)
    BY <1>6, <2>1 DEF IInv, AttemptInv, ExecutingSaved
  <2> SUFFICES ASSUME NEW d \in Calls, pc'[d] = "executing"
               PROVE  LET its == local'[d].run IN
                      /\ its.attempts \in 1 .. RetryLimit + 1
                      /\ SavedIn(run', StepOf(its), its.attempts)
                      /\ \A e \in executions' :
                            ~(e.step = StepOf(its) /\ e.attempt = its.attempts)
                      /\ \A x \in Calls :
                            /\ pc'[x] = "executing"
                            /\ StepOf(local'[x].run) = StepOf(its)
                            /\ local'[x].run.attempts = its.attempts
                            => x = d
    BY DEF ExecutingSaved
  <2>4. CASE d = c
    BY <1>1, <2>2, <2>4
  <2>5. CASE d # c
    BY <1>1, <2>2, <2>3, <2>5 DEF IInv, AttemptInv, ExecutingSaved
  <2> QED
    BY <2>4, <2>5
<1>9. SuccessExecuted'
  BY <1>1 DEF IInv, ResultInv, SuccessExecuted, Executed
<1>10. ReceiptFinal'
  BY <1>1, <1>2 DEF IInv, ResultInv, ReceiptFinal
<1> QED
  BY <1>3, <1>4, <1>5, <1>7, <1>8, <1>9, <1>10 DEF IInv, AttemptInv, ResultInv

\* save_run_progress with a later run keeps the invariant, whether the claim
\* is still there or not.
LEMMA ProgressStep ==
    ASSUME IInv, NEW c \in Calls, pc[c] \in {"stepping", "recording"}, NEW r \in Run,
           NEW label \in {"stepping", "executing", "finalizing"},
           SaveProgress(c, r, label), UNCHANGED <<receipt, history>>,
           Current(c) => Later(r),
           label \in {"stepping", "executing"} => StepOf(r) \in Steps,
           Current(c) /\ label = "executing" =>
               /\ r.attempts \in 1 .. RetryLimit + 1
               /\ StepOf(r) = StepOf(run) /\ r.attempts = run.attempts + 1,
           Current(c) =>
               \A i \in DOMAIN r.results : r.results[i].status = "success" => Executed(i)
    PROVE  IInv'
<1> USE DEF history
<1>1. CASE Holds(c)
  <2> DEFINE mine == [model |-> local[c].model, revision |-> claim.revision + 1,
                      run |-> r, result |-> Failed]
  <2>1. /\ local[c] \in Local /\ local \in [Calls -> Local]
        /\ claim \in Claim /\ claim.revision \in Nat
        /\ local[c].revision = claim.revision
    BY <1>1 DEF IInv, TypeOK, Claim, Holds
  <2>2. Current(c)
    BY <2>1 DEF Current, Working
  <2>3. /\ local' = [local EXCEPT ![c].run = r, ![c].revision = @ + 1, ![c].result = Failed]
        /\ claim' = [claim EXCEPT !.revision = claim.revision + 1]
        /\ run' = r
        /\ pc' = [pc EXCEPT ![c] = label]
    BY <1>1, <2>1 DEF SaveProgress, Goto
  <2>4. local' = [local EXCEPT ![c] = mine]
    BY <2>1, <2>3 DEF Local
  <2>5. mine \in Local /\ mine.run = r /\ mine.revision = claim.revision + 1
    BY <2>1 DEF Local, Failed, Result, StepStatus
  <2> HIDE DEF mine
  <2> QED
    BY <2>2, <2>3, <2>4, <2>5, SaveStep
<1>2. CASE ~Holds(c)
  BY <1>2, Refused DEF SaveProgress, tables
<1> QED
  BY <1>1, <1>2

LEMMA SaveAttemptStep ==
    ASSUME IInv, NEW c \in Calls, SaveAttempt(c)
    PROVE  IInv'
<1> DEFINE mine == local[c].run
           r == CountedAttempt(mine)
<1>1. /\ pc[c] = "stepping" /\ mine.attempts <= RetryLimit
      /\ SaveProgress(c, r, "executing")
      /\ UNCHANGED <<receipt, history>>
      /\ mine \in Run /\ mine.attempts \in Nat
      /\ StepOf(mine) \in Steps
  BY LimitAssumption DEF SaveAttempt, Exhausted, IInv, TypeOK, AtAStep, Local, Run
<1>2. r \in Run /\ r.results = mine.results /\ r.attempts = mine.attempts + 1
  BY <1>1 DEF CountedAttempt, Run
<1>3. StepOf(r) = StepOf(mine) /\ r.attempts \in 1 .. RetryLimit + 1
  BY <1>1, <1>2, LimitAssumption DEF StepOf
<1>4. ASSUME Current(c)
      PROVE  /\ mine = run
             /\ \A i \in DOMAIN r.results : r.results[i].status = "success" => Executed(i)
  BY <1>1, <1>2, <1>4 DEF IInv, ClaimInv, CurrentHolds, Loaded, ResultInv, SuccessExecuted
<1>5. Current(c) => Later(r) /\ StepOf(r) = StepOf(run) /\ r.attempts = run.attempts + 1
  BY <1>1, <1>2, <1>3, <1>4 DEF Later
<1> HIDE DEF mine, r
<1> QED
  BY <1>1, <1>2, <1>3, <1>4, <1>5, ProgressStep

LEMMA RecordStep ==
    ASSUME IInv, NEW c \in Calls, Record(c)
    PROVE  IInv'
<1> DEFINE mine == local[c].run
           result == local[c].result
           r == WithResult(mine, result)
           label == IF result.status \in {"blocked", "failed"} \/ StepOf(r) \notin Steps
                    THEN "finalizing" ELSE "stepping"
<1>1. /\ pc[c] = "recording"
      /\ SaveProgress(c, r, label)
      /\ UNCHANGED <<receipt, history>>
      /\ mine \in Run /\ result \in Result
      /\ label \in {"finalizing", "stepping"}
      /\ label = "stepping" => StepOf(r) \in Steps
  BY DEF Record, IInv, TypeOK, Local
<1>2. /\ r \in Run
      /\ r.results = Append(mine.results, result)
      /\ mine.results \in Seq(Result)
  BY <1>1 DEF WithResult, Run
<1>3. /\ Len(r.results) = Len(mine.results) + 1
      /\ DOMAIN r.results = 1 .. Len(mine.results) + 1
      /\ \A i \in 1 .. Len(mine.results) : r.results[i] = mine.results[i]
      /\ r.results[Len(mine.results) + 1] = result
      /\ DOMAIN mine.results = 1 .. Len(mine.results)
      /\ Len(mine.results) \in Nat
  BY SMTT(30), <1>2
<1>4. ASSUME Current(c)
      PROVE  /\ mine = run
             /\ \A i \in DOMAIN r.results : r.results[i].status = "success" => Executed(i)
  <2>1. mine = run
    BY <1>1, <1>4 DEF IInv, ClaimInv, CurrentHolds, Loaded
  <2>2. \A i \in 1 .. Len(mine.results) : r.results[i].status = "success" => Executed(i)
    BY <1>3, <2>1 DEF IInv, ResultInv, SuccessExecuted
  <2>3. result.status = "success" => Executed(Len(mine.results) + 1)
    BY <1>1 DEF IInv, ResultInv, SuccessExecuted, StepOf
  <2> QED
    BY <1>3, <2>1, <2>2, <2>3
<1>5. Current(c) => Later(r)
  BY <1>3, <1>4 DEF Later, StepOf
<1> HIDE DEF mine, result, r, label
<1> QED
  BY <1>1, <1>2, <1>4, <1>5, ProgressStep

-----------------------------------------------------------------------------
(* The end of a run.                                                       *)

LEMMA AggregateType == \A results \in Seq(Result) : Aggregate(results) \in StepStatus
BY DEF Aggregate, StepStatus

LEMMA FinalizeStep ==
    ASSUME IInv, NEW c \in Calls, Finalize(c)
    PROVE  IInv'
<1> USE DEF tables, history
<1>1. CASE Holds(c)
  <2> DEFINE mine == local[c].run
             new == [status |-> Aggregate(mine.results), results |-> mine.results]
  <2>0. /\ pc \in [Calls -> Active \cup Ended \cup {"start"}]
        /\ local \in [Calls -> Local] /\ NoLocal \in Local
        /\ claim \in Claim /\ claim.revision \in Nat
        /\ local[c].revision = claim.revision
        /\ run \in Run
    BY <1>1 DEF IInv, TypeOK, Claim, Holds, NoLocal, Local, NewRun, Run, Failed, Result,
       StepStatus
  <2>1. Current(c) /\ mine = run
    BY <1>1, <2>0 DEF Finalize, Current, Working, Loaded, IInv, ClaimInv, CurrentHolds
  <2>2. /\ run' = run
        /\ claim' = [claim EXCEPT !.state = "finalized", !.revision = local[c].revision + 2]
        /\ receipt' = new
        /\ pc' = [pc EXCEPT ![c] = "returned"]
        /\ local' = [local EXCEPT ![c] = NoLocal]
        /\ executions' = executions /\ recoveries' = recoveries
    BY <1>1, <2>1 DEF Finalize, End, Goto
  <2>3. claim' = [owner |-> claim.owner, state |-> "finalized",
                  revision |-> claim.revision + 2]
    BY <2>0, <2>2 DEF Claim
  <2>4. claim' \in Claim /\ claim'.state = "finalized" /\ claim'.revision = claim.revision + 2
    BY <2>0, <2>3 DEF Claim
  <2>5. new \in Receipt /\ new # NoReceipt
    BY <2>0, <2>1, AggregateType DEF Receipt, NoReceipt, Run, StepStatus
  <2>6. /\ pc'[c] = "returned"
        /\ \A d \in Calls : d # c => pc'[d] = pc[d] /\ local'[d] = local[d]
    BY <2>0, <2>2
  <2>7. TypeOK'
    BY <2>0, <2>2, <2>4, <2>5 DEF IInv, TypeOK, Ended
  <2>8. AtAStep'
    BY <2>6 DEF IInv, AtAStep
  <2>9. ClaimInv'
    <3>1. \A d \in Calls : ~Current(d)'
      BY <2>0, <2>4, <2>6 DEF Current, Working, IInv, ClaimInv, RevisionsBounded, Local
    <3>2. RevisionsBounded'
      BY <2>0, <2>4, <2>6 DEF IInv, ClaimInv, RevisionsBounded, Working, Local
    <3> QED
      BY <3>1, <3>2 DEF ClaimInv, OneCurrent, CurrentHolds
  <2>10. AttemptInv'
    BY <2>2, <2>6 DEF IInv, AttemptInv, AttemptsNumbered, ExecutionsSaved, ExecutingSaved,
       SavedIn
  <2>11. ResultInv'
    BY <2>1, <2>2, <2>4, <2>5, <2>6 DEF IInv, ResultInv, SuccessExecuted, Executed,
       ReceiptFinal
  <2> QED
    BY <2>7, <2>8, <2>9, <2>10, <2>11 DEF IInv
<1>2. CASE ~Holds(c)
  BY <1>2, Refused DEF Finalize
<1> QED
  BY <1>1, <1>2

-----------------------------------------------------------------------------
(* The theorems.                                                           *)

LEMMA NextStep ==
    ASSUME IInv, [Next]_vars
    PROVE  IInv'
<1>1. ASSUME NEW c \in Calls, Proceed(c)
      PROVE  IInv'
  BY <1>1, ClaimActions, PrivateActions, SaveAttemptStep, ExecuteStep, RecordStep,
     FinalizeStep DEF Proceed
<1>2. ASSUME NEW c \in Calls, ReadReceipt(c) \/ Crash(c)
      PROVE  IInv'
  BY <1>2, PrivateActions
<1>3. ASSUME NEW name \in RecoveryNames, Recover(name)
      PROVE  IInv'
  BY <1>3, RecoverStep
<1>4. CASE UNCHANGED vars
  BY <1>4 DEF vars, IInv, TypeOK, AtAStep, ClaimInv, RevisionsBounded, OneCurrent, CurrentHolds,
     Current, AttemptInv, AttemptsNumbered, ExecutionsSaved, ExecutingSaved, ResultInv,
     SuccessExecuted, Executed, ReceiptFinal
<1> QED
  BY <1>1, <1>2, <1>3, <1>4 DEF Next

THEOREM Invariance == Spec => []IInv
<1>1. IInv /\ [Next]_vars => IInv'
  BY NextStep
<1> QED
  BY <1>1, InitHolds, PTL DEF Spec

\* Every variable keeps its type, for any steps, calls, names and limits.
THEOREM TypeCorrect == Spec => []TypeOK
<1>1. IInv => TypeOK
  BY DEF IInv
<1> QED
  BY <1>1, Invariance, PTL

\* Crashes, rivals and recoveries never give a step one attempt more than its
\* contract allows, and no attempt is made twice.
THEOREM AttemptsNumberedCorrect == Spec => []AttemptsNumbered
<1>1. IInv => AttemptsNumbered
  BY DEF IInv, AttemptInv
<1> QED
  BY <1>1, Invariance, PTL

\* A receipt ends the run, says what the run recorded, and reports success only
\* of steps that were executed and succeeded.
THEOREM ReceiptIsTruthfulCorrect == Spec => []ReceiptIsTruthful
<1>1. ASSUME IInv, receipt.status = "success", NEW s \in Steps
      PROVE  /\ s \in DOMAIN receipt.results
             /\ receipt.results[s].status = "success"
             /\ Executed(s)
  <2>1. receipt # NoReceipt
    BY <1>1 DEF NoReceipt
  <2>2. /\ run.results \in Seq(Result)
        /\ receipt.results = run.results
        /\ Aggregate(run.results) = "success"
    BY <1>1, <2>1 DEF IInv, TypeOK, Run, ResultInv, ReceiptFinal
  <2>3. /\ \A i \in DOMAIN run.results : run.results[i].status \in {"success"}
        /\ Len(run.results) >= LastStep
    <3>1. /\ \A i \in DOMAIN run.results :
                 run.results[i].status \notin {"blocked", "failed", "partial"}
          /\ ~(Len(run.results) < LastStep)
      BY <2>2 DEF Aggregate
    <3>2. ASSUME NEW i \in DOMAIN run.results
          PROVE  run.results[i].status \in StepStatus
      <4>1. run.results[i] \in Result
        BY <2>2
      <4> QED
        BY <4>1 DEF Result
    <3>3. Len(run.results) \in Nat /\ LastStep \in Nat
      BY <2>2, StepAssumption
    <3> QED
      BY <3>1, <3>2, <3>3 DEF StepStatus
  <2>4. s \in DOMAIN run.results
    BY <2>2, <2>3, StepAssumption DEF Steps
  <2> QED
    BY <1>1, <2>2, <2>3, <2>4 DEF IInv, ResultInv, SuccessExecuted
<1>2. IInv => ReceiptIsTruthful
  BY <1>1 DEF ReceiptIsTruthful, IInv, ResultInv, ReceiptFinal, Executed
<1> QED
  BY <1>2, Invariance, PTL

\* What a save of progress may do to the results.
LEMMA ProgressGrows ==
    ASSUME IInv, NEW c \in Calls, pc[c] \in {"stepping", "recording"}, NEW r \in Run,
           NEW label, SaveProgress(c, r, label), UNCHANGED receipt,
           Len(r.results) \in {Len(local[c].run.results), Len(local[c].run.results) + 1},
           \A i \in DOMAIN local[c].run.results : r.results[i] = local[c].run.results[i]
    PROVE  /\ Len(run'.results) \in {Len(run.results), Len(run.results) + 1}
           /\ \A i \in DOMAIN run.results : run'.results[i] = run.results[i]
           /\ claim.state = "finalized" => UNCHANGED tables
<1>1. CASE Holds(c)
  <2>1. Current(c)
    BY <1>1 DEF Holds, Current, Working
  <2>2. local[c].run = run /\ claim.state = "active"
    BY <2>1 DEF IInv, ClaimInv, CurrentHolds, Loaded
  <2>3. run' = r
    BY <1>1 DEF SaveProgress
  <2> QED
    BY <2>2, <2>3
<1>2. CASE ~Holds(c)
  BY <1>2 DEF SaveProgress, tables
<1> QED
  BY <1>1, <1>2

\* The results of a run only grow, one step at a time, and a finalized run
\* stays as it is: a call that lost its claim cannot write over them.
THEOREM ResultsOnlyGrowCorrect == Spec => ResultsOnlyGrow
<1> DEFINE Grow ==
        /\ Len(run'.results) \in {Len(run.results), Len(run.results) + 1}
        /\ \A i \in DOMAIN run.results : run'.results[i] = run.results[i]
        /\ claim.state = "finalized" => UNCHANGED tables
<1>1. ASSUME IInv, NEW c \in Calls, SaveAttempt(c)
      PROVE  Grow
  <2>1. local[c].run \in Run
    BY <1>1 DEF IInv, TypeOK, Local
  <2>2. /\ CountedAttempt(local[c].run) \in Run
        /\ CountedAttempt(local[c].run).results = local[c].run.results
    BY <2>1 DEF CountedAttempt, Run
  <2> QED
    BY <1>1, <2>2, ProgressGrows DEF SaveAttempt
<1>2. ASSUME IInv, NEW c \in Calls, Record(c)
      PROVE  Grow
  <2> DEFINE mine == local[c].run
             r == WithResult(mine, local[c].result)
             label == IF local[c].result.status \in {"blocked", "failed"} \/ StepOf(r) \notin Steps
                      THEN "finalizing" ELSE "stepping"
  <2>1. mine \in Run /\ local[c].result \in Result
    BY <1>2 DEF IInv, TypeOK, Local
  <2>2. r \in Run /\ r.results = Append(mine.results, local[c].result)
    BY <2>1 DEF WithResult, Run
  <2>3. mine.results \in Seq(Result)
    BY <2>1 DEF Run
  <2>4. /\ Len(r.results) = Len(mine.results) + 1
        /\ \A i \in DOMAIN mine.results : r.results[i] = mine.results[i]
    BY <2>1, <2>2, <2>3
  <2>5. pc[c] = "recording" /\ SaveProgress(c, r, label) /\ UNCHANGED receipt
    BY <1>2 DEF Record
  <2> HIDE DEF r, label
  <2> QED
    BY <1>2, <2>2, <2>4, <2>5, ProgressGrows
<1>3. ASSUME IInv, NEW c \in Calls, Finalize(c)
      PROVE  Grow
  <2>1. CASE Holds(c)
    <3>1. Current(c)
      BY <1>3, <2>1 DEF Finalize, Holds, Current, Working
    <3>2. local[c].run = run /\ claim.state = "active"
      BY <1>3, <3>1 DEF Finalize, IInv, ClaimInv, CurrentHolds, Loaded
    <3> QED
      BY <1>3, <2>1, <3>2 DEF Finalize
  <2>2. CASE ~Holds(c)
    BY <1>3, <2>2 DEF Finalize, tables
  <2> QED
    BY <2>1, <2>2
<1>4. ASSUME NEW c \in Calls, ClaimRun(c)
      PROVE  Grow
  BY <1>4 DEF ClaimRun, Claimable, tables
<1>5. ASSUME NEW c \in Calls, Release(c)
      PROVE  Grow
  BY <1>5 DEF Release, Releasable, tables
<1>6. ASSUME NEW name \in RecoveryNames, Recover(name)
      PROVE  Grow
  BY <1>6 DEF Recover
<1>7. ASSUME NEW c \in Calls,
             \/ ReadReceipt(c) \/ LoadRun(c) \/ GiveUp(c) \/ Raise(c)
             \/ Execute(c) \/ Crash(c)
      PROVE  Grow
  BY <1>7 DEF ReadReceipt, LoadRun, GiveUp, Raise, Execute, Crash, tables
<1>8. IInv /\ [Next]_vars => [Grow]_vars
  BY <1>1, <1>2, <1>3, <1>4, <1>5, <1>6, <1>7 DEF Next, Proceed
<1> QED
  BY <1>8, Invariance, PTL DEF Spec, ResultsOnlyGrow

-----------------------------------------------------------------------------
(* The lease.                                                              *)

Holder == [i \in {"run"} |-> IF claim.state = "active" THEN claim.owner ELSE None]
Outcome == [i \in {"run"} |-> receipt]

\* Every step is a step of the lease or leaves it alone.
LEMMA LeaseNext ==
    ASSUME IInv, [Next]_vars
    PROVE  [Lease!Next]_<<Holder, Outcome>>
<1> USE DEF tables, history
<1>0. /\ claim \in Claim /\ claim.owner \in Names \cup {None}
      /\ \A c \in Calls : Name[c] \in Names
      /\ None \notin Names /\ RecoveryNames \subseteq Names
      /\ claim.state # "finalized" => receipt = NoReceipt
  BY NameAssumption DEF IInv, TypeOK, Claim, ResultInv, ReceiptFinal
<1>1. ASSUME receipt' = receipt, claim'.state = claim.state, claim'.owner = claim.owner
      PROVE  [Lease!Next]_<<Holder, Outcome>>
  BY <1>1 DEF Holder, Outcome
<1>2. ASSUME NEW c \in Calls, pc[c] \in {"stepping", "recording"}, NEW r, NEW label,
             SaveProgress(c, r, label), UNCHANGED receipt
      PROVE  [Lease!Next]_<<Holder, Outcome>>
  <2>1. claim'.state = claim.state /\ claim'.owner = claim.owner
    BY <1>0, <1>2 DEF SaveProgress, Claim
  <2> QED
    BY <1>1, <1>2, <2>1
<1>3. ASSUME NEW c \in Calls, ClaimRun(c)
      PROVE  [Lease!Next]_<<Holder, Outcome>>
  <2>1. CASE claim.state = "unclaimed" /\ Claimable(Name[c])
    <3>1. claim' = [owner |-> Name[c], state |-> "active", revision |-> claim.revision + 1]
          /\ receipt' = receipt
      BY <1>3, <2>1 DEF ClaimRun
    <3>2. Lease!Acquire("run", Name[c])
      BY <1>0, <2>1, <3>1 DEF Lease!Acquire, Holder, Outcome
    <3> QED
      BY <1>0, <3>2 DEF Lease!Next
  <2>2. CASE claim.state # "unclaimed" /\ Claimable(Name[c])
    <3>1. claim' = [owner |-> Name[c], state |-> "active", revision |-> claim.revision + 1]
          /\ receipt' = receipt
      BY <1>3, <2>2 DEF ClaimRun
    <3>2. claim.state = "active" /\ claim.owner = Name[c]
      BY <2>2 DEF Claimable
    <3> QED
      BY <1>1, <3>1, <3>2
  <2>3. CASE ~Claimable(Name[c])
    BY <1>1, <1>3, <2>3 DEF ClaimRun
  <2> QED
    BY <2>1, <2>2, <2>3
<1>4. ASSUME NEW c \in Calls, Release(c)
      PROVE  [Lease!Next]_<<Holder, Outcome>>
  <2>1. CASE Releasable(Name[c])
    <3>1. claim' = [claim EXCEPT !.state = "unclaimed", !.revision = @ + 1]
          /\ receipt' = receipt
      BY <1>4, <2>1 DEF Release
    <3>2. claim'.state = "unclaimed"
      BY <1>0, <3>1 DEF Claim
    <3>3. Lease!Release("run")
      BY <1>0, <2>1, <3>1, <3>2 DEF Lease!Release, Holder, Outcome, Releasable
    <3> QED
      BY <3>3 DEF Lease!Next
  <2>2. CASE ~Releasable(Name[c])
    BY <1>1, <1>4, <2>2 DEF Release
  <2> QED
    BY <2>1, <2>2
<1>5. ASSUME NEW name \in RecoveryNames, Recover(name)
      PROVE  [Lease!Next]_<<Holder, Outcome>>
  <2>1. Lease!TakeOver("run", name)
    BY <1>0, <1>5 DEF Recover, Lease!TakeOver, Holder, Outcome
  <2> QED
    BY <1>5, <2>1 DEF Lease!Next
<1>6. ASSUME NEW c \in Calls, Finalize(c)
      PROVE  [Lease!Next]_<<Holder, Outcome>>
  <2>1. CASE Holds(c)
    <3>1. Current(c)
      BY <1>6, <2>1 DEF Finalize, Holds, Current, Working
    <3>2. claim.state = "active" /\ claim.owner = Name[c] /\ receipt = NoReceipt
      BY <1>0, <3>1 DEF IInv, ClaimInv, CurrentHolds
    <3>3. /\ claim' = [claim EXCEPT !.state = "finalized", !.revision = local[c].revision + 2]
          /\ receipt' = [status |-> Aggregate(local[c].run.results),
                         results |-> local[c].run.results]
      BY <1>6, <2>1 DEF Finalize
    <3>4. claim'.state = "finalized"
      BY <1>0, <3>3 DEF Claim
    <3>5. Aggregate(local[c].run.results) \in StepStatus
      BY AggregateType DEF IInv, TypeOK, Local, Run
    <3>6. receipt' # NoReceipt
      BY <3>3, <3>5 DEF NoReceipt, StepStatus
    <3>7. Lease!Settle("run")
      BY <1>0, <3>2, <3>4, <3>6 DEF Lease!Settle, Holder, Outcome
    <3> QED
      BY <3>7 DEF Lease!Next
  <2>2. CASE ~Holds(c)
    BY <1>1, <1>6, <2>2 DEF Finalize
  <2> QED
    BY <2>1, <2>2
<1>7. ASSUME NEW c \in Calls,
             \/ ReadReceipt(c) \/ LoadRun(c) \/ GiveUp(c) \/ Raise(c)
             \/ Execute(c) \/ Crash(c)
      PROVE  [Lease!Next]_<<Holder, Outcome>>
  BY <1>1, <1>7 DEF ReadReceipt, LoadRun, GiveUp, Raise, Execute, Crash
<1>8. ASSUME NEW c \in Calls, SaveAttempt(c) \/ Record(c)
      PROVE  [Lease!Next]_<<Holder, Outcome>>
  BY <1>2, <1>8 DEF SaveAttempt, Record
<1>9. CASE UNCHANGED vars
  BY <1>1, <1>9 DEF vars
<1> QED
  BY <1>3, <1>4, <1>5, <1>6, <1>7, <1>8, <1>9 DEF Next, Proceed

\* The claim columns implement the lease for any worker names: only a recovery
\* takes an active claim from its name, and a receipt is final.
THEOREM LeaseCorrect == Spec => HoldsLease
<1>1. Init => Lease!Init
  BY DEF Init, Lease!Init
<1>2. IInv /\ [Next]_vars =>
          [Lease!Next]_<<[i \in {"run"} |-> IF claim.state = "active" THEN claim.owner ELSE None],
                         [i \in {"run"} |-> receipt]>>
  BY LeaseNext DEF Holder, Outcome
<1> QED
  BY <1>1, <1>2, Invariance, PTL DEF Spec, HoldsLease, Lease!Spec

\* The recorded progress of a run holds as a whole: its type, the lease of
\* ClaimLease, and results that only grow.
THEOREM ProgressHoldsCorrect == Spec => ProgressHolds
BY TypeCorrect, LeaseCorrect, ResultsOnlyGrowCorrect, PTL DEF ProgressHolds

-----------------------------------------------------------------------------
(* The budget.                                                             *)

\* What the accepted results cost, in the words of BudgetKept.
Counted(results) ==
    [i \in DOMAIN results |-> IF results[i].status = "blocked" THEN 0 ELSE results[i].cost]
Accepted(results) == Sum(Counted(results))
Within(results) == Accepted(results) <= Ceiling

\* The result that is about to be saved fits, or is marked blocked.
Fits(mine) ==
    mine.result.status # "blocked" => Accepted(mine.run.results) + mine.result.cost <= Ceiling

BudgetInv ==
    /\ Within(run.results)
    /\ \A c \in Calls :
          /\ Within(local[c].run.results)
          /\ pc[c] = "recording" => Fits(local[c])

LEMMA CountedType ==
    ASSUME NEW results \in Seq(Result)
    PROVE  Counted(results) \in Seq(Nat) /\ Len(Counted(results)) = Len(results)
<1>1. DOMAIN results = 1 .. Len(results) /\ Len(results) \in Nat
  OBVIOUS
<1>2. \A i \in 1 .. Len(results) : results[i].cost \in Nat
  <2>1. \A i \in 1 .. Len(results) : results[i] \in Result
    OBVIOUS
  <2> QED BY <2>1 DEF Result
<1> QED BY <1>1, <1>2 DEF Counted

LEMMA AcceptedType == ASSUME NEW results \in Seq(Result) PROVE Accepted(results) \in Nat
BY CountedType, SumType DEF Accepted

\* What is accepted is part of what was spent.
LEMMA AcceptedUnderTotal ==
    ASSUME NEW r \in Run
    PROVE  Accepted(r.results) <= Total(r) /\ Total(r) \in Nat
<1> DEFINE results == r.results
           all == [i \in DOMAIN results |-> results[i].cost]
<1>1. results \in Seq(Result)
  BY DEF Run
<1>2. DOMAIN results = 1 .. Len(results) /\ Len(results) \in Nat
  BY <1>1
<1>3. \A i \in 1 .. Len(results) : results[i].cost \in Nat
  <2>1. \A i \in 1 .. Len(results) : results[i] \in Result
    BY <1>1, <1>2
  <2> HIDE DEF results
  <2> QED BY <2>1 DEF Result
<1>4. all \in Seq(Nat) /\ Len(all) = Len(results)
  BY <1>2, <1>3
<1>5. Counted(results) \in Seq(Nat) /\ Len(Counted(results)) = Len(results)
  BY <1>1, CountedType
<1>6. \A k \in 1 .. Len(results) : Counted(results)[k] <= all[k]
  BY <1>2, <1>3 DEF Counted
<1>7. Total(r) = Sum(all)
  BY DEF Total
<1> HIDE DEF all, results
<1>8. Sum(Counted(results)) <= Sum(all)
  BY <1>4, <1>5, <1>6, SumOrdered
<1>9. Sum(all) \in Nat
  BY <1>4, SumType
<1> QED BY <1>7, <1>8, <1>9 DEF Accepted, results

LEMMA AcceptedAppend ==
    ASSUME NEW results \in Seq(Result), NEW result \in Result
    PROVE  Accepted(Append(results, result)) =
               Accepted(results) + (IF result.status = "blocked" THEN 0 ELSE result.cost)
<1> DEFINE longer == Append(results, result)
<1>1. /\ longer \in Seq(Result) /\ Len(longer) = Len(results) + 1 /\ Len(results) \in Nat
      /\ \A k \in 1 .. Len(results) : longer[k] = results[k]
      /\ longer[Len(results) + 1] = result
  OBVIOUS
<1> HIDE DEF longer
<1>2. /\ Counted(results) \in Seq(Nat) /\ Len(Counted(results)) = Len(results)
      /\ Counted(longer) \in Seq(Nat) /\ Len(Counted(longer)) = Len(results) + 1
  BY <1>1, CountedType
<1>3. DOMAIN results = 1 .. Len(results) /\ DOMAIN longer = 1 .. Len(results) + 1
  BY <1>1
<1>4. \A k \in 1 .. Len(results) : Counted(longer)[k] = Counted(results)[k]
  BY <1>1, <1>3 DEF Counted
<1>5. Counted(longer)[Len(results) + 1] = IF result.status = "blocked" THEN 0 ELSE result.cost
  BY <1>1, <1>3 DEF Counted
<1>6. Sum(Counted(longer)) = Sum(Counted(results)) + Counted(longer)[Len(Counted(longer))]
  BY <1>2, <1>4, SumAppend
<1> QED BY <1>2, <1>5, <1>6 DEF Accepted, longer

\* A call goes to another place, with a copy of the run that keeps the budget,
\* and perhaps saves it.
LEMMA BudgetStep ==
    ASSUME IInv, BudgetInv, NEW c \in Calls, NEW label, NEW mine,
           pc' = [pc EXCEPT ![c] = label], local' = [local EXCEPT ![c] = mine],
           Within(mine.run.results), label = "recording" => Fits(mine),
           run' = run \/ run' = mine.run
    PROVE  BudgetInv'
<1>1. /\ pc'[c] = label /\ local'[c] = mine
      /\ \A d \in Calls : d # c => pc'[d] = pc[d] /\ local'[d] = local[d]
  BY DEF IInv, TypeOK
<1>2. Within(run'.results)
  BY DEF BudgetInv
<1>3. ASSUME NEW d \in Calls
      PROVE  /\ Within(local'[d].run.results)
             /\ pc'[d] = "recording" => Fits(local'[d])
  BY <1>1 DEF BudgetInv
<1> QED BY <1>2, <1>3 DEF BudgetInv

LEMMA NothingSpent == Within(<<>>)
<1>1. Counted(<<>>) = <<>>
  BY DEF Counted
<1> QED BY <1>1, SumEmpty, CostAssumption DEF Within, Accepted

\* A step that keeps the copy of the run, its result, and the table.
LEMMA BudgetMove ==
    ASSUME IInv, BudgetInv, NEW c \in Calls, NEW label,
           pc' = [pc EXCEPT ![c] = label], UNCHANGED <<run, local>>, label # "recording"
    PROVE  BudgetInv'
<1>1. local' = [local EXCEPT ![c] = local[c]] /\ Within(local[c].run.results)
  BY DEF IInv, TypeOK, BudgetInv
<1> QED BY <1>1, BudgetStep

LEMMA BudgetEnd ==
    ASSUME IInv, BudgetInv, NEW c \in Calls, NEW label, End(c, label), label # "recording",
           run' = run \/ run' = local[c].run
    PROVE  BudgetInv'
<1>1. /\ pc' = [pc EXCEPT ![c] = label]
      /\ local' = [local EXCEPT ![c] = NoLocal]
      /\ Within(NoLocal.run.results)
  BY NothingSpent DEF End, Goto, NoLocal, NewRun
<1>2. CASE run' = run
  BY <1>1, <1>2, BudgetStep
<1>3. CASE run' = local[c].run
  <2>1. /\ pc'[c] = label /\ local'[c] = NoLocal
        /\ \A d \in Calls : d # c => pc'[d] = pc[d] /\ local'[d] = local[d]
    BY <1>1 DEF IInv, TypeOK
  <2>2. Within(run'.results)
    BY <1>3 DEF BudgetInv
  <2>3. ASSUME NEW d \in Calls
        PROVE  /\ Within(local'[d].run.results)
               /\ pc'[d] = "recording" => Fits(local'[d])
    BY <1>1, <2>1 DEF BudgetInv
  <2> QED BY <2>2, <2>3 DEF BudgetInv
<1> QED BY <1>2, <1>3

\* A save of a copy that keeps the budget.
LEMMA BudgetSave ==
    ASSUME IInv, BudgetInv, NEW c \in Calls, NEW r, NEW label, SaveProgress(c, r, label),
           Within(r.results), label # "recording"
    PROVE  BudgetInv'
<1>1. CASE Holds(c)
  <2> DEFINE mine == [local[c] EXCEPT !.run = r, !.revision = @ + 1, !.result = Failed]
  <2>1. local[c] \in Local /\ local \in [Calls -> Local]
    BY DEF IInv, TypeOK
  <2>2. local' = [local EXCEPT ![c].run = r, ![c].revision = @ + 1, ![c].result = Failed]
    BY <1>1 DEF SaveProgress
  <2>3. local' = [local EXCEPT ![c] = mine]
    BY <2>1, <2>2 DEF Local
  <2>4. mine.run = r
    BY <2>1 DEF Local
  <2>5. run' = r /\ pc' = [pc EXCEPT ![c] = label]
    BY <1>1 DEF SaveProgress, Goto
  <2> HIDE DEF mine
  <2> QED BY <2>3, <2>4, <2>5, BudgetStep
<1>2. CASE ~Holds(c)
  BY <1>2, BudgetMove DEF SaveProgress, Goto
<1> QED BY <1>1, <1>2

LEMMA BudgetOfCall ==
    ASSUME IInv, BudgetInv, NEW c \in Calls, ReadReceipt(c) \/ Proceed(c) \/ Crash(c)
    PROVE  BudgetInv'
<1> USE DEF tables, history
<1>0. /\ local \in [Calls -> Local] /\ local[c] \in Local
      /\ local[c].run \in Run /\ local[c].result \in Result
      /\ run \in Run
      /\ local[c].run.results \in Seq(Result)
      /\ Within(local[c].run.results) /\ Within(run.results)
  BY DEF IInv, TypeOK, BudgetInv, Local, Run
<1>1. CASE ReadReceipt(c)
  <2>1. \E label : label # "recording" /\ pc' = [pc EXCEPT ![c] = label]
    BY <1>1 DEF ReadReceipt, Goto
  <2> QED BY <1>1, <2>1, BudgetMove DEF ReadReceipt
<1>2. CASE ClaimRun(c)
  <2>1. CASE Claimable(Name[c])
    <3> DEFINE mine == [local[c] EXCEPT !.revision = claim.revision + 1]
    <3>1. local' = [local EXCEPT ![c] = mine] /\ mine.run = local[c].run
      BY <1>0, <1>2, <2>1 DEF ClaimRun, Local
    <3>2. pc' = [pc EXCEPT ![c] = "loading"] /\ run' = run
      BY <1>2, <2>1 DEF ClaimRun, Goto
    <3> HIDE DEF mine
    <3> QED BY <1>0, <3>1, <3>2, BudgetStep
  <2>2. CASE ~Claimable(Name[c])
    BY <1>2, <2>2, BudgetEnd DEF ClaimRun
  <2> QED BY <2>1, <2>2
<1>3. CASE LoadRun(c)
  <2>1. PICK model \in BOOLEAN :
            local' = [local EXCEPT ![c].run = run, ![c].model = model]
    BY <1>3 DEF LoadRun
  <2> DEFINE mine == [local[c] EXCEPT !.run = run, !.model = model]
  <2>2. local' = [local EXCEPT ![c] = mine] /\ mine.run = run
    BY <1>0, <2>1 DEF Local
  <2>3. run' = run /\ \E label : label # "recording" /\ pc' = [pc EXCEPT ![c] = label]
    BY <1>3 DEF LoadRun, Goto
  <2> HIDE DEF mine
  <2> QED BY <1>0, <2>2, <2>3, BudgetStep
<1>4. CASE GiveUp(c)
  <2> DEFINE result == IF Exhausted(c) \/ NoExecutor(c) THEN Failed ELSE Blocked
             mine == [local[c] EXCEPT !.result = result]
  <2>1. local' = [local EXCEPT ![c].result = result]
    BY <1>4 DEF GiveUp
  <2>2. result.cost = 0
    BY DEF Failed, Blocked
  <2> HIDE DEF result
  <2>3. local' = [local EXCEPT ![c] = mine] /\ mine.run = local[c].run /\ mine.result = result
    BY <1>0, <2>1 DEF Local
  <2>4. run' = run /\ pc' = [pc EXCEPT ![c] = "recording"]
    BY <1>4 DEF GiveUp, Goto
  <2> HIDE DEF mine
  <2>5. Fits(mine)
    <3>1. Accepted(local[c].run.results) \in Nat
      BY <1>0, AcceptedType
    <3>2. Accepted(mine.run.results) + mine.result.cost = Accepted(local[c].run.results)
      BY <2>2, <2>3, <3>1
    <3> QED BY <1>0, <3>2 DEF Within, Fits
  <2> QED BY <1>0, <2>3, <2>4, <2>5, BudgetStep
<1>5. CASE Raise(c)
  BY <1>5, BudgetMove DEF Raise, Goto
<1>6. CASE SaveAttempt(c)
  <2> DEFINE r == CountedAttempt(local[c].run)
  <2>1. r.results = local[c].run.results
    BY <1>0 DEF CountedAttempt, Run
  <2>2. SaveProgress(c, r, "executing")
    BY <1>6 DEF SaveAttempt
  <2> HIDE DEF r
  <2> QED BY <1>0, <2>1, <2>2, BudgetSave
<1>7. CASE Execute(c)
  <2>1. CASE \E label : label # "recording" /\ Goto(c, label) /\ UNCHANGED local
    BY <1>7, <2>1, BudgetMove DEF Execute, Goto
  <2>2. CASE \E status \in StepStatus, cost \in 0 .. Quote[StepOf(local[c].run)] + 1 :
                /\ local' = [local EXCEPT ![c].result =
                        CheckedResult(local[c].run, [status |-> status, cost |-> cost])]
                /\ Goto(c, "recording")
    <3>1. PICK status \in StepStatus, cost \in 0 .. Quote[StepOf(local[c].run)] + 1 :
                /\ local' = [local EXCEPT ![c].result =
                        CheckedResult(local[c].run, [status |-> status, cost |-> cost])]
                /\ Goto(c, "recording")
      BY <2>2
    <3> DEFINE given == [status |-> status, cost |-> cost]
               result == CheckedResult(local[c].run, given)
               mine == [local[c] EXCEPT !.result = result]
    <3>2. result.status # "blocked" => Total(local[c].run) + result.cost <= Ceiling
      <4>0. given.cost = cost
        OBVIOUS
      <4>1. [given EXCEPT !.status = "blocked"].status = "blocked"
        OBVIOUS
      <4> HIDE DEF given
      <4>2. CASE result = given
        <5>1. SUFFICES ASSUME result.status # "blocked" PROVE Total(local[c].run) + given.cost <= Ceiling
          BY <4>2
        <5>2. ~(given.cost > Quote[StepOf(local[c].run)] \/ Total(local[c].run) + given.cost > Ceiling)
              \/ result = [given EXCEPT !.status = "blocked"]
          BY DEF CheckedResult
        <5>3. ~(Total(local[c].run) + given.cost > Ceiling)
          BY <4>1, <5>1, <5>2
        <5>4. Total(local[c].run) \in Nat /\ given.cost \in Nat /\ Ceiling \in Nat
          <6>1. Total(local[c].run) \in Nat
            BY <1>0, AcceptedUnderTotal
          <6> QED BY <4>0, <6>1, CostAssumption
        <5> QED BY <5>3, <5>4
      <4>3. CASE result = [given EXCEPT !.status = "blocked"]
        BY <4>1, <4>3
      <4> QED BY <4>2, <4>3 DEF CheckedResult
    <3>3. result.cost \in Nat
      BY DEF CheckedResult
    <3> HIDE DEF result
    <3>4. local' = [local EXCEPT ![c] = mine] /\ mine.run = local[c].run /\ mine.result = result
      BY <1>0, <3>1 DEF Local, result
    <3>5. run' = run /\ pc' = [pc EXCEPT ![c] = "recording"]
      BY <1>7, <3>1 DEF Execute, Goto
    <3> HIDE DEF mine
    <3>6. Fits(mine)
      <4>1. /\ Accepted(local[c].run.results) <= Total(local[c].run)
            /\ Total(local[c].run) \in Nat
            /\ Accepted(local[c].run.results) \in Nat
        BY <1>0, AcceptedUnderTotal, AcceptedType
      <4> DEFINE a == Accepted(local[c].run.results)
                 b == Total(local[c].run)
                 k == result.cost
      <4>2. Ceiling \in Nat
        BY CostAssumption
      <4>3. result.status # "blocked" => a + k <= Ceiling
        <5>1. a \in Nat /\ b \in Nat /\ k \in Nat /\ a <= b
          BY <3>3, <4>1
        <5>2. result.status # "blocked" => b + k <= Ceiling
          BY <3>2
        <5> HIDE DEF a, b, k
        <5> QED BY <4>2, <5>1, <5>2
      <4> QED BY <3>4, <4>3 DEF Fits
    <3> QED BY <1>0, <3>4, <3>5, <3>6, BudgetStep
  <2> QED BY <1>7, <2>1, <2>2 DEF Execute
<1>8. CASE Record(c)
  <2> DEFINE result == local[c].result
             next == WithResult(local[c].run, result)
  <2>1. next.results = Append(local[c].run.results, result)
    BY DEF WithResult
  <2>2. \E label : label # "recording" /\ SaveProgress(c, next, label)
    <3> DEFINE label == IF result.status \in {"blocked", "failed"} \/ StepOf(next) \notin Steps
                        THEN "finalizing" ELSE "stepping"
    <3>1. SaveProgress(c, next, label)
      BY <1>8 DEF Record
    <3>2. label # "recording"
      OBVIOUS
    <3> HIDE DEF label
    <3> QED BY <3>1, <3>2
  <2>3. Fits(local[c])
    BY <1>8 DEF Record, BudgetInv
  <2>4. Accepted(next.results) =
            Accepted(local[c].run.results) + (IF result.status = "blocked" THEN 0 ELSE result.cost)
    BY <1>0, <2>1, AcceptedAppend
  <2>5. Within(next.results)
    <3>1. Accepted(local[c].run.results) \in Nat
      BY <1>0, AcceptedType
    <3> HIDE DEF next
    <3> QED BY <1>0, <2>3, <2>4, <3>1 DEF Within, Fits
  <2> HIDE DEF next
  <2> QED BY <2>2, <2>5, BudgetSave
<1>9. CASE Finalize(c)
  <2>1. CASE Holds(c)
    BY <1>9, <2>1, BudgetEnd DEF Finalize
  <2>2. CASE ~Holds(c)
    BY <1>9, <2>2, BudgetMove DEF Finalize, Goto
  <2> QED BY <2>1, <2>2
<1>10. CASE Release(c)
  BY <1>10, BudgetEnd DEF Release
<1>11. CASE Crash(c)
  BY <1>11, BudgetEnd DEF Crash
<1> QED
  BY <1>1, <1>2, <1>3, <1>4, <1>5, <1>6, <1>7, <1>8, <1>9, <1>10, <1>11 DEF Proceed

\* What the accepted results of a run cost stays under the ceiling of its
\* contract, whoever works on it and however often it is taken over: the sum is
\* checked against the copy, and only the holder of the claim saves a copy.
THEOREM BudgetKeptCorrect == Spec => []BudgetKept
<1>1. Init => BudgetInv
  BY NothingSpent DEF Init, BudgetInv, NewRun, NoLocal
<1>2. IInv /\ BudgetInv /\ [Next]_vars => BudgetInv'
  <2> SUFFICES ASSUME IInv, BudgetInv, [Next]_vars PROVE BudgetInv'
    OBVIOUS
  <2>1. CASE \E c \in Calls : ReadReceipt(c) \/ Proceed(c) \/ Crash(c)
    BY <2>1, BudgetOfCall
  <2>2. CASE \E name \in RecoveryNames : Recover(name)
    BY <2>2 DEF Recover, BudgetInv
  <2>3. CASE UNCHANGED vars
    BY <2>3 DEF vars, BudgetInv
  <2> QED BY <2>1, <2>2, <2>3 DEF Next
<1>3. BudgetInv => BudgetKept
  BY DEF BudgetInv, BudgetKept, Within, Accepted, Counted
<1> QED BY <1>1, <1>2, <1>3, Invariance, PTL DEF Spec

==============================================================================
