----------------------------- MODULE Delegation -----------------------------
(***************************************************************************)
(* delegation.py: one piece of work handed to a temporary worker.  The     *)
(* coordinator checks the request against the policy, lets the worker use  *)
(* models and tools through a runtime that counts, verifies its evidence,  *)
(* asks the agent for a disposition and keeps a receipt.                   *)
(*                                                                         *)
(* The worker is somebody else's code: it may catch what the runtime       *)
(* raises and go on.  A model call is charged what the gateway says after  *)
(* it, which may be more than was quoted before it.                        *)
(***************************************************************************)
EXTENDS Naturals, FiniteSets

CONSTANTS
    Categories,     \* of the context a request may name
    Evidence,       \* identifiers of what a worker may return
    MaxCalls,       \* bound on the limits of model calls
    MaxUses,        \* bound on the limits of retries and tools
    MaxCost,        \* bound on the limits of cost
    Overrun,        \* how far a charge may exceed its quote
    Nothing

VARIABLES
    request,        \* what the caller asks for, with its limits
    policy,         \* what the execution policy allows
    stage,          \* "asked", "working", "verifying", "reviewing", "done"
    used,           \* what the runtime has counted
    result,         \* the evidence returned, or Nothing
    verified,       \* the evidence Simon could verify
    status,         \* the review status
    receipt         \* the receipt's result, or Nothing

delegation == <<request, policy, stage, used, result, verified, status, receipt>>

Kinds == {"calls", "retries", "tools"}
Limits == {l \in [Kinds -> 0..MaxCalls] : \A k \in Kinds \ {"calls"} : l[k] <= MaxUses}
Terms == [limit : Limits, cost : 0..MaxCost, context : SUBSET Categories]
Used == [count : [Kinds -> 0..MaxCalls], cost : Nat]

TypeOK ==
    /\ request \in Terms /\ policy \in Terms
    /\ stage \in {"asked", "working", "verifying", "reviewing", "done"}
    /\ used \in Used
    /\ result \in (SUBSET Evidence) \cup {Nothing}
    /\ verified \subseteq Evidence
    /\ status \in {"blocked", "limited", "completed"}
    /\ receipt \in {"blocked", "limited", "accepted", "rejected", Nothing}

Init ==
    /\ request \in Terms /\ policy \in Terms
    /\ stage = "asked"
    /\ used = [count |-> [k \in Kinds |-> 0], cost |-> 0]
    /\ result = Nothing /\ verified = {}
    /\ status = "completed" /\ receipt = Nothing

-----------------------------------------------------------------------------
(* Before the work.                                                        *)

\* _request_violations, those of a policy that lets work be delegated at all.
Violates ==
    \/ ~(request.context \subseteq policy.context)
    \/ request.cost > policy.cost
    \/ \E k \in Kinds : request.limit[k] > policy.limit[k]

\* Refused by the policy, for want of a grant, or since the context selected
\* cannot be read as it was selected.
Block ==
    /\ stage = "asked"
    /\ status' = "blocked" /\ stage' = "reviewing"
    /\ UNCHANGED <<request, policy, used, result, verified, receipt>>

Begin ==
    /\ stage = "asked" /\ ~Violates
    /\ stage' = "working"
    /\ UNCHANGED <<request, policy, used, result, verified, status, receipt>>

-----------------------------------------------------------------------------
(* The work: BoundedWorkerRuntime.                                         *)

Left(k) == used.count[k] < request.limit[k]

\* A quote held against the whole limit, whatever was spent (a mutant).
AffordableAlone(quote) == quote <= request.cost

\* A quote the runtime lets through: it must fit in what is left.
Affordable(quote) == used.cost + quote <= request.cost

CallModel(quote, charge) ==
    /\ stage = "working"
    /\ Left("calls") /\ Affordable(quote)
    /\ used' = [used EXCEPT !.count["calls"] = @ + 1, !.cost = @ + charge]
    /\ UNCHANGED <<request, policy, stage, result, verified, status, receipt>>

\* A call that raises at the gateway counts and is not charged.
ModelFails == \E quote \in 0..MaxCost : CallModel(quote, 0)

Use(k) ==
    /\ stage = "working"
    /\ k # "calls" /\ Left(k)
    /\ used' = [used EXCEPT !.count[k] = @ + 1]
    /\ UNCHANGED <<request, policy, stage, result, verified, status, receipt>>

Return(evidence) ==
    /\ stage = "working"
    /\ result' = evidence /\ stage' = "verifying"
    /\ UNCHANGED <<request, policy, used, verified, status, receipt>>

\* The worker fails, or lets what the runtime raised through.
WorkerFails ==
    /\ stage = "working"
    /\ status' = "limited" /\ stage' = "reviewing"
    /\ UNCHANGED <<request, policy, used, result, verified, receipt>>

-----------------------------------------------------------------------------
(* After the work.                                                         *)

\* Completed since the worker returned (a mutant).
StatusAfterReturn(v) == "completed"

\* Verification may fail for an item, or raise; either leaves it unverified.
StatusAfter(v) == IF v = result THEN "completed" ELSE "limited"

Verify(v) ==
    /\ stage = "verifying"
    /\ v \subseteq result
    /\ verified' = v
    /\ status' = StatusAfter(v) /\ stage' = "reviewing"
    /\ UNCHANGED <<request, policy, used, result, receipt>>

\* The evidence a disposition rests on: what Simon verified, or else what the
\* agent claims to have verified.
Grounds(claimed) == IF verified # {} THEN verified ELSE claimed

Returned == IF result = Nothing THEN {} ELSE result

\* _validate_disposition: the dispositions a status and the evidence admit.
Admitted(d, claimed) ==
    /\ d \in {"rejected", IF status = "completed" THEN "accepted" ELSE status}
    /\ Grounds(claimed) \subseteq Returned
    /\ d = "accepted" => Grounds(claimed) = Returned

Fallback == IF status = "blocked" THEN "blocked" ELSE "limited"

\* The agent disposes; one that fails or contradicts the run is not taken.
Dispose(d, claimed) ==
    /\ stage = "reviewing"
    /\ receipt' = IF Admitted(d, claimed) THEN d ELSE Fallback
    /\ stage' = "done"
    /\ UNCHANGED <<request, policy, used, result, verified, status>>

\* The process ends: the runtime and the run end with it, without a receipt.
Die ==
    /\ stage # "done"
    /\ stage' = "done"
    /\ UNCHANGED <<request, policy, used, result, verified, status, receipt>>

Next ==
    \/ Block \/ Begin \/ ModelFails \/ WorkerFails \/ Die
    \/ \E q \in 0..MaxCost : \E c \in 0..q + Overrun : CallModel(q, c)
    \/ \E k \in Kinds : Use(k)
    \/ \E e \in SUBSET Evidence : Return(e) \/ Verify(e)
    \/ \E d \in {"accepted", "rejected", "limited", "blocked"}, e \in SUBSET Evidence : Dispose(d, e)

Spec == Init /\ [][Next]_delegation

-----------------------------------------------------------------------------

(* However many calls the worker makes, and whatever it catches and tries  *)
(* again, all it spends together stays within the policy but for what one  *)
(* gateway charged above its own last quote: a call is only let through    *)
(* when its quote still fits in what the calls before it left (call_model, *)
(* use_tool, record_retry, _request_violations).                           *)
SpendingBounded ==
    /\ used.cost <= policy.cost + Overrun \/ stage = "asked"
    /\ \A k \in Kinds : used.count[k] <= policy.limit[k]

(* A result is accepted only when the worker returned, Simon verified      *)
(* every item of its evidence, and nothing in the request was refused;     *)
(* whoever disposes, whatever evidence the agent claims to have verified,  *)
(* and however the disposition fails (delegate, _validate_disposition).    *)
AcceptedWasVerified ==
    receipt = "accepted" => result # Nothing /\ verified = result /\ ~Violates
=============================================================================
