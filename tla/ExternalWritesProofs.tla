----------------------- MODULE ExternalWritesProofs -----------------------
(***************************************************************************)
(* Theorems about ExternalWrites, for any writes, calls and recoverers.    *)
(*                                                                         *)
(* TypeOK is proved first, with the one fact it needs about the result of  *)
(* the adapter.  OneRunner, FinalizedWithReceipt and RunsOnlyAuthorised    *)
(* all follow from Ownership, which ties the claim row of a write to where *)
(* its owner is in execute(): a caller that owns the row is the only one   *)
(* that can move it, except for a recovery.                                *)
(***************************************************************************)
EXTENDS ExternalWrites, TLAPS

-----------------------------------------------------------------------------
(* The inductive invariant.                                                *)

\* The receipt of a run is built from a result the adapter returned.
ResultKnown == \A c \in Callers : pc[c] = "finalizing" => call[c].result \in Outcomes

\* A caller that is past its first step has chosen a write.
HasWrite == \A c \in Callers : pc[c] \in Active => call[c].write \in Writes

TypeInv == TypeOK /\ ResultKnown /\ HasWrite

BeforeClaim == {"idle", "inspected", "reading", "authorizing", "claiming"}

\* A caller owns no row before it claims one, and then only that of its write.
OwnsItsWrite(c) ==
    \A w \in Writes :
        exec[w].owner = c => pc[c] \notin BeforeClaim /\ call[c].write = w

\* What the place of the owner in execute() says of its row.
RowFollowsOwner(c) ==
    \A w \in Writes :
        exec[w].owner = c =>
            /\ pc[c] = "claimed" => exec[w].state = "claimed"
            /\ pc[c] = "aborting" => exec[w].state = "aborted"
            /\ pc[c] \in {"invoking", "finalizing"} => exec[w].state = "dispatched"

\* The adapter runs after the dispatch, and the dispatch after the claim.
RunFollowsDispatch(c) ==
    /\ pc[c] \in BeforeClaim \cup {"claimed", "aborting"} => cleared[c] = {}
    /\ pc[c] \in {"invoking", "finalizing"} => cleared[c] # {}
    /\ Ran(c) => cleared[c] # {}

\* A dispatched caller keeps its row until a recovery records itself in it.
DispatchedKeepsRow(c) ==
    cleared[c] # {} =>
        /\ call[c].write \in Writes
        /\ exec[call[c].write].recoveryOwner = None
               => /\ exec[call[c].write].owner = c
                  /\ exec[call[c].write].state \in {"dispatched", "finalized"}

\* A recovery looked at a row that exists, and the row only moved forward.
SawARow(c) ==
    pc[c] = "inspected" =>
        /\ exec[call[c].write].owner # None
        /\ call[c].seen.revision =< exec[call[c].write].revision
        /\ call[c].seen.revision = exec[call[c].write].revision
               => call[c].seen = exec[call[c].write]

CallerInv(c) ==
    /\ OwnsItsWrite(c)
    /\ RowFollowsOwner(c)
    /\ RunFollowsDispatch(c)
    /\ DispatchedKeepsRow(c)
    /\ SawARow(c)

\* A row has an owner as soon as it exists.
RowHasOwner ==
    \A w \in Writes :
        \/ exec[w] = NoClaim
        \/ exec[w].state # "none" /\ exec[w].owner # None

Ownership == RowHasOwner /\ \A c \in Callers : CallerInv(c)

IInv == TypeInv /\ Ownership /\ FinalizedWithReceipt

-----------------------------------------------------------------------------
(* Type correctness.                                                       *)

\* Updating the locals of a caller keeps them well typed.
LEMMA CallUpdate ==
    ASSUME NEW l \in CallState
    PROVE  /\ \A w \in Writes : [l EXCEPT !.write = w] \in CallState
           /\ \A x \in Content \cup {NoContent} : [l EXCEPT !.content = x] \in CallState
           /\ \A a \in Authorities \cup {NoAuthority} : [l EXCEPT !.auth = a] \in CallState
           /\ \A r \in Outcomes, n \in Nat :
                 [l EXCEPT !.attempts = n, !.result = r] \in CallState
           /\ \A w \in Writes, row \in ClaimRow, x \in Content \cup {NoContent} :
                 [l EXCEPT !.write = w, !.seen = row, !.content = x] \in CallState
BY DEF CallState

\* Updating a claim row keeps it well typed.
LEMMA RowFields ==
    ASSUME NEW row \in ClaimRow, NEW state \in ClaimStates
    PROVE  /\ [row EXCEPT !.state = state, !.revision = row.revision + 1] \in ClaimRow
           /\ \A c \in Callers :
                 [row EXCEPT !.state = state, !.owner = c, !.revision = row.revision + 1,
                             !.recoveryOwner = row.owner] \in ClaimRow
<1>1. row.revision + 1 \in Nat
  BY DEF ClaimRow
<1> DEFINE n == row.revision + 1
<1> HIDE DEF n
<1>2. [row EXCEPT !.state = state, !.revision = n] \in ClaimRow
  BY <1>1 DEF ClaimRow, n
<1>3. ASSUME NEW c \in Callers
      PROVE  [row EXCEPT !.state = state, !.owner = c, !.revision = n,
                         !.recoveryOwner = row.owner] \in ClaimRow
  BY <1>1 DEF ClaimRow, n
<1> QED BY <1>2, <1>3 DEF n

\* A change of state keeps the claim rows well typed.
LEMMA RowUpdate ==
    ASSUME NEW w \in Writes, NEW state \in ClaimStates,
           exec \in [Writes -> ClaimRow], SetClaimState(w, state)
    PROVE  exec' \in [Writes -> ClaimRow]
BY RowFields DEF SetClaimState

\* The receipt of a settled claim is well typed.
LEMMA ReceiptTyped ==
    ASSUME NEW status \in Outcomes, NEW l \in CallState
    PROVE  [status |-> status, auth |-> l.auth, attempts |-> l.attempts] \in Receipt
BY DEF CallState, Receipt

\* The initial state is well typed.
LEMMA TypeInit == Init => TypeInv
BY DEF Init, TypeInv, TypeOK, ResultKnown, HasWrite, ClaimRow, NoClaim, ClaimStates,
       CallState, NoCall, NoReceipt, NoAuthority, Receipt, Active

\* Every step keeps the types, and a call that finalizes has a result.
LEMMA TypeNext == TypeInv /\ [Next]_vars => TypeInv'
<1> SUFFICES ASSUME TypeInv, [Next]_vars PROVE TypeInv'
  OBVIOUS
<1> USE DEF TypeInv, TypeOK, ResultKnown, HasWrite, tables, locals, Goto
<1>1. ASSUME NEW w \in Writes, NEW content \in Content, Prepare(w, content)
      PROVE TypeInv'
  BY <1>1 DEF Prepare
<1>2. ASSUME NEW w \in Writes, NEW a \in Approvals, ApproveExact(w, a)
      PROVE TypeInv'
  <2>1. prepared[w].digest \in Digests
    BY <1>2 DEF ApproveExact, Content, NoContent
  <2>2. approvals' \subseteq ApprovalRow
    BY <1>2, <2>1 DEF ApproveExact, ApprovalRow
  <2> QED BY <1>2, <2>2 DEF ApproveExact
<1>3. ASSUME NEW p \in Permissions, NEW scope \in Scopes, GrantPermission(p, scope)
      PROVE TypeInv'
  BY <1>3 DEF GrantPermission, PermissionRow
<1>4. ASSUME NEW p \in Permissions, RevokePermission(p)
      PROVE TypeInv'
  BY <1>4 DEF RevokePermission
<1>5. ASSUME NEW c \in Callers, NEW w \in Writes, ReadReceipt(c, w)
      PROVE TypeInv'
  <2>1. [call[c] EXCEPT !.write = w] \in CallState
    BY CallUpdate
  <2>2. [call[c] EXCEPT !.write = w].write = w
    BY DEF CallState
  <2> QED BY <1>5, <2>1, <2>2 DEF ReadReceipt, Active, Ended
<1>6. ASSUME NEW c \in Callers, ReadPrepared(c)
      PROVE TypeInv'
  <2> DEFINE l == [call[c] EXCEPT !.content = prepared[call[c].write]]
  <2>1. call[c].write \in Writes
    BY <1>6 DEF ReadPrepared, Active
  <2>2. l \in CallState
    BY <2>1, CallUpdate
  <2>3. l.write = call[c].write
    BY DEF CallState
  <2>4. call' = [call EXCEPT ![c] = l]
    BY <1>6 DEF ReadPrepared
  <2> HIDE DEF l
  <2> QED BY <1>6, <2>1, <2>2, <2>3, <2>4 DEF ReadPrepared, Active, Ended
<1>7. ASSUME NEW c \in Callers, ReadAuthorization(c)
      PROVE TypeInv'
  <2>1. CASE Authorization(call[c].write, call[c].content.scope) = {}
    BY <1>7, <2>1 DEF ReadAuthorization, Active, Ended
  <2>2. ASSUME NEW auth \in Authorization(call[c].write, call[c].content.scope),
               Goto(c, "claiming"), call' = [call EXCEPT ![c].auth = auth]
        PROVE  TypeInv'
    <3> DEFINE l == [call[c] EXCEPT !.auth = auth]
    <3>1. auth \in Authorities
      BY <2>2 DEF Authorization, ActiveApprovals, MatchingPermissions, Authorities,
                  ApprovalRow, PermissionRow
    <3>2. l \in CallState /\ l.write = call[c].write
      <4>1. l \in CallState
        BY <3>1, CallUpdate
      <4> QED BY <4>1 DEF CallState
    <3>3. call' = [call EXCEPT ![c] = l]
      BY <2>2
    <3>4. call[c].write \in Writes
      BY <1>7 DEF ReadAuthorization, Active
    <3> HIDE DEF l
    <3> QED BY <1>7, <2>2, <3>2, <3>3, <3>4 DEF ReadAuthorization, Active, Ended
  <2> QED BY <1>7, <2>1, <2>2 DEF ReadAuthorization
<1>8. ASSUME NEW c \in Callers, Claim(c)
      PROVE TypeInv'
  <2> DEFINE w == call[c].write
             row == [state |-> "claimed", owner |-> c,
                     digest |-> call[c].content.digest, auth |-> call[c].auth,
                     revision |-> exec[w].revision + 1,
                     recoveryOwner |-> exec[w].recoveryOwner]
  <2>1. w \in Writes
    BY <1>8 DEF Claim, Active
  <2>2. call[c].content.digest \in Digests \cup {None}
    BY DEF CallState, Content, NoContent
  <2>3. row \in ClaimRow
    BY <2>1, <2>2 DEF ClaimRow, ClaimStates, CallState
  <2>4. exec' = exec \/ exec' = [exec EXCEPT ![w] = row]
    BY <1>8 DEF Claim
  <2>5. exec' \in [Writes -> ClaimRow]
    BY <2>1, <2>3, <2>4
  <2> QED BY <1>8, <2>1, <2>5 DEF Claim, Active, Ended
<1>9. ASSUME NEW c \in Callers, Dispatch(c)
      PROVE TypeInv'
  <2> DEFINE w == call[c].write
  <2>1. w \in Writes
    BY <1>9 DEF Dispatch, Active
  <2>2. exec' \in [Writes -> ClaimRow]
    BY <1>9, <2>1, RowUpdate DEF Dispatch, NotOwner, ClaimStates
  <2>3. LiveAuthorities(w, prepared[w].scope) \subseteq Authorities
    BY DEF LiveAuthorities, ActiveApprovals, MatchingPermissions, Authorities,
           ApprovalRow, PermissionRow
  <2>4. cleared' \in [Callers -> SUBSET Authorities]
    BY <1>9, <2>3 DEF Dispatch, NotOwner
  <2>5. /\ UNCHANGED <<prepared, approvals, granted, revoked, receipts, call>>
        /\ \E label \in {"raised", "aborting", "invoking"} : pc' = [pc EXCEPT ![c] = label]
    BY <1>9 DEF Dispatch, NotOwner
  <2> QED BY <2>1, <2>2, <2>4, <2>5 DEF Active, Ended
<1>10. ASSUME NEW c \in Callers, Abort(c)
      PROVE TypeInv'
  <2>1. call[c].write \in Writes
    BY <1>10 DEF Abort, Active
  <2>2. exec' \in [Writes -> ClaimRow]
    BY <1>10, <2>1, RowUpdate DEF Abort, NotOwner, ClaimStates
  <2> QED BY <1>10, <2>1, <2>2 DEF Abort, NotOwner, Active, Ended
<1>11. ASSUME NEW c \in Callers, InvokeAdapter(c)
      PROVE TypeInv'
  <2> PICK outcome \in Outcomes :
             /\ call' = [call EXCEPT ![c].attempts = @ + 1, ![c].result = outcome]
             /\ Goto(c, IF outcome = "failed" /\ call[c].attempts < MaxRetries
                        THEN "invoking" ELSE "finalizing")
    BY <1>11 DEF InvokeAdapter
  <2> DEFINE l == [call[c] EXCEPT !.attempts = call[c].attempts + 1, !.result = outcome]
  <2>1. l \in CallState /\ l.write = call[c].write /\ l.result = outcome
    <3>1. call[c].attempts + 1 \in Nat
      BY DEF CallState
    <3>2. l \in CallState
      BY <3>1, CallUpdate
    <3>3. l.write = call[c].write /\ l.result = outcome
      BY DEF CallState
    <3> QED BY <3>2, <3>3
  <2>2. call' = [call EXCEPT ![c] = l]
    OBVIOUS
  <2>3. call[c].write \in Writes
    BY <1>11 DEF InvokeAdapter, Active
  <2> HIDE DEF l
  <2>4. /\ call' \in [Callers -> CallState]
        /\ call'[c].write = call[c].write /\ call'[c].result = outcome
        /\ \A d \in Callers \ {c} : call'[d] = call[d]
    BY ZenonT(30), <2>1, <2>2
  <2>5. /\ UNCHANGED <<prepared, approvals, granted, revoked, exec, receipts, cleared>>
        /\ \E label \in {"invoking", "finalizing"} : pc' = [pc EXCEPT ![c] = label]
    BY <1>11 DEF InvokeAdapter
  <2> QED BY <2>3, <2>4, <2>5 DEF Active, Ended
<1>12. ASSUME NEW c \in Callers, Finalize(c)
      PROVE TypeInv'
  <2>1. call[c].write \in Writes /\ call[c].result \in Outcomes
    BY <1>12 DEF Finalize, Active
  <2>2. exec' \in [Writes -> ClaimRow]
    BY <1>12, <2>1, RowUpdate DEF Finalize, NotOwner, SettleClaim, ClaimStates
  <2>3. [status |-> call[c].result, auth |-> call[c].auth,
         attempts |-> call[c].attempts] \in Receipt
    BY <2>1, ReceiptTyped
  <2>4. receipts' \in [Writes -> Receipt \cup {NoReceipt}]
    BY <1>12, <2>3 DEF Finalize, NotOwner, SettleClaim
  <2> QED BY <1>12, <2>2, <2>4 DEF Finalize, NotOwner, SettleClaim, Active, Ended
<1>13. ASSUME NEW c \in Callers, Crash(c)
      PROVE TypeInv'
  BY <1>13 DEF Crash, Active, Ended
<1>14. ASSUME NEW c \in Callers, NEW w \in Writes, Inspect(c, w)
      PROVE TypeInv'
  <2> DEFINE l == [call[c] EXCEPT !.write = w, !.seen = exec[w], !.content = prepared[w]]
  <2>1. l \in CallState /\ l.write = w
    <3>1. l \in CallState
      BY CallUpdate
    <3>2. l.write = w
      BY DEF CallState
    <3> QED BY <3>1, <3>2
  <2>2. call' = [call EXCEPT ![c] = l]
    BY <1>14 DEF Inspect
  <2> HIDE DEF l
  <2>3. /\ call' \in [Callers -> CallState] /\ call'[c].write = w
        /\ \A d \in Callers \ {c} : call'[d] = call[d]
    BY <2>1, <2>2
  <2>4. /\ UNCHANGED <<prepared, approvals, granted, revoked, exec, receipts, cleared>>
        /\ pc' = [pc EXCEPT ![c] = "inspected"]
    BY <1>14 DEF Inspect
  <2> QED BY <2>3, <2>4 DEF Active, Ended
<1>15. ASSUME NEW c \in Callers, Recover(c)
      PROVE TypeInv'
  <2> DEFINE w == call[c].write
             l == [call[c] EXCEPT !.auth = exec[w].auth]
             row == [exec[w] EXCEPT !.state = "claimed", !.owner = c,
                                    !.revision = exec[w].revision + 1,
                                    !.recoveryOwner = exec[w].owner]
  <2>1. w \in Writes
    BY <1>15 DEF Recover, Active
  <2>2. row \in ClaimRow /\ exec[w].auth \in Authorities \cup {NoAuthority}
    <3>1. exec[w] \in ClaimRow
      BY <2>1
    <3>2. row \in ClaimRow
      BY <3>1, RowFields DEF ClaimStates
    <3>3. exec[w].auth \in Authorities \cup {NoAuthority}
      BY <3>1 DEF ClaimRow
    <3> QED BY <3>2, <3>3
  <2>3. l \in CallState /\ l.write = w
    <3>1. l \in CallState
      BY <2>2, CallUpdate
    <3> QED BY <3>1 DEF CallState
  <2>4. \/ exec' = exec /\ call' = call
        \/ exec' = [exec EXCEPT ![w] = row] /\ call' = [call EXCEPT ![c] = l]
    <3>1. CASE ~Recoverable(exec[w], call[c].seen.revision)
      BY <1>15, <3>1 DEF Recover
    <3>2. CASE Recoverable(exec[w], call[c].seen.revision)
      <4>1. call' = [call EXCEPT ![c] = l]
        BY <1>15, <3>2 DEF Recover
      <4>2. exec' = [exec EXCEPT ![w] = row]
        BY <1>15, <3>2, ZenonT(30) DEF Recover
      <4> QED BY <4>1, <4>2
    <3> QED BY <3>1, <3>2
  <2> HIDE DEF l, row
  <2>5. /\ exec' \in [Writes -> ClaimRow] /\ call' \in [Callers -> CallState]
        /\ \A d \in Callers : call'[d].write = call[d].write
        /\ \A d \in Callers \ {c} : call'[d] = call[d]
    BY <2>1, <2>2, <2>3, <2>4
  <2> QED BY <1>15, <2>1, <2>5 DEF Recover, Active, Ended
<1>16. ASSUME NEW c \in Callers, Release(c)
      PROVE TypeInv'
  <2>1. call[c].write \in Writes
    BY <1>16 DEF Release, Active
  <2>2. exec' \in [Writes -> ClaimRow]
    BY <1>16, <2>1, RowUpdate DEF Release, ClaimStates
  <2> QED BY <1>16, <2>2 DEF Release, Active, Ended
<1>17. ASSUME NEW c \in Callers, Reconcile(c)
      PROVE TypeInv'
  <2>1. PICK status \in Outcomes :
             SettleClaim(c, [status |-> status, auth |-> call[c].auth,
                             attempts |-> call[c].attempts])
    BY <1>17 DEF Reconcile
  <2>2. call[c].write \in Writes
    BY <1>17 DEF Reconcile, Active
  <2>3. exec' \in [Writes -> ClaimRow]
    BY <2>1, <2>2, RowUpdate DEF SettleClaim, ClaimStates
  <2>4. [status |-> status, auth |-> call[c].auth,
         attempts |-> call[c].attempts] \in Receipt
    BY ReceiptTyped
  <2>5. receipts' \in [Writes -> Receipt \cup {NoReceipt}]
    BY <2>1, <2>4 DEF SettleClaim
  <2> QED BY <2>1, <2>3, <2>5 DEF SettleClaim, Active, Ended
<1>18. ASSUME UNCHANGED vars PROVE TypeInv'
  BY <1>18 DEF vars
<1> QED
  BY <1>1, <1>2, <1>3, <1>4, <1>5, <1>6, <1>7, <1>8, <1>9, <1>10, <1>11, <1>12,
     <1>13, <1>14, <1>15, <1>16, <1>17, <1>18
     DEF Next, Authorise, Continue, Recovery, Callers

\* Every variable holds values of its kind in every reachable state, and a
\* caller under way has a write, and a result before it finalizes.
THEOREM TypeCorrect == Spec => [](TypeOK /\ ResultKnown /\ HasWrite)
<1>1. TypeInv => TypeOK /\ ResultKnown /\ HasWrite
  BY DEF TypeInv
<1> QED BY TypeInit, TypeNext, <1>1, PTL DEF Spec

-----------------------------------------------------------------------------
(* Ownership.                                                              *)

\* What a step of caller c may do to the callers and the rows: it leaves the
\* other callers alone and moves one row, which it owned, which was free, or
\* in which it records that it recovered it.
RowStep(c, w) ==
    /\ \A d \in Callers \ {c} :
          pc'[d] = pc[d] /\ call'[d] = call[d] /\ cleared'[d] = cleared[d]
    /\ \A v \in Writes \ {w} : exec'[v] = exec[v]
    /\ \/ exec'[w] = exec[w]
       \/ /\ exec'[w].revision > exec[w].revision
          /\ exec'[w].owner = c
          /\ exec'[w].state # "none"
          /\ \/ exec'[w].recoveryOwner # None
             \/ /\ exec'[w].recoveryOwner = exec[w].recoveryOwner
                /\ \/ exec[w].owner = c
                   \/ exec[w].state \in {"none", "aborted"}

\* Such a step breaks nothing for the other callers.
LEMMA OthersKeepInv ==
    ASSUME TypeInv, TypeInv', Ownership, NEW c \in Callers, NEW w \in Writes,
           RowStep(c, w), CallerInv(c)'
    PROVE  Ownership'
<1>1. /\ \A v \in Writes : exec[v] \in ClaimRow /\ exec'[v] \in ClaimRow
      /\ \A d \in Callers : call[d] \in CallState
      /\ c # None
  BY NoneAssumption DEF TypeInv, TypeOK
<1>2. \A v \in Writes : exec[v].revision \in Nat /\ exec'[v].revision \in Nat
  BY <1>1 DEF ClaimRow
<1>3. \A d \in Callers : call[d].seen.revision \in Nat
  BY <1>1 DEF CallState, ClaimRow
<1>4. RowHasOwner'
  BY <1>1 DEF Ownership, RowHasOwner, RowStep
<1>5. ASSUME NEW d \in Callers \ {c} PROVE CallerInv(d)'
  <2>1. /\ CallerInv(d) /\ d \in Callers /\ d # c
        /\ pc'[d] = pc[d] /\ call'[d] = call[d] /\ cleared'[d] = cleared[d]
    BY DEF Ownership, RowStep
  <2>2. OwnsItsWrite(d)'
    BY <2>1 DEF CallerInv, OwnsItsWrite, RowStep
  <2>3. RowFollowsOwner(d)'
    BY <2>1 DEF CallerInv, RowFollowsOwner, RowStep
  <2>4. RunFollowsDispatch(d)'
    BY <2>1 DEF CallerInv, RunFollowsDispatch, Ran
  <2>5. DispatchedKeepsRow(d)'
    BY <2>1 DEF CallerInv, DispatchedKeepsRow, RowStep
  <2>6. SawARow(d)'
    <3>1. CASE pc[d] # "inspected"
      BY <2>1, <3>1 DEF SawARow
    <3>2. CASE pc[d] = "inspected"
      <4>1. call[d].write \in Writes
        BY <2>1, <3>2 DEF TypeInv, HasWrite, Active
      <4> QED BY <1>1, <1>2, <1>3, <2>1, <3>2, <4>1 DEF CallerInv, SawARow, RowStep
    <3> QED BY <3>1, <3>2
  <2> QED BY <2>2, <2>3, <2>4, <2>5, <2>6 DEF CallerInv
<1> QED BY <1>4, <1>5 DEF Ownership

\* Authorising, preparing and revoking touch no caller and no row.
LEMMA AuthoriseOwnership ==
    ASSUME Ownership, UNCHANGED <<exec, pc, call, cleared>>
    PROVE  Ownership'
BY DEF Ownership, RowHasOwner, CallerInv, OwnsItsWrite, RowFollowsOwner,
       RunFollowsDispatch, DispatchedKeepsRow, SawARow, Ran

\* A step that leaves the rows alone and does not run the adapter.
LEMMA LocalStepOwnership ==
    ASSUME TypeInv, TypeInv', Ownership, NEW c \in Callers, NEW label,
           pc[c] # "idle", label \notin {"idle", "inspected", "claimed", "aborting",
                                        "invoking", "finalizing"},
           label \in BeforeClaim => pc[c] \in BeforeClaim,
           pc' = [pc EXCEPT ![c] = label],
           UNCHANGED <<exec, cleared>>,
           call'[c].write = call[c].write,
           call'[c].attempts = call[c].attempts,
           \A d \in Callers \ {c} : call'[d] = call[d],
           call[c].write \in Writes
    PROVE  Ownership'
<1>1. RowStep(c, call[c].write)
  BY DEF RowStep, TypeInv, TypeOK
<1>2. pc'[c] = label /\ CallerInv(c)
  BY DEF Ownership, TypeInv, TypeOK
<1>3. OwnsItsWrite(c)'
  BY <1>2 DEF CallerInv, OwnsItsWrite
<1>4. RowFollowsOwner(c)'
  BY <1>2 DEF CallerInv, RowFollowsOwner
<1>5. RunFollowsDispatch(c)'
  BY <1>2 DEF CallerInv, RunFollowsDispatch, Ran, BeforeClaim
<1>6. DispatchedKeepsRow(c)'
  BY <1>2 DEF CallerInv, DispatchedKeepsRow
<1>7. SawARow(c)'
  BY <1>2 DEF SawARow
<1> QED BY <1>1, <1>3, <1>4, <1>5, <1>6, <1>7, OthersKeepInv DEF CallerInv

\* Every step keeps Ownership.
LEMMA OwnershipNext == TypeInv /\ TypeInv' /\ Ownership /\ [Next]_vars => Ownership'
<1> SUFFICES ASSUME TypeInv, TypeInv', Ownership, [Next]_vars PROVE Ownership'
  OBVIOUS
<1> USE DEF tables, locals, Goto
<1>0. /\ pc \in [Callers -> Active \cup Ended \cup {"idle"}]
      /\ call \in [Callers -> CallState] /\ call' \in [Callers -> CallState]
      /\ exec \in [Writes -> ClaimRow]
      /\ \A c \in Callers : pc[c] \in Active => call[c].write \in Writes
      /\ \A c \in Callers : CallerInv(c)
      /\ None \notin Callers
  BY NoneAssumption DEF TypeInv, TypeOK, HasWrite, Ownership
<1>1. ASSUME Authorise PROVE Ownership'
  BY <1>1, AuthoriseOwnership
     DEF Authorise, Prepare, ApproveExact, GrantPermission, RevokePermission
<1>2. ASSUME NEW c \in Callers, NEW w \in Writes, ReadReceipt(c, w)
      PROVE  Ownership'
  <2>1. pc[c] = "idle" /\ pc'[c] \in {"returned", "reading"} /\ exec' = exec /\ cleared' = cleared
    BY <1>0, <1>2 DEF ReadReceipt
  <2>2. call'[c].write = w /\ call'[c].attempts = call[c].attempts
        /\ \A d \in Callers \ {c} : call'[d] = call[d] /\ pc'[d] = pc[d]
    <3>1. call[c] \in CallState
      BY <1>0
    <3> QED BY <1>0, <1>2, <3>1 DEF ReadReceipt, CallState
  <2>3. RowStep(c, w)
    BY <2>1, <2>2 DEF RowStep
  <2>4. CallerInv(c)'
    BY <1>0, <2>1, <2>2 DEF CallerInv, OwnsItsWrite, RowFollowsOwner, BeforeClaim,
       RunFollowsDispatch, DispatchedKeepsRow, SawARow, Ran
  <2> QED BY <2>3, <2>4, OthersKeepInv
<1>3. ASSUME NEW c \in Callers, ReadPrepared(c)
      PROVE  Ownership'
  <2>1. call[c] \in CallState /\ call[c].write \in Writes
    BY <1>0, <1>3 DEF ReadPrepared, Active
  <2>2. call'[c].write = call[c].write /\ call'[c].attempts = call[c].attempts
        /\ \A d \in Callers \ {c} : call'[d] = call[d]
    BY <1>0, <1>3, <2>1 DEF ReadPrepared, CallState
  <2>3. /\ pc[c] = "reading" /\ UNCHANGED <<exec, cleared>>
        /\ \E label \in {"raised", "authorizing"} : pc' = [pc EXCEPT ![c] = label]
    BY <1>3 DEF ReadPrepared
  <2> QED BY <2>1, <2>2, <2>3, LocalStepOwnership DEF BeforeClaim
<1>4. ASSUME NEW c \in Callers, ReadAuthorization(c)
      PROVE  Ownership'
  <2>1. call[c] \in CallState /\ call[c].write \in Writes
    BY <1>0, <1>4 DEF ReadAuthorization, Active
  <2>2. call'[c].write = call[c].write /\ call'[c].attempts = call[c].attempts
        /\ \A d \in Callers \ {c} : call'[d] = call[d]
    BY <1>0, <1>4, <2>1 DEF ReadAuthorization, CallState
  <2>3. /\ pc[c] = "authorizing" /\ UNCHANGED <<exec, cleared>>
        /\ \E label \in {"approval_required", "claiming"} : pc' = [pc EXCEPT ![c] = label]
    BY <1>4 DEF ReadAuthorization
  <2> QED BY <2>1, <2>2, <2>3, LocalStepOwnership DEF BeforeClaim
<1>5. ASSUME NEW c \in Callers, NotOwner(c), pc[c] \in Active
      PROVE  Ownership'
  BY <1>0, <1>5, LocalStepOwnership DEF NotOwner, BeforeClaim, Active
<1>6. ASSUME NEW c \in Callers, Crash(c)
      PROVE  Ownership'
  BY <1>0, <1>6, LocalStepOwnership DEF Crash, BeforeClaim, Active
<1>7. ASSUME UNCHANGED vars PROVE Ownership'
  BY <1>7, AuthoriseOwnership DEF vars
<1>8. ASSUME NEW c \in Callers, InvokeAdapter(c)
      PROVE  Ownership'
  <2>1. call[c] \in CallState /\ call[c].write \in Writes
    BY <1>0, <1>8 DEF InvokeAdapter, Active
  <2>2. call'[c].write = call[c].write
        /\ \A d \in Callers \ {c} : call'[d] = call[d] /\ pc'[d] = pc[d]
    BY <1>0, <1>8, <2>1 DEF InvokeAdapter, CallState
  <2>3. pc[c] = "invoking" /\ pc'[c] \in {"invoking", "finalizing"} /\ exec' = exec
        /\ cleared' = cleared
    BY <1>0, <1>8 DEF InvokeAdapter
  <2>4. RowStep(c, call[c].write)
    BY <2>2, <2>3 DEF RowStep
  <2>5. CallerInv(c)'
    BY <1>0, <2>2, <2>3 DEF CallerInv, OwnsItsWrite, RowFollowsOwner, BeforeClaim,
       RunFollowsDispatch, DispatchedKeepsRow, SawARow
  <2> QED BY <2>1, <2>4, <2>5, OthersKeepInv
<1>9. ASSUME NEW c \in Callers, NEW w \in Writes, Inspect(c, w)
      PROVE  Ownership'
  <2>1. call[c] \in CallState
    BY <1>0
  <2>2. call'[c].write = w /\ call'[c].seen = exec[w] /\ call'[c].attempts = call[c].attempts
        /\ \A d \in Callers \ {c} : call'[d] = call[d] /\ pc'[d] = pc[d]
    BY <1>0, <1>9, <2>1 DEF Inspect, CallState
  <2>3. pc[c] = "idle" /\ pc'[c] = "inspected" /\ exec' = exec /\ cleared' = cleared
    BY <1>0, <1>9 DEF Inspect
  <2>4. RowStep(c, w)
    BY <2>2, <2>3 DEF RowStep
  <2>5. exec[w].owner # None /\ exec[w].revision \in Nat
    <3>1. exec[w].owner # None
      BY <1>9 DEF Inspect, Ownership, RowHasOwner
    <3>2. exec[w] \in ClaimRow
      BY <1>0
    <3> QED BY <3>1, <3>2 DEF ClaimRow
  <2>6. SawARow(c)'
    BY <2>2, <2>3, <2>5 DEF SawARow
  <2>7. CallerInv(c)'
    BY <1>0, <2>2, <2>3, <2>6 DEF CallerInv, OwnsItsWrite, RowFollowsOwner, BeforeClaim,
       RunFollowsDispatch, DispatchedKeepsRow, Ran
  <2> QED BY <2>4, <2>7, OthersKeepInv
<1>10. ASSUME NEW c \in Callers, Claim(c)
      PROVE  Ownership'
  <2> DEFINE w == call[c].write
  <2>1. w \in Writes /\ CallerInv(c) /\ pc[c] = "claiming"
    BY <1>0, <1>10 DEF Claim, Active
  <2>2. CASE ~Claimable(exec[w], call[c].content.digest)
    BY <1>0, <1>10, <2>1, <2>2, LocalStepOwnership DEF Claim, BeforeClaim
  <2>3. CASE Claimable(exec[w], call[c].content.digest)
    <3>1. exec[w] \in ClaimRow /\ exec[w].revision \in Nat
      BY <1>0, <2>1 DEF ClaimRow
    <3>2. /\ exec'[w].state = "claimed" /\ exec'[w].owner = c
          /\ exec'[w].revision = exec[w].revision + 1
          /\ exec'[w].recoveryOwner = exec[w].recoveryOwner
          /\ \A v \in Writes \ {w} : exec'[v] = exec[v]
      BY <1>0, <1>10, <2>1, <2>3 DEF Claim
    <3>3. /\ pc' = [pc EXCEPT ![c] = "claimed"] /\ call' = call /\ cleared' = cleared
      BY <1>10, <2>3 DEF Claim
    <3>4. RowStep(c, w)
      BY <1>0, <2>3, <3>1, <3>2, <3>3 DEF RowStep, Claimable
    <3>5. CallerInv(c)'
      BY <1>0, <2>1, <3>2, <3>3 DEF CallerInv, OwnsItsWrite, RowFollowsOwner, BeforeClaim,
         RunFollowsDispatch, DispatchedKeepsRow, SawARow, Ran
    <3> QED BY <2>1, <3>4, <3>5, OthersKeepInv
  <2> QED BY <2>2, <2>3
<1>11. ASSUME NEW c \in Callers, pc[c] \in Active, NEW state \in ClaimStates \ {"none"},
              exec[call[c].write].owner = c, SetClaimState(call[c].write, state)
      PROVE  LET w == call[c].write IN
             /\ exec'[w].state = state /\ exec'[w].owner = c
             /\ exec'[w].recoveryOwner = exec[w].recoveryOwner
             /\ \A v \in Writes \ {w} : exec'[v] = exec[v]
             /\ exec[w].revision \in Nat /\ exec'[w].revision = exec[w].revision + 1
  <2>1. call[c].write \in Writes
    BY <1>0, <1>11
  <2>2. exec[call[c].write] \in ClaimRow
    BY <1>0, <2>1
  <2> QED BY <1>0, <1>11, <2>1, <2>2 DEF SetClaimState, ClaimRow
<1>12. ASSUME NEW c \in Callers, Dispatch(c)
      PROVE  Ownership'
  <2> DEFINE w == call[c].write
  <2>1. w \in Writes /\ CallerInv(c) /\ pc[c] = "claimed"
    BY <1>0, <1>12 DEF Dispatch, Active
  <2>2. CASE NotOwner(c)
    BY <1>5, <2>1, <2>2 DEF Active
  <2>3. CASE exec[w].owner = c /\ AuthorityGone(w)
    <3>1. /\ SetClaimState(w, "aborted")
          /\ pc' = [pc EXCEPT ![c] = "aborting"] /\ call' = call /\ cleared' = cleared
      BY <1>12, <2>3 DEF Dispatch, NotOwner
    <3>2. RowStep(c, w)
      BY <1>0, <1>11, <2>1, <2>3, <3>1 DEF RowStep, ClaimStates, Active
    <3>3. CallerInv(c)'
      BY <1>0, <1>11, <2>1, <2>3, <3>1 DEF CallerInv, OwnsItsWrite, RowFollowsOwner,
         BeforeClaim, RunFollowsDispatch, DispatchedKeepsRow, SawARow, Ran, ClaimStates, Active
    <3> QED BY <2>1, <3>2, <3>3, OthersKeepInv
  <2>4. CASE exec[w].owner = c /\ ~AuthorityGone(w)
    <3>1. /\ exec[w].state = "claimed" /\ SetClaimState(w, "dispatched")
          /\ pc' = [pc EXCEPT ![c] = "invoking"] /\ call' = call
          /\ cleared' = [cleared EXCEPT ![c] = LiveAuthorities(w, prepared[w].scope)]
      BY <1>12, <2>1, <2>4 DEF Dispatch, NotOwner, CallerInv, RowFollowsOwner
    <3>2. cleared'[c] # {} /\ \A d \in Callers \ {c} : cleared'[d] = cleared[d]
      BY <2>4, <3>1 DEF AuthorityGone, TypeInv, TypeOK
    <3>3. RowStep(c, w)
      BY <1>0, <1>11, <2>1, <2>4, <3>1, <3>2 DEF RowStep, ClaimStates, Active
    <3>4. CallerInv(c)'
      BY <1>0, <1>11, <2>1, <2>4, <3>1, <3>2 DEF CallerInv, OwnsItsWrite, RowFollowsOwner,
         BeforeClaim, RunFollowsDispatch, DispatchedKeepsRow, SawARow, ClaimStates, Active
    <3> QED BY <2>1, <3>3, <3>4, OthersKeepInv
  <2> QED BY <1>12, <2>2, <2>3, <2>4 DEF Dispatch, NotOwner
<1>13. ASSUME NEW c \in Callers, pc[c] \in {"claimed", "aborting", "finalizing"},
              NEW state \in {"aborted", "finalized"},
              NEW label \in {"approval_required", "returned"},
              pc[c] = "finalizing" => state = "finalized",
              exec[call[c].write].owner = c, SetClaimState(call[c].write, state),
              pc' = [pc EXCEPT ![c] = label], call' = call, cleared' = cleared
      PROVE  Ownership'
  <2> DEFINE w == call[c].write
  <2>1. w \in Writes /\ CallerInv(c)
    BY <1>0, <1>13 DEF Active
  <2>2. RowStep(c, w)
    BY <1>0, <1>11, <1>13, <2>1 DEF RowStep, ClaimStates, Active
  <2>3. CallerInv(c)'
    BY <1>0, <1>11, <1>13, <2>1 DEF CallerInv, OwnsItsWrite, RowFollowsOwner,
       BeforeClaim, RunFollowsDispatch, DispatchedKeepsRow, SawARow, Ran, ClaimStates, Active
  <2> QED BY <2>1, <2>2, <2>3, OthersKeepInv
<1>14. ASSUME NEW c \in Callers, Abort(c)
      PROVE  Ownership'
  BY <1>5, <1>13, <1>14 DEF Abort, Active
<1>15. ASSUME NEW c \in Callers, Finalize(c)
      PROVE  Ownership'
  <2>1. CASE NotOwner(c)
    BY <1>5, <1>15, <2>1 DEF Finalize, Active
  <2>2. CASE exec[call[c].write].owner = c /\ ~Settleable(exec[call[c].write])
    BY <1>0, <1>15, <2>2, LocalStepOwnership DEF Finalize, NotOwner, SettleClaim, BeforeClaim, Active
  <2>3. CASE exec[call[c].write].owner = c /\ Settleable(exec[call[c].write])
    BY <1>13, <1>15, <2>3 DEF Finalize, NotOwner, SettleClaim
  <2> QED BY <1>15, <2>1, <2>2, <2>3 DEF Finalize, NotOwner, SettleClaim
<1>16. ASSUME NEW c \in Callers, Release(c)
      PROVE  Ownership'
  BY <1>13, <1>16 DEF Release
<1>17. ASSUME NEW c \in Callers, Reconcile(c)
      PROVE  Ownership'
  BY <1>13, <1>17 DEF Reconcile, SettleClaim
<1>18. ASSUME NEW c \in Callers, Recover(c)
      PROVE  Ownership'
  <2> DEFINE w == call[c].write
  <2>1. w \in Writes /\ CallerInv(c) /\ pc[c] = "inspected"
    BY <1>0, <1>18 DEF Recover, Active
  <2>2. CASE ~Recoverable(exec[w], call[c].seen.revision)
    BY <1>0, <1>18, <2>1, <2>2, LocalStepOwnership DEF Recover, BeforeClaim
  <2>3. CASE Recoverable(exec[w], call[c].seen.revision)
    <3>1. exec[w] \in ClaimRow /\ exec[w].revision \in Nat /\ exec[w].owner # None
      BY <1>0, <2>1 DEF ClaimRow, CallerInv, SawARow
    <3>2. exec' = [exec EXCEPT ![w] =
                      [exec[w] EXCEPT !.state = "claimed", !.owner = c,
                                      !.revision = exec[w].revision + 1,
                                      !.recoveryOwner = exec[w].owner]]
      BY <1>18, <2>3, Zenon DEF Recover
    <3>3. /\ exec'[w].state = "claimed" /\ exec'[w].owner = c
          /\ exec'[w].revision = exec[w].revision + 1
          /\ exec'[w].recoveryOwner = exec[w].owner
          /\ \A v \in Writes \ {w} : exec'[v] = exec[v]
      BY <1>0, <2>1, <3>1, <3>2 DEF ClaimRow
    <3>4. /\ pc' = [pc EXCEPT ![c] = "claimed"] /\ cleared' = cleared
          /\ call' = [call EXCEPT ![c].auth = exec[w].auth]
      BY <1>18, <2>3 DEF Recover
    <3>5. call[c] \in CallState
      BY <1>0
    <3>6. /\ call'[c].write = w /\ call'[c].attempts = call[c].attempts
          /\ \A d \in Callers \ {c} : call'[d] = call[d]
      BY <1>0, <3>4, <3>5 DEF CallState
    <3>7. RowStep(c, w)
      BY <1>0, <3>1, <3>3, <3>4, <3>6 DEF RowStep
    <3>8. CallerInv(c)'
      BY SMTT(30), <1>0, <2>1, <3>3, <3>4, <3>6 DEF CallerInv, OwnsItsWrite, RowFollowsOwner,
         BeforeClaim, RunFollowsDispatch, DispatchedKeepsRow, SawARow, Ran
    <3> QED BY <2>1, <3>7, <3>8, OthersKeepInv
  <2> QED BY <2>2, <2>3
<1> QED
  BY <1>1, <1>2, <1>3, <1>4, <1>6, <1>7, <1>8, <1>9, <1>10, <1>12, <1>14, <1>15,
     <1>16, <1>17, <1>18
     DEF Next, Continue, Recovery, Callers

-----------------------------------------------------------------------------
(* Claims and receipts.                                                    *)

\* A change of state of one row, seen from every row.
LEMMA StateChange ==
    ASSUME exec \in [Writes -> ClaimRow], NEW w \in Writes, NEW state,
           SetClaimState(w, state)
    PROVE  /\ exec'[w].state = state /\ exec'[w].owner = exec[w].owner
           /\ exec'[w].auth = exec[w].auth
           /\ \A v \in Writes \ {w} : exec'[v] = exec[v]
<1>1. exec[w] \in ClaimRow
  OBVIOUS
<1> QED BY <1>1 DEF SetClaimState, ClaimRow

\* A claim is finalized by the transaction that stores its receipt, and every
\* other transaction moves a claim that was not finalized.
LEMMA FinalizedNext ==
    TypeInv /\ Ownership /\ FinalizedWithReceipt /\ [Next]_vars => FinalizedWithReceipt'
<1> SUFFICES ASSUME TypeInv, Ownership, FinalizedWithReceipt, [Next]_vars
             PROVE  FinalizedWithReceipt'
  OBVIOUS
<1> USE DEF tables, FinalizedWithReceipt
<1>0. /\ exec \in [Writes -> ClaimRow] /\ receipts \in [Writes -> Receipt \cup {NoReceipt}]
      /\ \A c \in Callers : pc[c] \in Active => call[c].write \in Writes
      /\ \A c \in Callers : CallerInv(c)
      /\ \A c \in Callers : call[c] \in CallState
  BY DEF TypeInv, TypeOK, HasWrite, Ownership
<1>1. CASE UNCHANGED <<exec, receipts>>
  BY <1>1
<1>2. ASSUME NEW c \in Callers, Claim(c) PROVE FinalizedWithReceipt'
  <2>1. call[c].write \in Writes
    BY <1>0, <1>2 DEF Claim, Active
  <2>2. CASE Claimable(exec[call[c].write], call[c].content.digest)
    BY <1>0, <1>2, <2>1, <2>2 DEF Claim, Claimable
  <2> QED BY <1>1, <1>2, <2>2 DEF Claim
<1>3. ASSUME NEW c \in Callers, pc[c] \in {"claimed", "aborting"},
             NEW state \in {"aborted", "dispatched"},
             exec[call[c].write].owner = c, SetClaimState(call[c].write, state),
             receipts' = receipts
      PROVE  FinalizedWithReceipt'
  <2>1. call[c].write \in Writes
    BY <1>0, <1>3 DEF Active
  <2>2. exec[call[c].write].state # "finalized"
    BY <1>0, <1>3, <2>1 DEF CallerInv, RowFollowsOwner
  <2> QED BY <1>0, <1>3, <2>1, <2>2, StateChange
<1>4. ASSUME NEW c \in Callers, pc[c] \in Active, NEW status \in Outcomes,
             SettleClaim(c, [status |-> status, auth |-> call[c].auth,
                             attempts |-> call[c].attempts])
      PROVE  FinalizedWithReceipt'
  <2> DEFINE receipt == [status |-> status, auth |-> call[c].auth,
                         attempts |-> call[c].attempts]
  <2>1. call[c].write \in Writes
    BY <1>0, <1>4
  <2>2. receipt # NoReceipt
    BY DEF NoReceipt, Outcomes
  <2>3. receipts' = [receipts EXCEPT ![call[c].write] = receipt]
        /\ SetClaimState(call[c].write, "finalized")
    BY <1>4 DEF SettleClaim
  <2> HIDE DEF receipt
  <2> QED BY <1>0, <2>1, <2>2, <2>3, StateChange
<1>5. ASSUME NEW c \in Callers, Recover(c) PROVE FinalizedWithReceipt'
  <2> DEFINE w == call[c].write
  <2>1. w \in Writes
    BY <1>0, <1>5 DEF Recover, Active
  <2>2. CASE Recoverable(exec[w], call[c].seen.revision)
    <3>1. exec[w] \in ClaimRow
      BY <1>0, <2>1
    <3>2. exec' = [exec EXCEPT ![w] =
                      [exec[w] EXCEPT !.state = "claimed", !.owner = c,
                                      !.revision = exec[w].revision + 1,
                                      !.recoveryOwner = exec[w].owner]]
      BY <1>5, <2>2, Zenon DEF Recover
    <3>3. exec'[w].state = "claimed" /\ \A v \in Writes \ {w} : exec'[v] = exec[v]
      BY <1>0, <2>1, <3>1, <3>2 DEF ClaimRow
    <3> QED BY <1>5, <2>1, <2>2, <3>3 DEF Recover, Recoverable
  <2> QED BY <1>1, <1>5, <2>2 DEF Recover
<1>6. ASSUME NEW c \in Callers, Dispatch(c) PROVE FinalizedWithReceipt'
  BY <1>1, <1>3, <1>6 DEF Dispatch, NotOwner
<1>7. ASSUME NEW c \in Callers, Abort(c) PROVE FinalizedWithReceipt'
  BY <1>1, <1>3, <1>7 DEF Abort, NotOwner
<1>8. ASSUME NEW c \in Callers, Release(c) PROVE FinalizedWithReceipt'
  BY <1>3, <1>8 DEF Release
<1>9. ASSUME NEW c \in Callers, Reconcile(c) PROVE FinalizedWithReceipt'
  BY <1>4, <1>9 DEF Reconcile, Active
<1>10. ASSUME NEW c \in Callers, Finalize(c) PROVE FinalizedWithReceipt'
  <2>1. call[c].result \in Outcomes
    BY <1>10 DEF Finalize, TypeInv, ResultKnown
  <2> QED BY <1>1, <1>4, <1>10, <2>1 DEF Finalize, NotOwner, Active
<1>11. CASE Authorise
  BY <1>1, <1>11
     DEF Authorise, Prepare, ApproveExact, GrantPermission, RevokePermission
<1>12. ASSUME NEW c \in Callers,
              \/ \E w \in Writes : ReadReceipt(c, w) \/ Inspect(c, w)
              \/ ReadPrepared(c) \/ ReadAuthorization(c)
              \/ InvokeAdapter(c) \/ Crash(c)
       PROVE  FinalizedWithReceipt'
  BY <1>1, <1>12 DEF ReadReceipt, ReadPrepared, ReadAuthorization, InvokeAdapter,
     Inspect, Crash
<1>13. CASE UNCHANGED vars
  BY <1>1, <1>13 DEF vars
<1> QED
  BY <1>2, <1>5, <1>6, <1>7, <1>8, <1>9, <1>10, <1>11, <1>12, <1>13
     DEF Next, Continue, Recovery, Callers

-----------------------------------------------------------------------------
(* The theorems.                                                           *)

\* Nobody owns anything in the initial state.
LEMMA InvInit == Init => IInv
<1> SUFFICES ASSUME Init PROVE IInv
  OBVIOUS
<1>1. TypeInv
  BY TypeInit
<1>2. Ownership
  BY NoneAssumption DEF Init, Ownership, RowHasOwner, CallerInv, OwnsItsWrite,
     RowFollowsOwner, RunFollowsDispatch, DispatchedKeepsRow, SawARow, Ran,
     BeforeClaim, NoClaim, NoCall
<1>3. FinalizedWithReceipt
  BY DEF Init, FinalizedWithReceipt, NoClaim
<1> QED BY <1>1, <1>2, <1>3 DEF IInv

LEMMA InvNext == IInv /\ [Next]_vars => IInv'
BY TypeNext, OwnershipNext, FinalizedNext DEF IInv

\* The inductive invariant holds in every reachable state.
LEMMA Invariance == Spec => []IInv
BY InvInit, InvNext, PTL DEF Spec

\* One caller runs the adapter for a write, whatever other calls do, unless the
\* claim was recovered: claim_execution's compare-and-set excludes the others.
THEOREM OneRunnerCorrect == Spec => []OneRunner
<1>1. IInv => OneRunner
  BY DEF IInv, Ownership, CallerInv, RunFollowsDispatch, DispatchedKeepsRow, OneRunner
<1> QED BY Invariance, <1>1, PTL

\* A claim is finalized exactly when its receipt is stored: the abort inside
\* dispatch_execution cannot reopen a finished write.
THEOREM FinalizedWithReceiptCorrect == Spec => []FinalizedWithReceipt
<1>1. IInv => FinalizedWithReceipt
  BY DEF IInv
<1> QED BY Invariance, <1>1, PTL

\* The adapter runs only for a caller that found an authority at dispatch.
THEOREM RunsOnlyAuthorisedCorrect == Spec => []RunsOnlyAuthorised
<1>1. IInv => RunsOnlyAuthorised
  BY DEF IInv, Ownership, CallerInv, RunFollowsDispatch, RunsOnlyAuthorised
<1> QED BY Invariance, <1>1, PTL

\* A recovery that passes the revision check takes over the claim it saw.
THEOREM RevisionIdentifiesClaimCorrect == Spec => []RevisionIdentifiesClaim
<1>1. IInv => RevisionIdentifiesClaim
  BY DEF IInv, Ownership, CallerInv, SawARow, RevisionIdentifiesClaim
<1> QED BY Invariance, <1>1, PTL

-----------------------------------------------------------------------------
(* The store implements the lease.                                         *)

\* A recovery never goes through the steps of execute() that lead to a claim.
RecoverersDoNotClaim ==
    \A c \in Recoverers : pc[c] \notin {"reading", "authorizing", "claiming"}

LEMMA RecoverersNext ==
    TypeInv /\ RecoverersDoNotClaim /\ [Next]_vars => RecoverersDoNotClaim'
<1> SUFFICES ASSUME TypeInv, RecoverersDoNotClaim, [Next]_vars
             PROVE  RecoverersDoNotClaim'
  OBVIOUS
<1> USE DEF RecoverersDoNotClaim, Goto, tables, locals
<1>0. pc \in [Callers -> Active \cup Ended \cup {"idle"}]
  BY DEF TypeInv, TypeOK
<1>1. ASSUME NEW c \in Calls, NEW w \in Writes, ReadReceipt(c, w)
      PROVE  RecoverersDoNotClaim'
  BY <1>0, <1>1, CallerAssumption DEF ReadReceipt, Callers
<1>2. ASSUME NEW c \in Callers, Continue(c) \/ Crash(c)
      PROVE  RecoverersDoNotClaim'
  <2>1. CASE ReadPrepared(c)
    BY <1>0, <2>1 DEF ReadPrepared, Callers
  <2>2. CASE ReadAuthorization(c)
    BY <1>0, <2>2 DEF ReadAuthorization, Callers
  <2>3. CASE Claim(c)
    BY <1>0, <2>3 DEF Claim, Callers
  <2>4. CASE Dispatch(c)
    BY <1>0, <2>4 DEF Dispatch, NotOwner, Callers
  <2>5. CASE Abort(c)
    BY <1>0, <2>5 DEF Abort, NotOwner, Callers
  <2>6. CASE InvokeAdapter(c)
    BY <1>0, <2>6 DEF InvokeAdapter, Callers
  <2>7. CASE Finalize(c)
    BY <1>0, <2>7 DEF Finalize, NotOwner, SettleClaim, Callers
  <2>8. CASE Crash(c)
    BY <1>0, <2>8 DEF Crash, Callers
  <2> QED BY <1>2, <2>1, <2>2, <2>3, <2>4, <2>5, <2>6, <2>7, <2>8 DEF Continue
<1>3. ASSUME NEW c \in Recoverers, Recovery(c)
      PROVE  RecoverersDoNotClaim'
  BY <1>0, <1>3 DEF Recovery, Inspect, Recover, Release, Reconcile, SettleClaim, Callers
<1>4. ASSUME Authorise \/ UNCHANGED vars PROVE RecoverersDoNotClaim'
  BY <1>4 DEF Authorise, Prepare, ApproveExact, GrantPermission, RevokePermission, vars
<1> QED BY <1>1, <1>2, <1>3, <1>4 DEF Next

HolderOf(row) == IF row.state \in {"claimed", "dispatched"} THEN row.owner ELSE None

\* The holder of a write depends on its row only.
LEMMA HolderChange ==
    ASSUME NEW w \in Writes, \A v \in Writes \ {w} : exec'[v] = exec[v]
    PROVE  Holder' = [Holder EXCEPT ![w] = HolderOf(exec'[w])]
BY DEF Holder, HolderOf

\* Every step of the store is a step of the lease or leaves it unchanged.
LEMMA LeaseNext ==
    IInv /\ RecoverersDoNotClaim /\ [Next]_vars => [Lease!Next]_<<Holder, receipts>>
<1> SUFFICES ASSUME IInv, RecoverersDoNotClaim, [Next]_vars
             PROVE  [Lease!Next]_<<Holder, receipts>>
  OBVIOUS
<1> USE DEF tables, Lease!Next
<1>0. /\ exec \in [Writes -> ClaimRow] /\ receipts \in [Writes -> Receipt \cup {NoReceipt}]
      /\ \A c \in Callers : pc[c] \in Active => call[c].write \in Writes
      /\ \A c \in Callers : CallerInv(c)
      /\ None \notin Callers
      /\ \A w \in Writes : exec[w].state = "finalized" <=> receipts[w] # NoReceipt
  BY NoneAssumption
     DEF IInv, TypeInv, TypeOK, HasWrite, Ownership, FinalizedWithReceipt
<1>1. CASE UNCHANGED <<exec, receipts>>
  BY <1>1 DEF Holder
<1>2. ASSUME NEW c \in Callers, Claim(c) PROVE [Lease!Next]_<<Holder, receipts>>
  <2> DEFINE w == call[c].write
  <2>1. w \in Writes /\ c \in Calls
    BY <1>0, <1>2 DEF Claim, Active, RecoverersDoNotClaim, Callers
  <2>2. CASE Claimable(exec[w], call[c].content.digest)
    <3>1. /\ exec'[w].state = "claimed" /\ exec'[w].owner = c /\ receipts' = receipts
          /\ \A v \in Writes \ {w} : exec'[v] = exec[v]
      BY <1>0, <1>2, <2>1, <2>2 DEF Claim
    <3>2. Holder' = [Holder EXCEPT ![w] = c]
      BY <2>1, <3>1, HolderChange DEF HolderOf
    <3>3. Holder[w] = None /\ receipts[w] = NoReceipt
      BY <1>0, <2>1, <2>2 DEF Holder, Claimable
    <3>4. Lease!Acquire(w, c)
      BY <3>1, <3>2, <3>3 DEF Lease!Acquire
    <3> QED BY <2>1, <3>4
  <2> QED BY <1>1, <1>2, <2>2 DEF Claim
<1>3. ASSUME NEW c \in Callers, pc[c] \in {"claimed", "aborting"},
             exec[call[c].write].owner = c, SetClaimState(call[c].write, "aborted"),
             receipts' = receipts
      PROVE  [Lease!Next]_<<Holder, receipts>>
  <2> DEFINE w == call[c].write
  <2>1. w \in Writes
    BY <1>0, <1>3 DEF Active
  <2>2. exec'[w].state = "aborted" /\ \A v \in Writes \ {w} : exec'[v] = exec[v]
    BY <1>0, <1>3, <2>1, StateChange
  <2>3. Holder' = [Holder EXCEPT ![w] = None]
    BY <2>1, <2>2, HolderChange DEF HolderOf
  <2>4. CASE pc[c] = "claimed"
    <3>1. Holder[w] = c
      BY <1>0, <1>3, <2>1, <2>4 DEF CallerInv, RowFollowsOwner, Holder
    <3>2. Lease!Release(w)
      BY <1>0, <1>3, <2>3, <3>1 DEF Lease!Release
    <3> QED BY <2>1, <3>2
  <2>5. CASE pc[c] = "aborting"
    <3>1. Holder[w] = None
      BY <1>0, <1>3, <2>1, <2>5 DEF CallerInv, RowFollowsOwner, Holder
    <3>2. Holder' = Holder
      BY <2>1, <2>3, <3>1 DEF Holder
    <3> QED BY <1>3, <3>2
  <2> QED BY <1>3, <2>4, <2>5
<1>4. ASSUME NEW c \in Callers, pc[c] \in Active, NEW status \in Outcomes,
             SettleClaim(c, [status |-> status, auth |-> call[c].auth,
                             attempts |-> call[c].attempts])
      PROVE  [Lease!Next]_<<Holder, receipts>>
  <2> DEFINE w == call[c].write
             receipt == [status |-> status, auth |-> call[c].auth,
                         attempts |-> call[c].attempts]
  <2>1. w \in Writes
    BY <1>0, <1>4
  <2>2. receipt # NoReceipt
    BY DEF NoReceipt, Outcomes
  <2>3. receipts' = [receipts EXCEPT ![w] = receipt] /\ SetClaimState(w, "finalized")
    BY <1>4 DEF SettleClaim
  <2>4. exec'[w].state = "finalized" /\ \A v \in Writes \ {w} : exec'[v] = exec[v]
    BY <1>0, <2>1, <2>3, StateChange
  <2>5. Holder' = [Holder EXCEPT ![w] = None]
    BY <2>1, <2>4, HolderChange DEF HolderOf
  <2>6. Holder[w] = c /\ receipts[w] = NoReceipt
    BY <1>0, <1>4, <2>1 DEF SettleClaim, Settleable, Holder
  <2> HIDE DEF receipt
  <2>7. receipts'[w] # NoReceipt /\ receipts' = [receipts EXCEPT ![w] = receipts'[w]]
    BY <1>0, <2>1, <2>2, <2>3
  <2>8. Lease!Settle(w)
    BY <1>0, <2>5, <2>6, <2>7 DEF Lease!Settle
  <2> QED BY <2>1, <2>8
<1>5. ASSUME NEW c \in Recoverers, Recover(c) PROVE [Lease!Next]_<<Holder, receipts>>
  <2> DEFINE w == call[c].write
  <2>1. w \in Writes
    BY <1>0, <1>5 DEF Recover, Active, Callers
  <2>2. CASE Recoverable(exec[w], call[c].seen.revision)
    <3>1. exec[w] \in ClaimRow
      BY <1>0, <2>1
    <3>2. exec' = [exec EXCEPT ![w] =
                      [exec[w] EXCEPT !.state = "claimed", !.owner = c,
                                      !.revision = exec[w].revision + 1,
                                      !.recoveryOwner = exec[w].owner]]
      BY <1>5, <2>2, Zenon DEF Recover
    <3>3. /\ exec'[w].state = "claimed" /\ exec'[w].owner = c
          /\ \A v \in Writes \ {w} : exec'[v] = exec[v]
      BY <1>0, <2>1, <3>1, <3>2 DEF ClaimRow
    <3>4. Holder' = [Holder EXCEPT ![w] = c]
      BY <2>1, <3>3, HolderChange DEF HolderOf
    <3>5. receipts[w] = NoReceipt /\ receipts' = receipts
      BY <1>0, <1>5, <2>1, <2>2 DEF Recover, Recoverable
    <3>6. Lease!TakeOver(w, c)
      BY <3>4, <3>5 DEF Lease!TakeOver
    <3> QED BY <2>1, <3>6
  <2> QED BY <1>1, <1>5, <2>2 DEF Recover
<1>6. ASSUME NEW c \in Callers, Dispatch(c) PROVE [Lease!Next]_<<Holder, receipts>>
  <2> DEFINE w == call[c].write
  <2>1. CASE exec[w].owner = c /\ ~AuthorityGone(w)
    <3>1. w \in Writes
      BY <1>0, <1>6 DEF Dispatch, Active
    <3>2. exec[w].state = "claimed" /\ SetClaimState(w, "dispatched") /\ receipts' = receipts
      BY <1>0, <1>6, <2>1, <3>1 DEF Dispatch, NotOwner, CallerInv, RowFollowsOwner
    <3>3. /\ exec'[w].state = "dispatched" /\ exec'[w].owner = c
          /\ \A v \in Writes \ {w} : exec'[v] = exec[v]
      BY <1>0, <2>1, <3>1, <3>2, StateChange
    <3>4. Holder' = [Holder EXCEPT ![w] = c] /\ Holder[w] = c
      BY <2>1, <3>1, <3>2, <3>3, HolderChange DEF HolderOf, Holder
    <3>5. Holder' = Holder
      BY <3>1, <3>4 DEF Holder
    <3> QED BY <3>2, <3>5
  <2> QED BY <1>1, <1>3, <1>6, <2>1 DEF Dispatch, NotOwner
<1>7. ASSUME NEW c \in Callers, Abort(c) PROVE [Lease!Next]_<<Holder, receipts>>
  BY <1>1, <1>3, <1>7 DEF Abort, NotOwner
<1>8. ASSUME NEW c \in Callers, Release(c) PROVE [Lease!Next]_<<Holder, receipts>>
  BY <1>3, <1>8 DEF Release
<1>9. ASSUME NEW c \in Callers, Reconcile(c) PROVE [Lease!Next]_<<Holder, receipts>>
  BY <1>4, <1>9 DEF Reconcile, Active
<1>10. ASSUME NEW c \in Callers, Finalize(c) PROVE [Lease!Next]_<<Holder, receipts>>
  <2>1. call[c].result \in Outcomes
    BY <1>10 DEF Finalize, IInv, TypeInv, ResultKnown
  <2> QED BY <1>1, <1>4, <1>10, <2>1 DEF Finalize, NotOwner, Active
<1>11. CASE Authorise
  BY <1>1, <1>11
     DEF Authorise, Prepare, ApproveExact, GrantPermission, RevokePermission
<1>12. ASSUME NEW c \in Callers,
              \/ \E w \in Writes : ReadReceipt(c, w) \/ Inspect(c, w)
              \/ ReadPrepared(c) \/ ReadAuthorization(c)
              \/ InvokeAdapter(c) \/ Crash(c)
       PROVE  [Lease!Next]_<<Holder, receipts>>
  BY <1>1, <1>12 DEF ReadReceipt, ReadPrepared, ReadAuthorization, InvokeAdapter,
     Inspect, Crash
<1>13. CASE UNCHANGED vars
  BY <1>1, <1>13 DEF vars
<1> QED
  BY <1>2, <1>5, <1>6, <1>7, <1>8, <1>9, <1>10, <1>11, <1>12, <1>13
     DEF Next, Continue, Recovery, Callers

\* The claim store implements the lease: execute() acquires free writes only,
\* recover_execution alone takes a held one over, and an outcome is final.
THEOREM LeaseCorrect == Spec => HoldsLease
<1>1. Init => Lease!Init
  BY DEF Init, Lease!Init, Holder, NoClaim
<1>2. Init => RecoverersDoNotClaim
  BY DEF Init, RecoverersDoNotClaim, Callers
<1>3. IInv => TypeInv
  BY DEF IInv
<1> QED BY <1>1, <1>2, <1>3, Invariance, RecoverersNext, LeaseNext, PTL
        DEF Spec, HoldsLease, Lease!Spec


\* The claim table is sound as a whole: its type, one runner per write, receipts
\* that end a claim, revisions that name one, and the lease of ClaimLease.
THEOREM ClaimsHoldCorrect == Spec => ClaimsHold
BY TypeCorrect, OneRunnerCorrect, FinalizedWithReceiptCorrect,
   RevisionIdentifiesClaimCorrect, LeaseCorrect, PTL DEF ClaimsHold
-----------------------------------------------------------------------------
(* What is run is what was approved.                                       *)

\* An exact approval names the write and the content prepared for it.
Approved(w, auth) ==
    auth.kind = "exact_approval" =>
        [id |-> auth.id, write |-> w, digest |-> prepared[w].digest] \in approvals

ApprovalsBind ==
    \A r \in approvals :
        prepared[r.write] # NoContent /\ r.digest = prepared[r.write].digest

\* A claimed row carries the authority of the call that claimed it first.
RowsApproved ==
    \A w \in Writes :
        exec[w] # NoClaim => prepared[w] # NoContent /\ Approved(w, exec[w].auth)

\* What a call read of the content and of the authority is still so.
HoldsContent(c) ==
    pc[c] \in Active \ {"reading"} \/ Ran(c) =>
        /\ prepared[call[c].write] # NoContent
        /\ call[c].content = prepared[call[c].write]

HoldsApproval(c) ==
    pc[c] \in {"claiming", "claimed", "aborting", "invoking", "finalizing"} \/ Ran(c) =>
        Approved(call[c].write, call[c].auth)

ContentInv ==
    /\ ApprovalsBind
    /\ RowsApproved
    /\ \A c \in Callers : HoldsContent(c) /\ HoldsApproval(c)

\* Prepared content stays, and no approval is taken back.
StoreKeeps ==
    /\ \A w \in Writes : prepared[w] # NoContent => prepared'[w] = prepared[w]
    /\ approvals \subseteq approvals'

LEMMA StoreKeepsNext == TypeInv /\ [Next]_vars => StoreKeeps
<1> SUFFICES ASSUME TypeInv, [Next]_vars PROVE StoreKeeps
  OBVIOUS
<1> USE DEF StoreKeeps, tables, locals
<1>0. prepared \in [Writes -> Content \cup {NoContent}]
  BY DEF TypeInv, TypeOK
<1>1. CASE UNCHANGED <<prepared, approvals>>
  BY <1>1
<1>2. CASE Authorise
  BY <1>0, <1>2
     DEF Authorise, Prepare, ApproveExact, GrantPermission, RevokePermission
<1>3. ASSUME NEW c \in Callers,
             \/ \E w \in Writes : ReadReceipt(c, w) \/ Inspect(c, w)
             \/ Continue(c) \/ Crash(c) \/ Recover(c) \/ Release(c) \/ Reconcile(c)
      PROVE  UNCHANGED <<prepared, approvals>>
  BY <1>3 DEF ReadReceipt, Continue, ReadPrepared, ReadAuthorization, Claim, Dispatch,
     Abort, InvokeAdapter, Finalize, Inspect, Recover, Release, Reconcile, Crash,
     NotOwner, SettleClaim
<1>4. CASE UNCHANGED vars
  BY <1>1, <1>4 DEF vars
<1> QED BY <1>1, <1>2, <1>3, <1>4 DEF Next, Recovery, Callers

\* A step that leaves a caller alone leaves what it holds true.
LEMMA CallerKeepsContent ==
    ASSUME IInv, ContentInv, StoreKeeps, NEW d \in Callers,
           pc'[d] = pc[d], call'[d] = call[d]
    PROVE  HoldsContent(d)' /\ HoldsApproval(d)'
<1>1. pc[d] \in Active \/ Ran(d) => call[d].write \in Writes
  BY DEF IInv, TypeInv, HasWrite, Ownership, CallerInv, RunFollowsDispatch,
     DispatchedKeepsRow
<1>2. HoldsContent(d) /\ HoldsApproval(d) /\ Ran(d)' = Ran(d)
  BY DEF ContentInv, Ran
<1>3. HoldsContent(d)'
  BY <1>1, <1>2 DEF HoldsContent, StoreKeeps
<1>4. HoldsApproval(d)'
  BY <1>1, <1>2 DEF HoldsApproval, HoldsContent, StoreKeeps, Approved, Active
<1> QED BY <1>3, <1>4

\* A step of one caller that moves at most the row of write w, and leaves it
\* with an authority that is approved.
ContentStep(c, w) ==
    /\ UNCHANGED <<prepared, approvals>>
    /\ \A d \in Callers \ {c} : pc'[d] = pc[d] /\ call'[d] = call[d]
    /\ \A v \in Writes \ {w} : exec'[v] = exec[v]
    /\ \/ exec'[w] = exec[w]
       \/ prepared[w] # NoContent /\ Approved(w, exec'[w].auth)

\* A step that moves no row.
LEMMA LocalStepContent ==
    ASSUME UNCHANGED <<prepared, approvals, exec>>, NEW c \in Callers, NEW w \in Writes,
           \E label : pc' = [pc EXCEPT ![c] = label],
           \E state : call' = [call EXCEPT ![c] = state],
           pc \in [Callers -> Active \cup Ended \cup {"idle"}],
           call \in [Callers -> CallState]
    PROVE  ContentStep(c, w)
<1>1. \A d \in Callers \ {c} : pc'[d] = pc[d] /\ call'[d] = call[d]
  OBVIOUS
<1> QED BY <1>1 DEF ContentStep

LEMMA CallerStepContent ==
    ASSUME IInv, ContentInv, StoreKeeps, NEW c \in Callers, NEW w \in Writes,
           ContentStep(c, w), HoldsContent(c)', HoldsApproval(c)'
    PROVE  ContentInv'
<1>1. ApprovalsBind'
  BY DEF ContentInv, ApprovalsBind, ContentStep
<1>2. RowsApproved'
  BY DEF ContentInv, RowsApproved, Approved, ContentStep
<1>3. \A d \in Callers \ {c} : HoldsContent(d)' /\ HoldsApproval(d)'
  BY CallerKeepsContent DEF ContentStep
<1> QED BY <1>1, <1>2, <1>3 DEF ContentInv

LEMMA ContentNext == IInv /\ ContentInv /\ [Next]_vars => ContentInv'
<1> SUFFICES ASSUME IInv, ContentInv, [Next]_vars PROVE ContentInv'
  OBVIOUS
<1> USE DEF tables, locals, Goto
<1>0. /\ prepared \in [Writes -> Content \cup {NoContent}]
      /\ exec \in [Writes -> ClaimRow]
      /\ pc \in [Callers -> Active \cup Ended \cup {"idle"}]
      /\ call \in [Callers -> CallState]
      /\ \A c \in Callers : pc[c] \in Active => call[c].write \in Writes
      /\ \A c \in Callers : CallerInv(c) /\ HoldsContent(c) /\ HoldsApproval(c)
      /\ None \notin Callers /\ RowHasOwner /\ RowsApproved /\ ApprovalsBind
  BY NoneAssumption DEF IInv, TypeInv, TypeOK, HasWrite, Ownership, ContentInv
<1>1. StoreKeeps
  BY StoreKeepsNext DEF IInv
<1>2. \A c \in Callers : Ran(c) => pc[c] \notin BeforeClaim \cup {"claimed", "aborting"}
  BY <1>0 DEF CallerInv, RunFollowsDispatch
<1>3. \A c \in Callers, w \in Writes :
         exec[w].owner = c => prepared[w] # NoContent /\ Approved(w, exec[w].auth)
  BY <1>0 DEF RowsApproved, NoClaim
<1>4. ASSUME Authorise PROVE ContentInv'
  <2>1. \A c \in Callers : HoldsContent(c)' /\ HoldsApproval(c)'
    BY <1>1, <1>4, CallerKeepsContent
       DEF Authorise, Prepare, ApproveExact, GrantPermission, RevokePermission
  <2>2. RowsApproved'
    BY <1>0, <1>1, <1>4
       DEF RowsApproved, Approved, StoreKeeps, Authorise, Prepare, ApproveExact,
           GrantPermission, RevokePermission
  <2>3. ApprovalsBind'
    <3>1. \A r \in approvals' :
             \/ r \in approvals
             \/ /\ r.write \in Writes /\ prepared[r.write] # NoContent
                /\ r.digest = prepared[r.write].digest
      <4>1. ASSUME NEW w \in Writes, NEW a \in Approvals, ApproveExact(w, a),
                   NEW r \in approvals', r \notin approvals
            PROVE  /\ r.write = w /\ prepared[w] # NoContent
                   /\ r.digest = prepared[w].digest
        BY <4>1 DEF ApproveExact
      <4>2. CASE approvals' = approvals
        BY <4>2
      <4> QED BY <1>4, <4>1, <4>2 DEF Authorise, Prepare, GrantPermission, RevokePermission
    <3>2. \A r \in approvals : r.write \in Writes
      BY DEF IInv, TypeInv, TypeOK, ApprovalRow
    <3> QED BY <1>0, <1>1, <3>1, <3>2 DEF ApprovalsBind, StoreKeeps
  <2> QED BY <2>1, <2>2, <2>3 DEF ContentInv
<1>5. ASSUME NEW c \in Callers, NEW w \in Writes, ReadReceipt(c, w)
      PROVE  ContentInv'
  <2>1. pc'[c] \in {"returned", "reading"} /\ call'[c].attempts = call[c].attempts
        /\ pc[c] = "idle"
    BY <1>0, <1>5 DEF ReadReceipt, CallState
  <2>2. HoldsContent(c)' /\ HoldsApproval(c)'
    BY <1>2, <2>1 DEF HoldsContent, HoldsApproval, Ran, BeforeClaim, Active
  <2>3. ContentStep(c, w)
    BY <1>0, <1>5, LocalStepContent DEF ReadReceipt
  <2> QED BY <1>1, <2>2, <2>3, CallerStepContent
<1>6. ASSUME NEW c \in Callers, ReadPrepared(c) PROVE ContentInv'
  <2> DEFINE w == call[c].write
  <2>1. w \in Writes /\ call[c] \in CallState /\ pc[c] = "reading"
    BY <1>0, <1>6 DEF ReadPrepared, Active
  <2>2. /\ pc'[c] \in {"raised", "authorizing"}
        /\ pc'[c] = "authorizing" => prepared[w] # NoContent
        /\ call'[c].write = w /\ call'[c].attempts = call[c].attempts
        /\ call'[c].content = prepared[w] /\ UNCHANGED prepared
    BY <1>0, <1>6, <2>1 DEF ReadPrepared, CallState
  <2>3. ~Ran(c)' /\ pc'[c] \in {"raised", "authorizing"}
    BY <1>2, <2>1, <2>2 DEF Ran, BeforeClaim
  <2>4. HoldsContent(c)' /\ HoldsApproval(c)'
    BY <2>2, <2>3 DEF HoldsContent, HoldsApproval, Active
  <2>5. ContentStep(c, w)
    BY <1>0, <1>6 DEF ReadPrepared, ContentStep
  <2> QED BY <1>1, <2>1, <2>4, <2>5, CallerStepContent
<1>7. ASSUME NEW c \in Callers, ReadAuthorization(c) PROVE ContentInv'
  <2> DEFINE w == call[c].write
  <2>1. w \in Writes /\ call[c] \in CallState /\ pc[c] = "authorizing"
        /\ prepared[w] # NoContent /\ call[c].content = prepared[w] /\ ~Ran(c)
    BY <1>0, <1>2, <1>7 DEF ReadAuthorization, Active, HoldsContent, BeforeClaim
  <2>2. \A auth \in Authorization(w, call[c].content.scope) : Approved(w, auth)
    BY <1>0 DEF Authorization, Approved, ActiveApprovals, ExactApproval, IInv, TypeInv,
       TypeOK, ApprovalRow, StandingPermission, ApprovalsBind
  <2>3. /\ call'[c].write = w /\ call'[c].attempts = call[c].attempts
        /\ call'[c].content = prepared[w] /\ UNCHANGED <<prepared, approvals>>
        /\ \/ pc'[c] = "approval_required"
           \/ pc'[c] = "claiming" /\ Approved(w, call'[c].auth)
    BY <1>0, <1>7, <2>1, <2>2 DEF ReadAuthorization, CallState
  <2>4. HoldsContent(c)' /\ HoldsApproval(c)'
    BY <2>1, <2>3 DEF HoldsContent, HoldsApproval, Ran, Active, Approved
  <2>5. ContentStep(c, w)
    BY <1>0, <1>7 DEF ReadAuthorization, ContentStep
  <2> QED BY <1>1, <2>1, <2>4, <2>5, CallerStepContent
<1>8. ASSUME NEW c \in Callers, pc[c] \in Active, ContentStep(c, call[c].write),
             call'[c] = call[c],
             pc'[c] \in Ended
               \/ pc[c] \in {"claiming", "claimed", "aborting", "invoking", "finalizing"}
      PROVE  ContentInv'
  <2>1. call[c].write \in Writes /\ prepared' = prepared /\ approvals' = approvals
    BY <1>0, <1>8 DEF ContentStep
  <2>2. \A label \in Ended : label \notin Active
    BY DEF Ended, Active
  <2>3. Ran(c)' = Ran(c)
    BY <1>8 DEF Ran
  <2>4. HoldsContent(c)' /\ HoldsApproval(c)'
    BY <1>0, <1>8, <2>1, <2>2, <2>3
       DEF HoldsContent, HoldsApproval, Approved, Active
  <2> QED BY <1>1, <1>8, <2>1, <2>4, CallerStepContent
<1>9. ASSUME NEW c \in Callers, pc[c] \in Active, NEW label \in Ended, Goto(c, label),
             UNCHANGED <<tables, call>>
      PROVE  ContentInv'
  <2>1. pc'[c] = label /\ ContentStep(c, call[c].write)
    BY <1>0, <1>9 DEF ContentStep
  <2> QED BY <1>8, <1>9, <2>1
<1>10. ASSUME NEW c \in Callers, pc[c] \in {"claimed", "aborting", "finalizing"},
              exec[call[c].write].owner = c,
              \E state : SetClaimState(call[c].write, state),
              \E label : Goto(c, label),
              UNCHANGED <<prepared, approvals, call>>
       PROVE  ContentInv'
  <2>1. call[c].write \in Writes /\ pc[c] \in Active
    BY <1>0, <1>10 DEF Active
  <2>2. exec'[call[c].write].auth = exec[call[c].write].auth
        /\ \A v \in Writes \ {call[c].write} : exec'[v] = exec[v]
    BY <1>0, <1>10, <2>1, StateChange
  <2>3. \A d \in Callers \ {c} : pc'[d] = pc[d]
    BY <1>0, <1>10
  <2>4. ContentStep(c, call[c].write)
    BY <1>3, <1>10, <2>1, <2>2, <2>3 DEF ContentStep
  <2> QED BY <1>8, <1>10, <2>1, <2>4
<1>11. ASSUME NEW c \in Callers, Claim(c) PROVE ContentInv'
  <2> DEFINE w == call[c].write
  <2>1. w \in Writes /\ pc[c] = "claiming" /\ pc[c] \in Active /\ call' = call
    BY <1>0, <1>11 DEF Claim, Active
  <2>2. prepared[w] # NoContent /\ Approved(w, call[c].auth)
    BY <1>0, <2>1 DEF Active, HoldsContent, HoldsApproval
  <2>3. /\ \A v \in Writes \ {w} : exec'[v] = exec[v]
        /\ exec'[w] = exec[w] \/ exec'[w].auth = call[c].auth
    BY <1>0, <1>11, <2>1 DEF Claim
  <2>4. UNCHANGED <<prepared, approvals>> /\ \A d \in Callers \ {c} : pc'[d] = pc[d]
    BY <1>0, <1>11 DEF Claim
  <2>5. ContentStep(c, w)
    BY <2>1, <2>2, <2>3, <2>4 DEF ContentStep
  <2> QED BY <1>8, <2>1, <2>5
<1>12. ASSUME NEW c \in Callers, Dispatch(c) PROVE ContentInv'
  <2>1. pc[c] = "claimed" /\ pc[c] \in Active /\ "raised" \in Ended
    BY <1>12 DEF Dispatch, Active, Ended
  <2>2. CASE NotOwner(c)
    BY <1>9, <2>1, <2>2 DEF NotOwner
  <2>3. CASE /\ exec[call[c].write].owner = c
             /\ Goto(c, "raised") /\ UNCHANGED <<tables, call, cleared>>
    BY <1>9, <2>1, <2>3
  <2>4. CASE /\ exec[call[c].write].owner = c
             /\ \E state \in {"aborted", "dispatched"} : SetClaimState(call[c].write, state)
             /\ \E label \in {"aborting", "invoking"} : Goto(c, label)
             /\ UNCHANGED <<prepared, approvals, granted, revoked, receipts, call>>
    BY <1>10, <2>1, <2>4
  <2> QED BY <1>12, <2>2, <2>3, <2>4, Zenon DEF Dispatch
<1>13. ASSUME NEW c \in Callers, Abort(c) PROVE ContentInv'
  <2>1. pc[c] = "aborting" /\ pc[c] \in Active /\ "raised" \in Ended
    BY <1>13 DEF Abort, Active, Ended
  <2>2. CASE NotOwner(c)
    BY <1>9, <2>1, <2>2 DEF NotOwner
  <2>3. CASE exec[call[c].write].owner = c
    BY <1>10, <1>13, <2>1, <2>3 DEF Abort, NotOwner
  <2> QED BY <1>13, <2>2, <2>3 DEF Abort
<1>14. ASSUME NEW c \in Callers, Release(c) PROVE ContentInv'
  BY <1>10, <1>14 DEF Release
<1>15. ASSUME NEW c \in Callers, pc[c] \in {"claimed", "finalizing"},
              \E receipt : SettleClaim(c, receipt)
       PROVE  ContentInv'
  <2>1. SetClaimState(call[c].write, "finalized") /\ Goto(c, "returned")
        /\ exec[call[c].write].owner = c /\ UNCHANGED <<prepared, approvals, call>>
    BY <1>15 DEF SettleClaim
  <2> QED BY <1>10, <1>15, <2>1
<1>16. ASSUME NEW c \in Callers, Reconcile(c) PROVE ContentInv'
  BY <1>15, <1>16 DEF Reconcile
<1>17. ASSUME NEW c \in Callers, Finalize(c) PROVE ContentInv'
  <2>1. pc[c] = "finalizing" /\ pc[c] \in Active /\ "raised" \in Ended
    BY <1>17 DEF Finalize, Active, Ended
  <2>2. CASE NotOwner(c)
    BY <1>9, <2>1, <2>2 DEF NotOwner
  <2>3. CASE Goto(c, "raised") /\ UNCHANGED <<tables, call, cleared>>
    BY <1>9, <2>1, <2>3
  <2>4. CASE \E receipt : SettleClaim(c, receipt)
    BY <1>15, <2>1, <2>4
  <2> QED BY <1>17, <2>2, <2>3, <2>4, Zenon DEF Finalize
<1>18. ASSUME NEW c \in Callers, Crash(c) PROVE ContentInv'
  BY <1>9, <1>18 DEF Crash, Ended
<1>19. ASSUME NEW c \in Callers, InvokeAdapter(c) PROVE ContentInv'
  <2>1. call[c] \in CallState /\ pc[c] = "invoking" /\ call[c].write \in Writes
    BY <1>0, <1>19 DEF InvokeAdapter, Active
  <2>2. call'[c].write = call[c].write /\ call'[c].content = call[c].content
        /\ call'[c].auth = call[c].auth /\ UNCHANGED <<prepared, approvals, exec>>
    BY <1>0, <1>19, <2>1 DEF InvokeAdapter, CallState
  <2>3. HoldsContent(c)' /\ HoldsApproval(c)'
    BY <1>0, <2>1, <2>2 DEF HoldsContent, HoldsApproval, Approved, Active
  <2>4. ContentStep(c, call[c].write)
    BY <1>0, <1>19 DEF InvokeAdapter, ContentStep
  <2> QED BY <1>1, <2>1, <2>3, <2>4, CallerStepContent
<1>20. ASSUME NEW c \in Callers, NEW w \in Writes, Inspect(c, w) PROVE ContentInv'
  <2>1. call[c] \in CallState /\ pc[c] = "idle" /\ ~Ran(c) /\ prepared[w] # NoContent
    BY <1>0, <1>2, <1>20 DEF Inspect, BeforeClaim, RowsApproved
  <2>2. /\ call'[c].write = w /\ call'[c].content = prepared[w]
        /\ call'[c].attempts = call[c].attempts /\ pc'[c] = "inspected"
        /\ UNCHANGED <<prepared, approvals, exec>>
    BY <1>0, <1>20, <2>1 DEF Inspect, CallState
  <2>3. HoldsContent(c)' /\ HoldsApproval(c)'
    BY <2>1, <2>2 DEF HoldsContent, HoldsApproval, Ran, Active
  <2>4. ContentStep(c, w)
    BY <1>0, <1>20 DEF Inspect, ContentStep
  <2> QED BY <1>1, <2>3, <2>4, CallerStepContent
<1>21. ASSUME NEW c \in Callers, Recover(c) PROVE ContentInv'
  <2> DEFINE w == call[c].write
  <2>1. w \in Writes /\ pc[c] = "inspected" /\ call[c] \in CallState /\ exec[w] \in ClaimRow
    BY <1>0, <1>21 DEF Recover, Active
  <2>2. CASE Recoverable(exec[w], call[c].seen.revision)
    <3>1. /\ prepared[w] # NoContent /\ call[c].content = prepared[w] /\ ~Ran(c)
          /\ Approved(w, exec[w].auth)
      BY <1>0, <1>2, <2>1 DEF HoldsContent, Active, BeforeClaim, CallerInv, SawARow,
         RowsApproved, NoClaim
    <3>2. exec' = [exec EXCEPT ![w] =
                      [exec[w] EXCEPT !.state = "claimed", !.owner = c,
                                      !.revision = exec[w].revision + 1,
                                      !.recoveryOwner = exec[w].owner]]
          /\ call' = [call EXCEPT ![c].auth = exec[w].auth]
      BY <1>21, <2>2, Zenon DEF Recover
    <3>3. exec'[w].auth = exec[w].auth /\ \A v \in Writes \ {w} : exec'[v] = exec[v]
      BY <1>0, <2>1, <3>2 DEF ClaimRow
    <3>4. /\ call'[c].write = w /\ call'[c].content = prepared[w]
          /\ call'[c].attempts = call[c].attempts /\ call'[c].auth = exec[w].auth
          /\ \A d \in Callers \ {c} : pc'[d] = pc[d] /\ call'[d] = call[d]
          /\ UNCHANGED <<prepared, approvals>>
      BY <1>0, <1>21, <2>1, <2>2, <3>1, <3>2 DEF Recover, CallState
    <3>5. HoldsContent(c)' /\ HoldsApproval(c)'
      BY <3>1, <3>4 DEF HoldsContent, HoldsApproval, Approved, Ran
    <3>6. ContentStep(c, w)
      BY <3>1, <3>3, <3>4 DEF ContentStep
    <3> QED BY <1>1, <2>1, <3>5, <3>6, CallerStepContent
  <2>3. CASE ~Recoverable(exec[w], call[c].seen.revision)
    BY <1>9, <1>21, <2>3 DEF Recover, Active, Ended
  <2> QED BY <2>2, <2>3
<1>22. CASE UNCHANGED vars
  BY <1>22 DEF vars, ContentInv, ApprovalsBind, RowsApproved, HoldsContent,
     HoldsApproval, Approved, Ran
<1> QED
  BY <1>4, <1>5, <1>6, <1>7, <1>11, <1>12, <1>13, <1>14, <1>16, <1>17, <1>18, <1>19,
     <1>20, <1>21, <1>22 DEF Next, Continue, Recovery, Callers

\* The adapter gets the content that was prepared, and an exact approval under
\* which it runs names the write and that content: what execute() read in one
\* transaction is still what it runs in another.
THEOREM RunsWhatWasApprovedCorrect == Spec => []RunsWhatWasApproved
<1>1. Init => ContentInv
  BY DEF Init, ContentInv, ApprovalsBind, RowsApproved, HoldsContent, HoldsApproval, Ran,
     NoCall, Active
<1>2. IInv /\ ContentInv => RunsWhatWasApproved
  BY DEF ContentInv, HoldsContent, HoldsApproval, Approved, RunsWhatWasApproved
<1> QED BY Invariance, ContentNext, <1>1, <1>2, PTL DEF Spec

-----------------------------------------------------------------------------
(* Who moves the claim of a dead caller.                                   *)

OrphanKept ==
    \A w \in Writes :
        Orphaned(w) /\ exec'[w] # exec[w] => exec'[w].recoveryOwner = exec[w].owner

LEMMA OrphanNext == IInv /\ [Next]_vars => OrphanKept
<1> SUFFICES ASSUME IInv, [Next]_vars PROVE OrphanKept
  OBVIOUS
<1> USE DEF tables
<1>0. /\ exec \in [Writes -> ClaimRow]
      /\ \A c \in Callers : pc[c] \in Active => call[c].write \in Writes
  BY DEF IInv, TypeInv, TypeOK, HasWrite
<1>1. CASE UNCHANGED exec
  BY <1>1 DEF OrphanKept
<1>2. ASSUME NEW c \in Callers, Claim(c) PROVE OrphanKept
  <2>1. call[c].write \in Writes
    BY <1>0, <1>2 DEF Claim, Active
  <2>2. CASE Claimable(exec[call[c].write], call[c].content.digest)
    BY <1>0, <1>2, <2>1, <2>2 DEF Claim, Claimable, OrphanKept, Orphaned
  <2> QED BY <1>1, <1>2, <2>2 DEF Claim
<1>3. ASSUME NEW c \in Callers, pc[c] \in {"claimed", "aborting", "finalizing"},
             exec[call[c].write].owner = c,
             \E state : SetClaimState(call[c].write, state)
      PROVE  OrphanKept
  <2>1. call[c].write \in Writes
    BY <1>0, <1>3 DEF Active
  <2>2. \A v \in Writes \ {call[c].write} : exec'[v] = exec[v]
    BY <1>0, <1>3, <2>1, StateChange
  <2> QED BY <1>3, <2>2 DEF OrphanKept, Orphaned
<1>4. ASSUME NEW c \in Callers, pc[c] \in {"claimed", "finalizing"},
             \E receipt : SettleClaim(c, receipt)
      PROVE  OrphanKept
  BY <1>3, <1>4 DEF SettleClaim
<1>5. ASSUME NEW c \in Callers, Recover(c) PROVE OrphanKept
  <2> DEFINE w == call[c].write
  <2>1. w \in Writes
    BY <1>0, <1>5 DEF Recover, Active
  <2>2. CASE Recoverable(exec[w], call[c].seen.revision)
    <3>1. exec[w] \in ClaimRow
      BY <1>0, <2>1
    <3>2. exec' = [exec EXCEPT ![w] =
                      [exec[w] EXCEPT !.state = "claimed", !.owner = c,
                                      !.revision = exec[w].revision + 1,
                                      !.recoveryOwner = exec[w].owner]]
      BY <1>5, <2>2, Zenon DEF Recover
    <3>3. exec'[w].recoveryOwner = exec[w].owner
          /\ \A v \in Writes \ {w} : exec'[v] = exec[v]
      BY <1>0, <2>1, <3>1, <3>2 DEF ClaimRow
    <3> QED BY <3>3 DEF OrphanKept
  <2> QED BY <1>1, <1>5, <2>2 DEF Recover
<1>6. ASSUME NEW c \in Callers, Dispatch(c) PROVE OrphanKept
  BY <1>1, <1>3, <1>6 DEF Dispatch, NotOwner
<1>7. ASSUME NEW c \in Callers, Abort(c) PROVE OrphanKept
  BY <1>1, <1>3, <1>7 DEF Abort, NotOwner
<1>8. ASSUME NEW c \in Callers, Release(c) PROVE OrphanKept
  BY <1>3, <1>8 DEF Release
<1>9. ASSUME NEW c \in Callers, Reconcile(c) PROVE OrphanKept
  BY <1>4, <1>9 DEF Reconcile
<1>10. ASSUME NEW c \in Callers, Finalize(c) PROVE OrphanKept
  BY <1>1, <1>4, <1>10 DEF Finalize, NotOwner
<1>11. CASE Authorise
  BY <1>1, <1>11
     DEF Authorise, Prepare, ApproveExact, GrantPermission, RevokePermission
<1>12. ASSUME NEW c \in Callers,
              \/ \E w \in Writes : ReadReceipt(c, w) \/ Inspect(c, w)
              \/ ReadPrepared(c) \/ ReadAuthorization(c)
              \/ InvokeAdapter(c) \/ Crash(c)
       PROVE  OrphanKept
  BY <1>1, <1>12 DEF ReadReceipt, ReadPrepared, ReadAuthorization, InvokeAdapter,
     Inspect, Crash
<1>13. CASE UNCHANGED vars
  BY <1>1, <1>13 DEF vars
<1> QED
  BY <1>2, <1>5, <1>6, <1>7, <1>8, <1>9, <1>10, <1>11, <1>12, <1>13
     DEF Next, Continue, Recovery, Callers

\* The claim a dead caller left is moved by recover_execution only, which
\* writes down whose claim it took.
THEOREM OrphanNeedsRecoveryCorrect == Spec => OrphanNeedsRecovery
<1>1. IInv /\ [Next]_vars => [OrphanKept]_vars
  BY OrphanNext
<1>2. [][OrphanKept]_vars => OrphanNeedsRecovery
  BY PTL DEF OrphanKept, OrphanNeedsRecovery
<1> QED BY Invariance, <1>1, <1>2, PTL DEF Spec
=============================================================================
