-------------------------- MODULE ExternalWrites --------------------------
(***************************************************************************)
(* Governed external writes: ExternalWriteService (connectors.py) over the *)
(* transactional store SQLiteExternalWriteRepository                       *)
(* (external_write_store.py).                                              *)
(*                                                                         *)
(* A write is prepared, authorised by an exact approval or by a matching   *)
(* standing permission, claimed by one execute() call, dispatched after    *)
(* the authority is read again, run through the external adapter, and      *)
(* finalised with a receipt.  Every repository method is one BEGIN         *)
(* IMMEDIATE transaction, so it is one action; execute() is a sequence of  *)
(* such transactions and other processes run between any two of them.      *)
(*                                                                         *)
(* A claim owner is "<pid>-<uuid4>", fresh for every execute() call, so a  *)
(* caller stands for one call and is its own claim owner.  The number of   *)
(* callers bounds a behaviour.  A recovery caller uses the repository's    *)
(* recover_execution, which no service method calls, and goes on with the  *)
(* other methods the repository offers to the new owner.                   *)
(***************************************************************************)
EXTENDS Naturals, FiniteSets

CONSTANTS
    Writes,       \* write identifiers
    Scopes,       \* <connector, action type, target, trigger, boundary>
    Digests,      \* payload digests, one per distinct payload
    Approvals,    \* exact-approval identifiers
    Permissions,  \* standing-permission identifiers
    Calls,        \* calls of ExternalWriteService.execute
    Recoverers,   \* callers of recover_execution
    MaxRetries,   \* max_retries of execute
    None          \* the absent value (NULL, None)

Callers == Calls \cup Recoverers

ASSUME NoneAssumption ==
    None \notin Writes \cup Scopes \cup Digests \cup Callers
ASSUME RetryAssumption == MaxRetries \in Nat
ASSUME CallerAssumption == Calls \cap Recoverers = {}

VARIABLES
    prepared,     \* external_prepared_writes: write -> scope and digest
    approvals,    \* external_write_approvals: rows; the state is always active
    granted,      \* external_standing_permissions: rows
    revoked,      \* ids of the permissions whose state is 'revoked'
    exec,         \* external_write_executions: write -> claim row
    receipts,     \* external_write_receipts: write -> receipt
    pc,           \* where each caller is
    call,         \* the local variables of each caller
    cleared       \* history: the authorities live when the caller dispatched

tables == <<prepared, approvals, granted, revoked, exec, receipts>>
locals == <<pc, call, cleared>>
vars == <<prepared, approvals, granted, revoked, exec, receipts, pc, call, cleared>>

-----------------------------------------------------------------------------
Content == [scope : Scopes, digest : Digests]
NoContent == [scope |-> None, digest |-> None]

ApprovalRow == [id : Approvals, write : Writes, digest : Digests]
PermissionRow == [id : Permissions, scope : Scopes]

ExactApproval(a) == [kind |-> "exact_approval", id |-> a]
StandingPermission(p) == [kind |-> "standing_permission", id |-> p]
Authorities == {ExactApproval(a) : a \in Approvals}
                   \cup {StandingPermission(p) : p \in Permissions}
NoAuthority == [kind |-> "none", id |-> None]

ClaimStates == {"none", "claimed", "dispatched", "finalized", "aborted"}
ClaimRow == [state : ClaimStates,
             owner : Callers \cup {None},
             digest : Digests \cup {None},
             auth : Authorities \cup {NoAuthority},
             revision : Nat,
             recoveryOwner : Callers \cup {None}]
NoClaim == [state |-> "none", owner |-> None, digest |-> None,
            auth |-> NoAuthority, revision |-> 0, recoveryOwner |-> None]

Outcomes == {"success", "failed", "unknown"}
Receipt == [status : Outcomes,
            auth : Authorities \cup {NoAuthority},
            attempts : Nat]
NoReceipt == [status |-> "none", auth |-> NoAuthority, attempts |-> 0]

Ended == {"returned", "approval_required", "raised", "crashed"}
Active == {"reading", "authorizing", "claiming", "claimed", "aborting",
           "invoking", "finalizing", "inspected"}
CallState == [write : Writes \cup {None},
              content : Content \cup {NoContent},
              auth : Authorities \cup {NoAuthority},
              attempts : Nat,
              result : Outcomes \cup {"none"},
              seen : ClaimRow]
NoCall == [write |-> None, content |-> NoContent, auth |-> NoAuthority,
           attempts |-> 0, result |-> "none", seen |-> NoClaim]

-----------------------------------------------------------------------------
(* The authority a write has: _active_approval_id and _authorization.      *)

AnyApprovals(w) == approvals   \* mutant: the approval of another write counts

ActiveApprovals(w) == {r \in approvals : r.write = w}

MatchingPermissions(scope) ==
    {r \in granted : r.id \notin revoked /\ r.scope = scope}

\* Everything that authorises write w now.
LiveAuthorities(w, scope) ==
    {ExactApproval(r.id) : r \in ActiveApprovals(w)}
        \cup {StandingPermission(r.id) : r \in MatchingPermissions(scope)}

\* What _authorization may return: an approval before any permission.  SQL
\* takes the first row by rowid; the model lets it take any one.
Authorization(w, scope) ==
    IF ActiveApprovals(w) # {}
    THEN {ExactApproval(r.id) : r \in ActiveApprovals(w)}
    ELSE {StandingPermission(r.id) : r \in MatchingPermissions(scope)}

Init ==
    /\ prepared = [w \in Writes |-> NoContent]
    /\ approvals = {}
    /\ granted = {}
    /\ revoked = {}
    /\ exec = [w \in Writes |-> NoClaim]
    /\ receipts = [w \in Writes |-> NoReceipt]
    /\ pc = [c \in Callers |-> "idle"]
    /\ call = [c \in Callers |-> NoCall]
    /\ cleared = [c \in Callers |-> {}]

-----------------------------------------------------------------------------
(* Preparing and authorising.                                              *)

\* prepare: an identifier keeps its first content; preparing it again returns
\* the stored row or raises ExternalWriteConflict, and changes nothing.
Prepare(w, content) ==
    /\ prepared[w] = NoContent
    /\ prepared' = [prepared EXCEPT ![w] = content]
    /\ UNCHANGED <<approvals, granted, revoked, exec, receipts, locals>>

\* approve_exact: the service binds the stored digest; an approval identifier
\* is used once and a write has one active approval.
ApproveExact(w, a) ==
    /\ prepared[w] # NoContent
    /\ \A r \in approvals : r.id # a /\ r.write # w
    /\ approvals' = approvals \cup
                      {[id |-> a, write |-> w, digest |-> prepared[w].digest]}
    /\ UNCHANGED <<prepared, granted, revoked, exec, receipts, locals>>

\* grant_permission: a permission identifier is never reused.
GrantPermission(p, scope) ==
    /\ \A r \in granted : r.id # p
    /\ granted' = granted \cup {[id |-> p, scope |-> scope]}
    /\ UNCHANGED <<prepared, approvals, revoked, exec, receipts, locals>>

\* revoke_permission: revoking is final, and revoking again changes nothing.
RevokePermission(p) ==
    /\ \E r \in granted : r.id = p
    /\ p \notin revoked
    /\ revoked' = revoked \cup {p}
    /\ UNCHANGED <<prepared, approvals, granted, exec, receipts, locals>>

-----------------------------------------------------------------------------
(* execute(), one transaction at a time.                                   *)

Goto(c, label) == pc' = [pc EXCEPT ![c] = label]

\* get_receipt: a finished write returns its receipt and does nothing else.
ReadReceipt(c, w) ==
    /\ pc[c] = "idle"
    /\ Goto(c, IF receipts[w] # NoReceipt THEN "returned" ELSE "reading")
    /\ call' = [call EXCEPT ![c].write = w]
    /\ UNCHANGED <<tables, cleared>>

\* get_prepared: an unknown write raises KeyError.
ReadPrepared(c) ==
    LET content == prepared[call[c].write] IN
    /\ pc[c] = "reading"
    /\ Goto(c, IF content = NoContent THEN "raised" ELSE "authorizing")
    /\ call' = [call EXCEPT ![c].content = content]
    /\ UNCHANGED <<tables, cleared>>

\* authorization: without one the caller gets an ApprovalRequest.
ReadAuthorization(c) ==
    LET found == Authorization(call[c].write, call[c].content.scope) IN
    /\ pc[c] = "authorizing"
    /\ \/ /\ found = {}
          /\ Goto(c, "approval_required")
          /\ UNCHANGED call
       \/ \E auth \in found :
          /\ Goto(c, "claiming")
          /\ call' = [call EXCEPT ![c].auth = auth]
    /\ UNCHANGED <<tables, cleared>>

\* What claim_execution lets a fresh owner take: a write nobody claimed, or
\* one whose last claim was aborted.
ClaimableUnfinished(row, digest) ==
    row.state # "finalized"    \* mutant: a claim in progress is taken over

Claimable(row, digest) ==
    \/ row.state = "none"
    \/ row.state = "aborted" /\ row.digest = digest

ClaimWaits(c) ==               \* mutant: a refused caller tries again
    LET w == call[c].write
        row == exec[w]
        open == Claimable(row, call[c].content.digest)
        taken == [state |-> "claimed", owner |-> c, digest |-> call[c].content.digest,
                 auth |-> call[c].auth, revision |-> row.revision + 1,
                 recoveryOwner |-> row.recoveryOwner]
    IN
    /\ pc[c] = "claiming"
    /\ exec' = IF open THEN [exec EXCEPT ![w] = taken] ELSE exec
    /\ Goto(c, IF open THEN "claimed" ELSE "authorizing")
    /\ UNCHANGED <<prepared, approvals, granted, revoked, receipts, call, cleared>>

\* claim_execution: takes the write, or raises.
Claim(c) ==
    LET w == call[c].write
        row == exec[w]
        open == Claimable(row, call[c].content.digest)
    IN
    /\ pc[c] = "claiming"
    /\ \/ /\ open
          /\ exec' = [exec EXCEPT ![w] =
                        [state |-> "claimed",
                         owner |-> c,
                         digest |-> call[c].content.digest,
                         auth |-> call[c].auth,
                         revision |-> row.revision + 1,
                         recoveryOwner |-> row.recoveryOwner]]
          /\ Goto(c, "claimed")
       \/ /\ ~open
          /\ Goto(c, "raised")
          /\ UNCHANGED exec
    /\ UNCHANGED <<prepared, approvals, granted, revoked, receipts, call, cleared>>

\* A caller whose claim was taken over raises ExternalWriteClaimConflict.
NotOwner(c) ==
    /\ exec[call[c].write].owner # c
    /\ Goto(c, "raised")
    /\ UNCHANGED <<tables, call, cleared>>

SetStateOnly(w, state) ==     \* mutant: the revision is not advanced
    exec' = [exec EXCEPT ![w].state = state]

SetClaimState(w, state) ==
    exec' = [exec EXCEPT ![w].state = state, ![w].revision = @ + 1]

AuthorityAssumed(w) == FALSE   \* mutant: dispatch trusts the first read

AuthorityGone(w) == LiveAuthorities(w, prepared[w].scope) = {}

\* dispatch_execution: reads the authority again inside the transaction.  When
\* none is left the claim is aborted whatever its state, and the exception
\* sends execute() to abort_execution.
Dispatch(c) ==
    LET w == call[c].write
        row == exec[w]
    IN
    /\ pc[c] = "claimed"
    /\ \/ NotOwner(c)
       \/ /\ row.owner = c
          /\ AuthorityGone(w)
          /\ SetClaimState(w, "aborted")
          /\ Goto(c, "aborting")
          /\ UNCHANGED cleared
          /\ UNCHANGED <<prepared, approvals, granted, revoked, receipts, call>>
       \/ /\ row.owner = c
          /\ ~AuthorityGone(w)
          /\ row.state # "claimed"
          /\ Goto(c, "raised")
          /\ UNCHANGED <<tables, call, cleared>>
       \/ /\ row.owner = c
          /\ ~AuthorityGone(w)
          /\ row.state = "claimed"
          /\ SetClaimState(w, "dispatched")
          /\ Goto(c, "invoking")
          /\ cleared' = [cleared EXCEPT ![c] = LiveAuthorities(w, prepared[w].scope)]
          /\ UNCHANGED <<prepared, approvals, granted, revoked, receipts, call>>

\* abort_execution, the service's answer to ExternalWriteAuthorityRevoked.
Abort(c) ==
    /\ pc[c] = "aborting"
    /\ \/ NotOwner(c)
       \/ /\ exec[call[c].write].owner = c
          /\ SetClaimState(call[c].write, "aborted")
          /\ Goto(c, "approval_required")
          /\ UNCHANGED <<prepared, approvals, granted, revoked, receipts, call, cleared>>

\* One turn of _invoke_adapter's loop: only a reported failure is tried again;
\* an exception is an unknown outcome.
InvokeAdapter(c) ==
    /\ pc[c] = "invoking"
    /\ \E outcome \in Outcomes :
       /\ call' = [call EXCEPT ![c].attempts = @ + 1, ![c].result = outcome]
       /\ Goto(c, IF outcome = "failed" /\ call[c].attempts < MaxRetries
                  THEN "invoking" ELSE "finalizing")
    /\ UNCHANGED <<tables, cleared>>

SettleableUndispatched(row) == \* mutant: only a claim not dispatched settles
    row.state = "claimed"

Settleable(row) == row.state \in {"claimed", "dispatched"}

\* finalize_execution: claim and receipt in one transaction.
SettleClaim(c, receipt) ==
    LET w == call[c].write IN
    /\ exec[w].owner = c
    /\ Settleable(exec[w])
    /\ SetClaimState(w, "finalized")
    /\ receipts' = [receipts EXCEPT ![w] = receipt]
    /\ Goto(c, "returned")
    /\ UNCHANGED <<prepared, approvals, granted, revoked, call, cleared>>

Finalize(c) ==
    /\ pc[c] = "finalizing"
    /\ \/ NotOwner(c)
       \/ /\ exec[call[c].write].owner = c
          /\ ~Settleable(exec[call[c].write])
          /\ Goto(c, "raised")
          /\ UNCHANGED <<tables, call, cleared>>
       \/ SettleClaim(c, [status |-> call[c].result,
                          auth |-> call[c].auth,
                          attempts |-> call[c].attempts])

\* The process dies, or the database raises, between two transactions.
Crash(c) ==
    /\ pc[c] \in Active
    /\ Goto(c, "crashed")
    /\ UNCHANGED <<tables, call, cleared>>

-----------------------------------------------------------------------------
(* Recovery of an interrupted claim.                                       *)

\* execution: the row, with the revision the recovery will expect.
Inspect(c, w) ==
    /\ pc[c] = "idle"
    /\ exec[w] # NoClaim
    /\ Goto(c, "inspected")
    /\ call' = [call EXCEPT ![c].write = w, ![c].seen = exec[w],
                            ![c].content = prepared[w]]
    /\ UNCHANGED <<tables, cleared>>

RecoverableAnyState(row, revision) ==   \* mutant: a finished write is reopened
    row.revision = revision

Recoverable(row, revision) ==
    /\ row.revision = revision
    /\ row.state # "finalized"

\* recover_execution: takes the claim over, unless the row changed since it
\* was read or the write is finished.
Recover(c) ==
    LET w == call[c].write
        row == exec[w]
        allowed == Recoverable(row, call[c].seen.revision)
    IN
    /\ pc[c] = "inspected"
    /\ \/ /\ allowed
          /\ exec' = [exec EXCEPT ![w].state = "claimed",
                                  ![w].owner = c,
                                  ![w].revision = @ + 1,
                                  ![w].recoveryOwner = row.owner]
          /\ call' = [call EXCEPT ![c].auth = row.auth]
          /\ Goto(c, "claimed")
       \/ /\ ~allowed
          /\ Goto(c, "raised")
          /\ UNCHANGED <<exec, call>>
    /\ UNCHANGED <<prepared, approvals, granted, revoked, receipts, cleared>>

\* The recovery owner gives the write back without running it ...
Release(c) ==
    /\ pc[c] = "claimed"
    /\ exec[call[c].write].owner = c
    /\ SetClaimState(call[c].write, "aborted")
    /\ Goto(c, "returned")
    /\ UNCHANGED <<prepared, approvals, granted, revoked, receipts, call, cleared>>

\* ... or records what became of it: finalize_execution accepts a claim that
\* was not dispatched.
Reconcile(c) ==
    /\ pc[c] = "claimed"
    /\ \E status \in Outcomes :
          SettleClaim(c, [status |-> status, auth |-> call[c].auth,
                          attempts |-> call[c].attempts])

-----------------------------------------------------------------------------
Authorise ==
    \/ \E w \in Writes, content \in Content : Prepare(w, content)
    \/ \E w \in Writes, a \in Approvals : ApproveExact(w, a)
    \/ \E p \in Permissions, scope \in Scopes : GrantPermission(p, scope)
    \/ \E p \in Permissions : RevokePermission(p)

\* What a caller does once it has begun; execute() is sequential code.
Continue(c) ==
    \/ ReadPrepared(c)
    \/ ReadAuthorization(c)
    \/ Claim(c)
    \/ Dispatch(c)
    \/ Abort(c)
    \/ InvokeAdapter(c)
    \/ Finalize(c)

Recovery(c) ==
    \/ \E w \in Writes : Inspect(c, w)
    \/ Recover(c)
    \/ Release(c)
    \/ Reconcile(c)

Next ==
    \/ Authorise
    \/ \E c \in Calls, w \in Writes : ReadReceipt(c, w)
    \/ \E c \in Callers : Continue(c) \/ Crash(c)
    \/ \E c \in Recoverers : Recovery(c)

Spec == Init /\ [][Next]_vars

\* The interpreter goes on running a call that has begun until it ends.
FairSpec == Spec /\ \A c \in Calls : WF_vars(Continue(c))

-----------------------------------------------------------------------------
(* Properties.                                                             *)

\* Every variable holds values of its kind.
TypeOK ==
    /\ prepared \in [Writes -> Content \cup {NoContent}]
    /\ approvals \subseteq ApprovalRow
    /\ granted \subseteq PermissionRow
    /\ revoked \subseteq Permissions
    /\ exec \in [Writes -> ClaimRow]
    /\ receipts \in [Writes -> Receipt \cup {NoReceipt}]
    /\ pc \in [Callers -> Active \cup Ended \cup {"idle"}]
    /\ call \in [Callers -> CallState]
    /\ cleared \in [Callers -> SUBSET Authorities]

Ran(c) == call[c].attempts > 0

\* The adapter is run for a write by one execute() call only, whatever calls
\* race, fail or die, unless somebody recovered the claim: the claim taken in
\* claim_execution outlives every other caller's attempt on it.
OneRunner ==
    \A c, d \in Callers :
        /\ Ran(c) /\ Ran(d)
        /\ call[c].write = call[d].write
        /\ exec[call[c].write].recoveryOwner = None
        => c = d

\* A claim is finalized exactly when its receipt is stored; no later claim,
\* abort or recovery reopens a finished write (dispatch_execution aborts
\* without looking at the claim's state, so this rests on who may call it).
FinalizedWithReceipt ==
    \A w \in Writes : exec[w].state = "finalized" <=> receipts[w] # NoReceipt

\* What a caller runs is the content that was approved: an exact approval
\* names the write and digest the adapter got, though the content was read,
\* approved and run in different transactions.
RunsWhatWasApproved ==
    \A c \in Callers :
        Ran(c) => /\ prepared[call[c].write] = call[c].content
                  /\ call[c].auth.kind = "exact_approval" =>
                        [id |-> call[c].auth.id, write |-> call[c].write,
                         digest |-> call[c].content.digest] \in approvals

\* The adapter never runs for a caller that found no authority at dispatch:
\* a revocation that comes between the first read of the authority and the
\* dispatch stops the write.
RunsOnlyAuthorised == \A c \in Callers : Ran(c) => cleared[c] # {}

\* An unchanged revision means an unchanged claim, so the check of
\* recover_execution never takes over a claim its caller did not see.
RevisionIdentifiesClaim ==
    \A c \in Callers :
        pc[c] = "inspected" /\ exec[call[c].write].revision = call[c].seen.revision
            => exec[call[c].write] = call[c].seen

\* The claim of a dead caller moves only by a recovery that records its owner.
Orphaned(w) ==
    /\ exec[w].state \in {"claimed", "dispatched"}
    /\ pc[exec[w].owner] = "crashed"

OrphanNeedsRecovery ==
    [][\A w \in Writes :
          Orphaned(w) /\ exec'[w] # exec[w]
              => exec'[w].recoveryOwner = exec[w].owner]_vars

\* A call that began ends, in a result or an exception.
CallsEnd == \A c \in Calls : pc[c] # "idle" ~> pc[c] \in Ended

\* Once an adapter run began the write gets a receipt, unless its caller dies
\* or somebody else owns the claim.
RunsSettle ==
    \A c \in Calls, w \in Writes :
        pc[c] = "invoking" /\ call[c].write = w
            ~> \/ pc[c] = "crashed"
               \/ receipts[w] # NoReceipt
               \/ exec[w].owner # c

-----------------------------------------------------------------------------
(* The promise of the store: a write is held by one caller at a time.      *)

Holder == [w \in Writes |-> IF exec[w].state \in {"claimed", "dispatched"}
                            THEN exec[w].owner ELSE None]

Lease == INSTANCE ClaimLease
    WITH Items <- Writes, Owners <- Calls, Takers <- Recoverers,
         Free <- None, NoOutcome <- NoReceipt,
         holder <- Holder, outcome <- receipts

\* The claim rows and receipts implement the lease: execute() never takes a
\* write from its holder, only recover_execution does, and a receipt ends it.
HoldsLease == Lease!Spec

\* The claim table is sound, whatever calls race, die and are recovered: one
\* caller runs the adapter, a revision names one claim, a receipt ends it, and
\* no claim is taken from its holder but by a recovery (external_write_store.py).
ClaimsHold ==
    [](TypeOK /\ OneRunner /\ FinalizedWithReceipt /\ RevisionIdentifiesClaim) /\ HoldsLease

\* Every call ends, and a started run leaves a receipt unless its caller dies
\* or loses the claim (ExternalWriteService.execute).
WorkEnds == CallsEnd /\ RunsSettle

=============================================================================
