------------------------- MODULE TelegramDelivery -------------------------
(***************************************************************************)
(* The durable Telegram inbox and outbox: TelegramPollingApplication       *)
(* (telegram.py) over SQLiteTelegramDeliveryRepository                     *)
(* (telegram_delivery.py).                                                 *)
(*                                                                         *)
(* A poller accepts updates and advances the acknowledgement offset in one *)
(* transaction, runs each update through the gateway once, saves the       *)
(* reply, and sends it.  Every repository method is one transaction and    *)
(* one action; the calls of the gateway and of the Bot API lie between     *)
(* two of them.  A worker stands for one poller process: its identifier is *)
(* drawn when the process starts, so a process that died never comes back  *)
(* under the same name.  Telegram's own queue is external.                 *)
(***************************************************************************)
EXTENDS Naturals

CONSTANTS
    LastUpdate,    \* updates are numbered 1 .. LastUpdate, as Telegram does
    SetupOffset,   \* next_update_offset of the stored settings, 0 for none
    Workers,       \* poller processes
    RetryLimit,    \* delivery_retry_limit
    MaxAcks,       \* bound on the recoveries and retries an operator asks for
    None

Updates == 1 .. LastUpdate

ASSUME LimitAssumption ==
    /\ LastUpdate \in Nat /\ RetryLimit \in Nat \ {0} /\ MaxAcks \in Nat
    /\ SetupOffset \in 0 .. LastUpdate
ASSUME WorkerAssumption == None \notin Workers

VARIABLES
    arrived,      \* how many updates users have sent
    held,         \* updates Telegram still keeps for getUpdates
    offset,       \* telegram_next_update_offset; 0 when absent
    inbox,        \* telegram_updates: update -> row
    pc,           \* where each poller is in run_once
    local,        \* the local variables of each poller
    work,         \* history: turns the gateway may have run for an update
    shown,        \* history: times its reply reached the chat
    repeats,      \* recoveries that accepted repeated model work
    duplicates    \* retries that accepted a duplicate delivery

remote == <<arrived, held>>
history == <<work, shown, repeats, duplicates>>
vars == <<arrived, held, offset, inbox, pc, local, work, shown, repeats, duplicates>>

-----------------------------------------------------------------------------
ProcessingStates == {"absent", "accepted", "processing", "provider-failed",
                     "processing-unknown", "completed", "discarded"}
DeliveryStates == {"none", "pending", "delivering", "failed", "unknown", "delivered"}

Row == [processing : ProcessingStates, delivery : DeliveryStates,
        claimedBy : Workers \cup {None}, attempts : Nat]
NoRow == [processing |-> "absent", delivery |-> "none",
          claimedBy |-> None, attempts |-> 0]

Steps == {"start", "scan", "process", "handle", "record", "deliver", "send",
          "settle", "poll", "accept", "down"}
Results == {"none", "reply", "rejected", "provider-failed", "error",
            "delivered", "failed", "unknown", "raised"}

\* pass: the first or second half of run_once, or 0 in retry_unknown_delivery.
\* update: the update the worker has claimed, 0 for none.
Local == [pass : 0 .. 2, todo : SUBSET Updates, attempted : SUBSET Updates,
          batch : SUBSET Updates, update : 0 .. LastUpdate, result : Results]
Fresh == [pass |-> 1, todo |-> {}, attempted |-> {}, batch |-> {},
          update |-> 0, result |-> "none"]

Current(w) == local[w].update
Oldest(updates) == {u \in updates : \A v \in updates : u <= v}
Newest(updates) == {u \in updates : \A v \in updates : v <= u}

Init ==
    /\ arrived = IF SetupOffset = 0 THEN 0 ELSE SetupOffset - 1
    /\ held = 1 .. arrived
    /\ offset = 0
    /\ inbox = [u \in Updates |-> NoRow]
    /\ pc = [w \in Workers |-> "start"]
    /\ local = [w \in Workers |-> Fresh]
    /\ work = [u \in Updates |-> 0]
    /\ shown = [u \in Updates |-> 0]
    /\ repeats = [u \in Updates |-> 0]
    /\ duplicates = [u \in Updates |-> 0]

Goto(w, step) == pc' = [pc EXCEPT ![w] = step]

\* The end of the process: its local variables go with it.
Die(w) == Goto(w, "down") /\ local' = [local EXCEPT ![w] = Fresh]

-----------------------------------------------------------------------------
(* Users and Telegram.                                                     *)

Arrive ==
    /\ arrived < LastUpdate
    /\ arrived' = arrived + 1
    /\ held' = held \cup {arrived + 1}
    /\ UNCHANGED <<offset, inbox, pc, local, history>>

-----------------------------------------------------------------------------
(* run_once: what to work on.                                              *)

\* initialize_offset: the offset that setup stored counts only once.
InitializeOffset(w) ==
    /\ pc[w] = "start"
    /\ offset' = IF offset = 0 THEN SetupOffset ELSE offset
    /\ Goto(w, "scan")
    /\ UNCHANGED <<remote, inbox, local, history>>

ProcessableAgain(row) ==       \* mutant: a claim in progress may be taken
    row.processing \in {"accepted", "provider-failed", "processing"}

Processable(row) == row.processing \in {"accepted", "provider-failed"}

DeliverableAlways(row) ==      \* mutant: failed deliveries are retried for ever
    row.delivery \in {"pending", "failed"}

DeliverableOnce(row) ==        \* mutant: the limit holds for every reply
    row.delivery \in {"pending", "failed"} /\ row.attempts < RetryLimit

Deliverable(row) ==
    \/ row.delivery = "pending"
    \/ row.delivery = "failed" /\ row.attempts < RetryLimit

\* processing_candidates.
ScanProcessing(w) ==
    LET candidates == {u \in Updates : Processable(inbox[u])} IN
    /\ pc[w] = "scan"
    /\ local' = [local EXCEPT ![w] = [Fresh EXCEPT !.todo = candidates,
                                                   !.attempted = candidates]]
    /\ Goto(w, "process")
    /\ UNCHANGED <<remote, offset, inbox, history>>

\* delivery_candidates, when every update of the half has been processed.
ScanDelivery(w) ==
    /\ pc[w] = "process"
    /\ local[w].todo = {}
    /\ local' = [local EXCEPT ![w].todo = {u \in Updates : Deliverable(inbox[u])}]
    /\ Goto(w, "deliver")
    /\ UNCHANGED <<remote, offset, inbox, history>>

-----------------------------------------------------------------------------
(* _process_updates, in the order of the update identifiers.               *)

DropNone(w, u) ==              \* mutant: a failed update is tried again at once
    local' = [local EXCEPT ![w].update = 0, ![w].result = "none"]

\* The loop goes on with the next update.
Drop(w, u) ==
    local' = [local EXCEPT ![w].todo = @ \ {u}, ![w].update = 0, ![w].result = "none"]

\* claim_processing: the candidates may be stale, so the update is claimed
\* only if it still waits; an update somebody else took is skipped.
ClaimProcessing(w) ==
    /\ pc[w] = "process"
    /\ \E u \in Oldest(local[w].todo) :
          \/ /\ Processable(inbox[u])
             /\ inbox' = [inbox EXCEPT ![u].processing = "processing",
                                       ![u].claimedBy = w]
             /\ local' = [local EXCEPT ![w].update = u]
             /\ Goto(w, "handle")
          \/ /\ ~Processable(inbox[u])
             /\ Drop(w, u)
             /\ UNCHANGED <<inbox, pc>>
    /\ UNCHANGED <<remote, offset, history>>

\* TelegramUpdateAdapter.handle_update, outside any transaction.  Only a
\* reported provider failure means that no turn was completed.
Handle(w) ==
    /\ pc[w] = "handle"
    /\ \E result \in {"reply", "rejected", "provider-failed", "error"} :
          /\ local' = [local EXCEPT ![w].result = result]
          /\ work' = [work EXCEPT ![Current(w)] =
                         IF result = "provider-failed" THEN @ ELSE @ + 1]
    /\ Goto(w, "record")
    /\ UNCHANGED <<remote, offset, inbox, shown, repeats, duplicates>>

\* _finish_claim: the update must still be claimed by this worker.
OwnsProcessing(w, u) == inbox[u].processing = "processing" /\ inbox[u].claimedBy = w
OwnsDelivery(w, u) == inbox[u].delivery = "delivering" /\ inbox[u].claimedBy = w

ProcessingAfter(result) ==
    CASE result = "reply" -> "completed"
      [] result = "rejected" -> "discarded"
      [] result = "provider-failed" -> "provider-failed"
      [] result = "error" -> "processing-unknown"

\* complete_processing, discard_processing or fail_processing.  An unexpected
\* error is raised again once it is recorded, and a lost claim raises: both
\* end the process.
Record(w) ==
    LET u == Current(w)
        result == local[w].result
    IN
    /\ pc[w] = "record"
    /\ \/ /\ OwnsProcessing(w, u)
          /\ inbox' = [inbox EXCEPT
                          ![u].processing = ProcessingAfter(result),
                          ![u].delivery = IF result = "reply" THEN "pending" ELSE "none",
                          ![u].claimedBy = None]
          /\ IF result = "error" THEN Die(w) ELSE Goto(w, "process") /\ Drop(w, u)
       \/ /\ ~OwnsProcessing(w, u)
          /\ Die(w)
          /\ UNCHANGED inbox
    /\ UNCHANGED <<remote, offset, history>>

-----------------------------------------------------------------------------
(* _deliver_updates.                                                       *)

\* claim_delivery counts the attempt; a reply that is no longer deliverable
\* ends the loop for its update.
ClaimDelivery(w) ==
    /\ pc[w] = "deliver"
    /\ \E u \in Oldest(local[w].todo) :
          \/ /\ inbox[u].processing = "completed"
             /\ Deliverable(inbox[u])
             /\ inbox' = [inbox EXCEPT ![u].delivery = "delivering",
                                       ![u].attempts = @ + 1,
                                       ![u].claimedBy = w]
             /\ local' = [local EXCEPT ![w].update = u]
             /\ Goto(w, "send")
          \/ /\ ~(inbox[u].processing = "completed" /\ Deliverable(inbox[u]))
             /\ Drop(w, u)
             /\ UNCHANGED <<inbox, pc>>
    /\ UNCHANGED <<remote, offset, history>>

\* TelegramBotApi.send_message: a refusal of the first part shows nothing; a
\* time-out, a server error, a failure of a later part or an unexpected
\* exception leaves the outcome open.
Send(w) ==
    LET u == Current(w) IN
    /\ pc[w] = "send"
    /\ \E result \in {"delivered", "failed", "unknown", "raised"}, seen \in BOOLEAN :
          /\ result = "delivered" => seen
          /\ result = "failed" => ~seen
          /\ local' = [local EXCEPT ![w].result = result]
          /\ shown' = [shown EXCEPT ![u] = IF seen THEN @ + 1 ELSE @]
    /\ Goto(w, "settle")
    /\ UNCHANGED <<remote, offset, inbox, work, repeats, duplicates>>

UnknownAsDelivered(result) ==  \* mutant: a time-out counts as delivered
    IF result = "failed" THEN "failed" ELSE "delivered"

DeliveryAfter(result) ==
    CASE result = "delivered" -> "delivered"
      [] result = "failed" -> "failed"
      [] result \in {"unknown", "raised"} -> "unknown"

\* complete_delivery or fail_delivery.  After a known failure the loop claims
\* the same reply again; an unexpected exception or a lost claim ends the
\* process.
Settle(w) ==
    LET u == Current(w)
        result == local[w].result
    IN
    /\ pc[w] = "settle"
    /\ \/ /\ OwnsDelivery(w, u)
          /\ inbox' = [inbox EXCEPT ![u].delivery = DeliveryAfter(result),
                                    ![u].claimedBy = None]
          /\ CASE result = "raised" -> Die(w)
               [] result = "failed" ->
                     /\ Goto(w, "deliver")
                     /\ local' = [local EXCEPT ![w].update = 0, ![w].result = "none"]
               [] OTHER -> Goto(w, "deliver") /\ Drop(w, u)
       \/ /\ ~OwnsDelivery(w, u)
          /\ Die(w)
          /\ UNCHANGED inbox
    /\ UNCHANGED <<remote, offset, history>>

EndDeliveries(w) ==
    /\ pc[w] = "deliver"
    /\ local[w].todo = {}
    /\ IF local[w].pass = 1
       THEN Goto(w, "poll") /\ UNCHANGED local
       ELSE Goto(w, "start") /\ local' = [local EXCEPT ![w] = Fresh]
    /\ UNCHANGED <<remote, offset, inbox, history>>

-----------------------------------------------------------------------------
(* Receiving.                                                              *)

\* getUpdates: Telegram forgets what is below the offset and returns the
\* oldest updates it has; or the call fails, before or after Telegram saw it,
\* and run_forever starts over.
Poll(w) ==
    LET kept == {u \in held : u >= offset} IN
    /\ pc[w] = "poll"
    /\ \/ \E newest \in Updates \cup {0} :
             /\ held' = kept
             /\ local' = [local EXCEPT ![w].batch = {u \in kept : u <= newest}]
             /\ Goto(w, "accept")
       \/ /\ held' \in {held, kept}
          /\ Goto(w, "start")
          /\ local' = [local EXCEPT ![w] = Fresh]
    /\ UNCHANGED <<arrived, offset, inbox, history>>

NextOffsetEager(newest) ==     \* mutant: one update too many is acknowledged
    IF newest + 2 > offset THEN newest + 2 ELSE offset

NextOffset(newest) ==
    IF newest + 1 > offset THEN newest + 1 ELSE offset

AcceptAgain(row) ==            \* mutant: INSERT OR REPLACE
    [NoRow EXCEPT !.processing = "accepted"]

AcceptRow(row) ==
    IF row = NoRow THEN [NoRow EXCEPT !.processing = "accepted"] ELSE row

\* accept_updates: the rows and the offset in one transaction; an update that
\* is already there is kept as it is.  The second half of run_once processes
\* the updates that the first half did not try.
Accept(w) ==
    LET batch == local[w].batch IN
    /\ pc[w] = "accept"
    /\ inbox' = [u \in Updates |->
                    IF u \in batch THEN AcceptRow(inbox[u]) ELSE inbox[u]]
    /\ \/ \E newest \in Newest(batch) : offset' = NextOffset(newest)
       \/ batch = {} /\ UNCHANGED offset
    /\ local' = [local EXCEPT ![w] =
                    [Fresh EXCEPT !.pass = 2, !.todo = batch \ local[w].attempted]]
    /\ Goto(w, "process")
    /\ UNCHANGED <<remote, history>>

-----------------------------------------------------------------------------
(* Crashes, and what an operator may ask for.                              *)

Crash(w) ==
    /\ pc[w] # "down"
    /\ Die(w)
    /\ UNCHANGED <<remote, offset, inbox, history>>

\* recover_processing accepts that the model work may run again.
RecoverProcessing(u) ==
    /\ repeats[u] < MaxAcks
    /\ inbox[u].processing \in {"processing", "processing-unknown"}
    /\ inbox' = [inbox EXCEPT ![u].processing = "provider-failed",
                              ![u].claimedBy = None]
    /\ repeats' = [repeats EXCEPT ![u] = @ + 1]
    /\ UNCHANGED <<remote, offset, pc, local, work, shown, duplicates>>

RecoveredToPending(u) ==       \* mutant: an interrupted delivery is just resent
    /\ inbox[u].delivery = "delivering"
    /\ inbox' = [inbox EXCEPT ![u].delivery = "pending", ![u].claimedBy = None]
    /\ UNCHANGED <<remote, offset, pc, local, history>>

\* recover_delivery: what an interrupted delivery did is unknown.
RecoverDelivery(u) ==
    /\ inbox[u].delivery = "delivering"
    /\ inbox' = [inbox EXCEPT ![u].delivery = "unknown", ![u].claimedBy = None]
    /\ UNCHANGED <<remote, offset, pc, local, history>>

\* retry_unknown_delivery: prepare_unknown_retry accepts a duplicate, and the
\* same application delivers the update.
RetryUnknown(w, u) ==
    /\ pc[w] = "start"
    /\ duplicates[u] < MaxAcks
    /\ inbox[u].processing = "completed"
    /\ inbox[u].delivery = "unknown"
    /\ inbox' = [inbox EXCEPT ![u].delivery = "pending"]
    /\ duplicates' = [duplicates EXCEPT ![u] = @ + 1]
    /\ local' = [local EXCEPT ![w] = [Fresh EXCEPT !.pass = 0, !.todo = {u}]]
    /\ Goto(w, "deliver")
    /\ UNCHANGED <<remote, offset, work, shown, repeats>>

-----------------------------------------------------------------------------
\* One step of the poller's own code.
Run(w) ==
    \/ InitializeOffset(w)
    \/ ScanProcessing(w)
    \/ ClaimProcessing(w)
    \/ Handle(w)
    \/ Record(w)
    \/ ScanDelivery(w)
    \/ ClaimDelivery(w)
    \/ Send(w)
    \/ Settle(w)
    \/ EndDeliveries(w)
    \/ Poll(w)
    \/ Accept(w)

Operator ==
    \E u \in Updates :
        \/ RecoverProcessing(u)
        \/ RecoverDelivery(u)
        \/ \E w \in Workers : RetryUnknown(w, u)

Next ==
    \/ Arrive
    \/ \E w \in Workers : Run(w) \/ Crash(w)
    \/ Operator

Spec == Init /\ [][Next]_vars

\* run_forever goes on as long as its process lives: getUpdates and every
\* other call return, with an answer or with an error.
FairSpec == Spec /\ \A w \in Workers : WF_vars(Run(w))

-----------------------------------------------------------------------------
(* Properties.                                                             *)

TypeOK ==
    /\ arrived \in 0 .. LastUpdate
    /\ held \subseteq Updates
    /\ offset \in Nat
    /\ inbox \in [Updates -> Row]
    /\ pc \in [Workers -> Steps]
    /\ local \in [Workers -> Local]
    /\ work \in [Updates -> Nat]
    /\ shown \in [Updates -> Nat]
    /\ repeats \in [Updates -> Nat]
    /\ duplicates \in [Updates -> Nat]

\* A completed turn is not run again: through crashes, rival pollers and
\* redelivered updates, the gateway answers an update once, and once more for
\* each recovery that accepted a repetition.
WorkNotRepeated == \A u \in Updates : work[u] <= 1 + repeats[u]

\* The chat sees a reply once, and once more for each retry that accepted a
\* duplicate.
ReplyNotDuplicated == \A u \in Updates : shown[u] <= 1 + duplicates[u]

\* Telegram forgets an update only when it is in the inbox: the offset never
\* runs ahead of what was accepted.
NoUpdateLost ==
    \A u \in Updates :
        SetupOffset <= u /\ u <= arrived => u \in held \/ inbox[u] # NoRow

\* A reply counts as delivered only if the chat saw it, and only a completed
\* update has a reply to deliver.
DeliveredWasSeen ==
    \A u \in Updates :
        /\ inbox[u].delivery = "delivered" => shown[u] > 0
        /\ inbox[u].delivery # "none" => inbox[u].processing = "completed"

\* The retry limit bounds the attempts; each accepted duplicate adds one.
AttemptsBounded == \A u \in Updates : inbox[u].attempts <= RetryLimit + duplicates[u]

\* Delivered and discarded updates are left alone for good, and a saved reply
\* is never processed again.
SettledStays ==
    [][\A u \in Updates :
          /\ inbox[u].processing = "discarded" \/ inbox[u].delivery = "delivered"
                => inbox'[u] = inbox[u]
          /\ inbox[u].processing = "completed" => inbox'[u].processing = "completed"]_vars

\* What the tables say of an update is true of what the chat saw, the retry
\* limit holds, and what is settled stays, through crashes, rivals, redelivery
\* and every operator recovery (telegram_delivery.py).
TablesAreTrue ==
    [](TypeOK /\ DeliveredWasSeen /\ AttemptsBounded) /\ SettledStays

AllDown == \A w \in Workers : pc[w] = "down"

\* While a poller lives, an accepted update is taken up: a provider failure, a
\* rejected update or a dead rival never blocks the ones behind it.
AcceptedIsTakenUp ==
    \A u \in Updates :
        inbox[u].processing = "accepted" ~> inbox[u].processing # "accepted" \/ AllDown

\* While a poller lives, a saved reply is sent.
ReplyIsSent ==
    \A u \in Updates :
        inbox[u].delivery = "pending" ~> inbox[u].delivery # "pending" \/ AllDown

=============================================================================
