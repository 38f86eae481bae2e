----------------------- MODULE TelegramDeliveryProofs -----------------------
(***************************************************************************)
(* Theorems about TelegramDelivery, for any pollers, updates and limits.   *)
(*                                                                         *)
(* Three inductive invariants.  RowsTrue ties the delivery state and the   *)
(* attempts of a row to its processing state and to what the chat saw.     *)
(* ReceivedInOrder says that what lies below the offset, or below a batch  *)
(* about to be accepted, is in the inbox.  WorkTokens and ReplyTokens      *)
(* count: the turns that were run, the pollers that may still run one and  *)
(* the claim that is still open add up to no more than one and the         *)
(* repetitions that were accepted; and the same for the reply.             *)
(***************************************************************************)
EXTENDS TelegramDelivery, FiniteSets, FiniteSetTheorems, TLAPS

-----------------------------------------------------------------------------
(* The inductive invariant.                                                *)

HandleResults == {"reply", "rejected", "provider-failed", "error"}
SendResults == {"delivered", "failed", "unknown", "raised"}

\* A poller that works on an update has one, and a result before it records it.
PlaceKnown ==
    \A w \in Workers :
        /\ pc[w] \in {"handle", "record", "send", "settle"} => Current(w) \in Updates
        /\ pc[w] = "record" => local[w].result \in HandleResults
        /\ pc[w] = "settle" => local[w].result \in SendResults

TypeInv == TypeOK /\ PlaceKnown

\* A reply is there for completed updates only, its attempts are counted from
\* nothing, and a pending one has an attempt left.
RowTrue(row, times, extra) ==
    /\ row.delivery # "none" => row.processing = "completed"
    /\ row.processing # "completed" => row.attempts = 0
    /\ row.attempts <= RetryLimit + extra
    /\ row.delivery = "pending" => row.attempts < RetryLimit + extra
    /\ row.delivery = "delivered" => times > 0

RowsTrue == \A u \in Updates : RowTrue(inbox[u], shown[u], duplicates[u])

SentWasSeen ==
    \A w \in Workers :
        pc[w] = "settle" /\ local[w].result = "delivered" => shown[Current(w)] > 0

Wanted(u) == SetupOffset <= u
Known(u) == inbox[u] # NoRow

\* What Telegram may forget is known, and a batch has no gaps but known ones.
ReceivedInOrder ==
    /\ held \subseteq 1 .. arrived
    /\ \A u \in Updates : Wanted(u) /\ u <= arrived => u \in held \/ Known(u)
    /\ \A u \in Updates : Wanted(u) /\ u < offset => Known(u)
    /\ \A w \in Workers : pc[w] = "accept" =>
          /\ local[w].batch \subseteq 1 .. arrived
          /\ \A v \in local[w].batch, u \in Updates :
                Wanted(u) /\ u <= v => u \in local[w].batch \/ Known(u)

\* Who may still run a turn for an update, or give it back unrun.
Working(u) ==
    {w \in Workers :
        /\ Current(w) = u
        /\ \/ pc[w] = "handle"
           \/ pc[w] = "record" /\ local[w].result = "provider-failed" /\ OwnsProcessing(w, u)}

Unclaimed(u) ==
    IF inbox[u].processing \in {"absent", "accepted", "provider-failed"} THEN 1 ELSE 0

\* Who may still show a reply, or give it back unshown.
Sending(u) ==
    {w \in Workers :
        /\ Current(w) = u
        /\ \/ pc[w] = "send"
           \/ pc[w] = "settle" /\ local[w].result = "failed" /\ OwnsDelivery(w, u)}

Unsent(u) == IF inbox[u].delivery \in {"none", "pending", "failed"} THEN 1 ELSE 0

\* Tokens are spent, in somebody's hands, or open; there are never more than
\* one and the extra ones.
Within(spent, hands, open, extra) ==
    IsFiniteSet(hands) /\ spent + Cardinality(hands) + open <= 1 + extra

WorkTokens == \A u \in Updates : Within(work[u], Working(u), Unclaimed(u), repeats[u])
ReplyTokens == \A u \in Updates : Within(shown[u], Sending(u), Unsent(u), duplicates[u])

IInv == TypeInv /\ RowsTrue /\ SentWasSeen /\ ReceivedInOrder /\ WorkTokens /\ ReplyTokens

-----------------------------------------------------------------------------
(* Type correctness.                                                       *)

LEMMA TypeInit == Init => TypeInv
<1> SUFFICES ASSUME Init PROVE TypeInv
  OBVIOUS
<1>1. arrived \in 0 .. LastUpdate
  BY LimitAssumption DEF Init
<1>2. NoRow \in Row
  BY DEF NoRow, Row, ProcessingStates, DeliveryStates
<1>3. Fresh \in Local
  BY LimitAssumption DEF Fresh, Local, Results
<1>4. held \subseteq Updates
  BY <1>1, LimitAssumption DEF Init, Updates
<1> QED BY <1>1, <1>2, <1>3, <1>4 DEF Init, TypeInv, TypeOK, PlaceKnown, Steps

\* The other pollers stand still.
OthersAlone(w) == \A d \in Workers \ {w} : pc'[d] = pc[d] /\ local'[d] = local[d]

\* The types of a step of one poller: its place, its locals and the rows.
LEMMA PollerTyped ==
    ASSUME TypeInv, NEW w \in Workers, NEW label \in Steps, NEW l \in Local,
           pc' = [pc EXCEPT ![w] = label], local' = [local EXCEPT ![w] = l],
           inbox' \in [Updates -> Row], offset' \in Nat,
           arrived' \in 0 .. LastUpdate, held' \subseteq Updates,
           work' \in [Updates -> Nat], shown' \in [Updates -> Nat],
           repeats' \in [Updates -> Nat], duplicates' \in [Updates -> Nat],
           label \in {"handle", "record", "send", "settle"} => l.update \in Updates,
           label = "record" => l.result \in HandleResults,
           label = "settle" => l.result \in SendResults
    PROVE  TypeInv'
<1>1. /\ pc'[w] = label /\ local'[w] = l
      /\ \A d \in Workers \ {w} : pc'[d] = pc[d] /\ local'[d] = local[d]
      /\ pc' \in [Workers -> Steps] /\ local' \in [Workers -> Local]
  BY DEF TypeInv, TypeOK
<1> QED BY <1>1 DEF TypeInv, TypeOK, PlaceKnown, Current

-----------------------------------------------------------------------------
(* The moves.  Every action is one of these, as far as the invariants see. *)

RowBecomes(u, row) ==
    inbox'[u] = row /\ \A v \in Updates \ {u} : inbox'[v] = inbox[v]

counts == <<work, shown, repeats, duplicates>>

\* A step that leaves the poller without an update.
Aside(w) ==
    /\ OthersAlone(w)
    /\ pc'[w] \in {"start", "scan", "process", "deliver", "poll", "accept", "down"}
    /\ UNCHANGED <<inbox, counts>>

Takes(w, u) ==
    /\ Processable(inbox[u]) /\ pc[w] = "process"
    /\ RowBecomes(u, [inbox[u] EXCEPT !.processing = "processing", !.claimedBy = w])
    /\ OthersAlone(w) /\ pc'[w] = "handle" /\ local'[w].update = u
    /\ UNCHANGED counts

Handles(w) ==
    /\ pc[w] = "handle" /\ pc'[w] = "record" /\ OthersAlone(w)
    /\ local'[w].update = Current(w)
    /\ IF local'[w].result = "provider-failed" THEN UNCHANGED work
       ELSE work' = [work EXCEPT ![Current(w)] = @ + 1]
    /\ UNCHANGED <<inbox, shown, repeats, duplicates>>

Records(w) ==
    LET u == Current(w) IN
    /\ pc[w] = "record" /\ OwnsProcessing(w, u)
    /\ RowBecomes(u, [inbox[u] EXCEPT
                         !.processing = ProcessingAfter(local[w].result),
                         !.delivery = IF local[w].result = "reply" THEN "pending" ELSE "none",
                         !.claimedBy = None])
    /\ OthersAlone(w) /\ pc'[w] \in {"process", "down"}
    /\ UNCHANGED counts

Delivers(w, u) ==
    /\ pc[w] = "deliver" /\ inbox[u].processing = "completed" /\ Deliverable(inbox[u])
    /\ RowBecomes(u, [inbox[u] EXCEPT !.delivery = "delivering",
                                      !.attempts = @ + 1, !.claimedBy = w])
    /\ OthersAlone(w) /\ pc'[w] = "send" /\ local'[w].update = u
    /\ UNCHANGED counts

Sends(w) ==
    /\ pc[w] = "send" /\ pc'[w] = "settle" /\ OthersAlone(w)
    /\ local'[w].update = Current(w)
    /\ \/ UNCHANGED shown /\ local'[w].result # "delivered"
       \/ /\ shown' = [shown EXCEPT ![Current(w)] = @ + 1]
          /\ local'[w].result # "failed"
    /\ UNCHANGED <<inbox, work, repeats, duplicates>>

Settles(w) ==
    LET u == Current(w) IN
    /\ pc[w] = "settle" /\ OwnsDelivery(w, u)
    /\ RowBecomes(u, [inbox[u] EXCEPT !.delivery = DeliveryAfter(local[w].result),
                                      !.claimedBy = None])
    /\ OthersAlone(w) /\ pc'[w] \in {"deliver", "down"}
    /\ UNCHANGED counts

Accepts(w) ==
    /\ pc[w] = "accept" /\ pc'[w] = "process" /\ OthersAlone(w)
    /\ \A u \in Updates :
          inbox'[u] = IF u \in local[w].batch THEN AcceptRow(inbox[u]) ELSE inbox[u]
    /\ UNCHANGED counts

\* What an operator asks for touches no poller, but for a retry.
Retries(w, u) ==
    /\ inbox[u].processing = "completed" /\ inbox[u].delivery = "unknown"
    /\ RowBecomes(u, [inbox[u] EXCEPT !.delivery = "pending"])
    /\ duplicates' = [duplicates EXCEPT ![u] = @ + 1]
    /\ OthersAlone(w) /\ pc'[w] = "deliver"
    /\ UNCHANGED <<work, shown, repeats>>

\* Users write, and nobody else moves.
Waits == UNCHANGED <<inbox, pc, local, counts>>

Move ==
    \/ Waits
    \/ \E w \in Workers :
          \/ Aside(w) \/ Handles(w) \/ Records(w) \/ Sends(w) \/ Settles(w) \/ Accepts(w)
          \/ \E u \in Updates : Takes(w, u) \/ Delivers(w, u) \/ Retries(w, u)
    \/ \E u \in Updates : RecoverProcessing(u) \/ RecoverDelivery(u)

-----------------------------------------------------------------------------
(* Each action is typed, and is a move.                                    *)

\* Steps that only change what the poller is about to do.
LEMMA LocalMoves ==
    ASSUME TypeInv, NEW w \in Workers,
           \/ InitializeOffset(w) \/ ScanProcessing(w) \/ ScanDelivery(w)
           \/ EndDeliveries(w) \/ Poll(w) \/ Crash(w)
    PROVE  TypeInv' /\ Aside(w)
<1> USE DEF remote, history, counts, Goto, Die
<1>0. /\ local \in [Workers -> Local] /\ local[w] \in Local /\ Fresh \in Local
      /\ pc \in [Workers -> Steps]
      /\ inbox \in [Updates -> Row] /\ offset \in Nat
      /\ arrived \in 0 .. LastUpdate /\ held \subseteq Updates
      /\ work \in [Updates -> Nat] /\ shown \in [Updates -> Nat]
      /\ repeats \in [Updates -> Nat] /\ duplicates \in [Updates -> Nat]
  <2>1. Fresh \in Local
    BY LimitAssumption DEF Fresh, Local, Results
  <2> QED BY <2>1 DEF TypeInv, TypeOK
<1> DEFINE Quiet == {"start", "scan", "process", "deliver", "poll", "accept", "down"}
<1>1. ASSUME NEW label \in Quiet, NEW l \in Local,
             pc' = [pc EXCEPT ![w] = label], local' = [local EXCEPT ![w] = l],
             offset' \in Nat, held' \subseteq Updates, UNCHANGED <<arrived, inbox, counts>>
      PROVE  TypeInv' /\ Aside(w)
  <2>1. label \in Steps
    BY DEF Steps
  <2>2. TypeInv'
    BY <1>0, <1>1, <2>1, PollerTyped
  <2>3. Aside(w)
    BY <1>0, <1>1 DEF Aside, OthersAlone
  <2> QED BY <2>2, <2>3
<1>2. local' = local => local' = [local EXCEPT ![w] = local[w]]
  BY <1>0
<1>3. CASE InitializeOffset(w)
  <2>1. offset' \in Nat
    BY <1>0, <1>3, LimitAssumption DEF InitializeOffset
  <2> QED BY <1>0, <1>1, <1>2, <1>3, <2>1 DEF InitializeOffset
<1>4. CASE ScanProcessing(w)
  <2> DEFINE l == [Fresh EXCEPT !.todo = {u \in Updates : Processable(inbox[u])},
                                !.attempted = {u \in Updates : Processable(inbox[u])}]
  <2>1. l \in Local
    BY <1>0 DEF Local
  <2>2. local' = [local EXCEPT ![w] = l] /\ pc' = [pc EXCEPT ![w] = "process"]
        /\ UNCHANGED <<remote, offset, inbox, history>>
    BY <1>4 DEF ScanProcessing
  <2> HIDE DEF l
  <2> QED BY <1>0, <1>1, <2>1, <2>2
<1>5. CASE ScanDelivery(w)
  <2> DEFINE l == [local[w] EXCEPT !.todo = {u \in Updates : Deliverable(inbox[u])}]
  <2>1. l \in Local
    BY <1>0 DEF Local
  <2>2. local' = [local EXCEPT ![w] = l] /\ pc' = [pc EXCEPT ![w] = "deliver"]
        /\ UNCHANGED <<remote, offset, inbox, history>>
    BY <1>5 DEF ScanDelivery
  <2> HIDE DEF l
  <2> QED BY <1>0, <1>1, <2>1, <2>2
<1>6. CASE EndDeliveries(w)
  <2>1. CASE local[w].pass = 1
    BY <1>0, <1>1, <1>2, <1>6, <2>1 DEF EndDeliveries
  <2>2. CASE local[w].pass # 1
    BY <1>0, <1>1, <1>6, <2>2 DEF EndDeliveries
  <2> QED BY <2>1, <2>2
<1>7. CASE Poll(w)
  <2> DEFINE kept == {u \in held : u >= offset}
  <2>1. ASSUME NEW newest \in Updates \cup {0}, held' = kept,
               local' = [local EXCEPT ![w].batch = {u \in kept : u <= newest}],
               pc' = [pc EXCEPT ![w] = "accept"], UNCHANGED <<arrived, offset, inbox, history>>
        PROVE  TypeInv' /\ Aside(w)
    <3> DEFINE l == [local[w] EXCEPT !.batch = {u \in kept : u <= newest}]
    <3>1. l \in Local
      BY <1>0 DEF Local
    <3>2. local' = [local EXCEPT ![w] = l] /\ held' \subseteq Updates
      BY <1>0, <2>1
    <3> HIDE DEF l
    <3> QED BY <1>0, <1>1, <2>1, <3>1, <3>2
  <2>2. CASE /\ held' \in {held, kept} /\ pc' = [pc EXCEPT ![w] = "start"]
             /\ local' = [local EXCEPT ![w] = Fresh]
             /\ UNCHANGED <<arrived, offset, inbox, history>>
    <3>1. held' \subseteq Updates
      BY <1>0, <2>2
    <3> QED BY <1>0, <1>1, <2>2, <3>1
  <2> QED BY <1>7, <2>1, <2>2 DEF Poll
<1>8. CASE Crash(w)
  BY <1>0, <1>1, <1>8 DEF Crash
<1> QED BY <1>3, <1>4, <1>5, <1>6, <1>7, <1>8

\* The types a step starts from.
LEMMA Typed ==
    ASSUME TypeInv
    PROVE  /\ local \in [Workers -> Local] /\ pc \in [Workers -> Steps]
           /\ inbox \in [Updates -> Row] /\ offset \in Nat
           /\ arrived \in 0 .. LastUpdate /\ held \subseteq Updates
           /\ work \in [Updates -> Nat] /\ shown \in [Updates -> Nat]
           /\ repeats \in [Updates -> Nat] /\ duplicates \in [Updates -> Nat]
           /\ Updates \subseteq Nat \ {0} /\ None \notin Workers
BY SMTT(30), LimitAssumption, WorkerAssumption DEF TypeInv, TypeOK, Updates

\* A poller that starts on a new list.
LEMMA FreshTyped ==
    ASSUME NEW pass \in 0 .. 2, NEW todo \in SUBSET Updates
    PROVE  [Fresh EXCEPT !.pass = pass, !.todo = todo] \in Local
<1>1. Fresh \in Local
  BY LimitAssumption DEF Fresh, Local, Results
<1> DEFINE half == [Fresh EXCEPT !.pass = pass]
<1>2. half \in Local
  BY <1>1 DEF Local
<1> HIDE DEF half
<1>3. [half EXCEPT !.todo = todo] \in Local
  BY <1>2 DEF Local
<1> QED BY <1>3 DEF half

\* A poller that drops an update goes on with the rest of its list.
LEMMA DropTyped ==
    ASSUME TypeInv, NEW w \in Workers, NEW u
    PROVE  [local[w] EXCEPT !.todo = @ \ {u}, !.update = 0, !.result = "none"] \in Local
<1>1. local[w] \in Local
  BY Typed
<1>2. local[w].todo \ {u} \in SUBSET Updates
  BY <1>1 DEF Local
<1>3. 0 \in 0 .. LastUpdate /\ "none" \in Results
  BY LimitAssumption DEF Results
<1> DEFINE left == local[w].todo \ {u}
<1>4. [local[w] EXCEPT !.todo = left, !.update = 0, !.result = "none"] \in Local
  <2> HIDE DEF left
  <2>1. left \in SUBSET Updates
    BY <1>2 DEF left
  <2> QED BY <1>1, <1>3, <2>1 DEF Local
<1> QED BY <1>4

LEMMA ClaimProcessingMoves ==
    ASSUME TypeInv, NEW w \in Workers, ClaimProcessing(w)
    PROVE  TypeInv' /\ (Aside(w) \/ \E u \in Updates : Takes(w, u))
<1> USE DEF remote, history, counts, Goto
<1>0. PICK u \in Oldest(local[w].todo) :
        \/ /\ Processable(inbox[u])
           /\ inbox' = [inbox EXCEPT ![u].processing = "processing", ![u].claimedBy = w]
           /\ local' = [local EXCEPT ![w].update = u]
           /\ Goto(w, "handle")
        \/ ~Processable(inbox[u]) /\ Drop(w, u) /\ UNCHANGED <<inbox, pc>>
  BY DEF ClaimProcessing
<1>1. u \in Updates /\ inbox[u] \in Row /\ local[w] \in Local
  BY <1>0, Typed DEF Oldest, Local
<1>2. CASE Processable(inbox[u])
  <2> DEFINE row == [inbox[u] EXCEPT !.processing = "processing", !.claimedBy = w]
             l == [local[w] EXCEPT !.update = u]
  <2>1. /\ inbox' = [inbox EXCEPT ![u] = row] /\ local' = [local EXCEPT ![w] = l]
        /\ pc' = [pc EXCEPT ![w] = "handle"] /\ UNCHANGED <<remote, offset, history>>
    BY <1>0, <1>2 DEF ClaimProcessing
  <2>2. row \in Row /\ l \in Local /\ l.update = u
    <3>1. row \in Row
      BY <1>1 DEF Row, ProcessingStates
    <3>2. u \in 0 .. LastUpdate
      BY <1>1, LimitAssumption DEF Updates
    <3>3. l \in Local
      BY <1>1, <3>2 DEF Local
    <3>4. l.update = u
      BY <1>1 DEF Local
    <3> QED BY <3>1, <3>3, <3>4
  <2> HIDE DEF row, l
  <2>3. RowBecomes(u, row) /\ inbox' \in [Updates -> Row]
    BY <1>1, <2>1, <2>2, Typed DEF RowBecomes
  <2>4. TypeInv'
    BY <1>1, <2>1, <2>2, <2>3, Typed, PollerTyped DEF Steps
  <2>5. OthersAlone(w) /\ pc'[w] = "handle" /\ local'[w] = l
    BY <2>1, Typed DEF OthersAlone
  <2>6. Takes(w, u)
    BY <1>2, <2>1, <2>2, <2>3, <2>5 DEF Takes, row, ClaimProcessing
  <2> QED BY <1>1, <2>4, <2>6
<1>3. CASE ~Processable(inbox[u])
  <2> DEFINE l == [local[w] EXCEPT !.todo = @ \ {u}, !.update = 0, !.result = "none"]
  <2>1. /\ local' = [local EXCEPT ![w] = l] /\ pc' = pc /\ pc[w] = "process"
        /\ UNCHANGED <<remote, offset, inbox, history>>
    BY ZenonT(30), <1>0, <1>3, <1>1 DEF ClaimProcessing, Drop
  <2>2. l \in Local
    BY DropTyped
  <2> HIDE DEF l
  <2>3. pc' = [pc EXCEPT ![w] = "process"]
    BY <2>1, Typed
  <2>4. TypeInv'
    BY <2>1, <2>2, <2>3, Typed, PollerTyped DEF Steps
  <2>5. Aside(w)
    BY <2>1, <2>3, Typed DEF Aside, OthersAlone
  <2> QED BY <2>4, <2>5
<1> QED BY <1>2, <1>3

LEMMA HandleMoves ==
    ASSUME TypeInv, NEW w \in Workers, Handle(w)
    PROVE  TypeInv' /\ Handles(w)
<1> USE DEF remote, history, counts, Goto
<1>0. PICK result \in HandleResults :
        /\ local' = [local EXCEPT ![w].result = result]
        /\ work' = [work EXCEPT ![Current(w)] =
                       IF result = "provider-failed" THEN @ ELSE @ + 1]
  BY DEF Handle, HandleResults
<1>1. /\ local[w] \in Local /\ Current(w) \in Updates /\ pc[w] = "handle"
      /\ pc' = [pc EXCEPT ![w] = "record"]
      /\ UNCHANGED <<remote, offset, inbox, shown, repeats, duplicates>>
  BY Typed DEF Handle, TypeInv, PlaceKnown
<1> DEFINE l == [local[w] EXCEPT !.result = result]
<1>2. l \in Local /\ l.update = Current(w) /\ l.result = result
  BY <1>1 DEF Local, Results, HandleResults, Current
<1>3. local' = [local EXCEPT ![w] = l]
  BY <1>0
<1> HIDE DEF l
<1>4. work' \in [Updates -> Nat]
  BY <1>0, <1>1, Typed
<1>5. TypeInv'
  <2>1. "record" \in Steps /\ l.update \in Updates /\ l.result \in HandleResults
    BY <1>1, <1>2 DEF Steps
  <2>2. /\ inbox' \in [Updates -> Row] /\ offset' \in Nat
        /\ arrived' \in 0 .. LastUpdate /\ held' \subseteq Updates
        /\ shown' \in [Updates -> Nat]
        /\ repeats' \in [Updates -> Nat] /\ duplicates' \in [Updates -> Nat]
    BY <1>1, Typed
  <2> QED BY <1>1, <1>2, <1>3, <1>4, <2>1, <2>2, PollerTyped
<1>6. OthersAlone(w) /\ pc'[w] = "record" /\ local'[w] = l
  BY <1>1, <1>3, Typed DEF OthersAlone
<1>7. IF result = "provider-failed" THEN work' = work
      ELSE work' = [work EXCEPT ![Current(w)] = @ + 1]
  BY <1>0, <1>1, Typed
<1>8. Handles(w)
  BY <1>1, <1>2, <1>6, <1>7 DEF Handles
<1> QED BY <1>5, <1>8

\* A poller that lost its claim, or that met an error, dies.
LEMMA DieTyped ==
    ASSUME TypeInv, NEW w \in Workers, Die(w), UNCHANGED <<remote, offset, history>>,
           inbox' \in [Updates -> Row]
    PROVE  TypeInv' /\ OthersAlone(w) /\ pc'[w] = "down"
<1>1. Fresh \in Local
  BY LimitAssumption DEF Fresh, Local, Results
<1>2. pc' = [pc EXCEPT ![w] = "down"] /\ local' = [local EXCEPT ![w] = Fresh]
  BY DEF Die, Goto
<1>3. TypeInv'
  BY <1>1, <1>2, Typed, PollerTyped DEF Steps, remote, history
<1> QED BY <1>2, <1>3, Typed DEF OthersAlone

\* A poller that is done with an update goes on.
LEMMA DropMoves ==
    ASSUME TypeInv, NEW w \in Workers, NEW u, Drop(w, u),
           NEW label \in {"process", "deliver"}, Goto(w, label),
           UNCHANGED <<remote, offset, history>>, inbox' \in [Updates -> Row]
    PROVE  TypeInv' /\ OthersAlone(w) /\ pc'[w] = label
<1> DEFINE l == [local[w] EXCEPT !.todo = @ \ {u}, !.update = 0, !.result = "none"]
<1>1. l \in Local
  BY DropTyped
<1>2. local' = [local EXCEPT ![w] = l] /\ pc' = [pc EXCEPT ![w] = label]
  BY DEF Drop, Goto
<1> HIDE DEF l
<1>3. TypeInv'
  BY <1>1, <1>2, Typed, PollerTyped DEF Steps, remote, history
<1> QED BY <1>2, <1>3, Typed DEF OthersAlone

LEMMA RecordMoves ==
    ASSUME TypeInv, NEW w \in Workers, Record(w)
    PROVE  TypeInv' /\ (Aside(w) \/ Records(w))
<1> USE DEF remote, history, counts
<1> DEFINE u == Current(w)
           row == [inbox[u] EXCEPT
                      !.processing = ProcessingAfter(local[w].result),
                      !.delivery = IF local[w].result = "reply" THEN "pending" ELSE "none",
                      !.claimedBy = None]
<1>1. u \in Updates /\ inbox[u] \in Row /\ pc[w] = "record"
      /\ local[w].result \in HandleResults /\ UNCHANGED <<remote, offset, history>>
  BY Typed DEF Record, TypeInv, PlaceKnown
<1>2. CASE OwnsProcessing(w, u)
  <2>1. inbox' = [inbox EXCEPT ![u] = row]
        /\ (Die(w) \/ (Goto(w, "process") /\ Drop(w, u)))
    <3>1. /\ inbox' = [inbox EXCEPT
                ![u].processing = ProcessingAfter(local[w].result),
                ![u].delivery = IF local[w].result = "reply" THEN "pending" ELSE "none",
                ![u].claimedBy = None]
          /\ (Die(w) \/ (Goto(w, "process") /\ Drop(w, u)))
      BY <1>2, Zenon DEF Record
    <3> QED BY <1>1, <3>1, Typed
  <2>2. row \in Row
    BY <1>1 DEF Row, ProcessingAfter, HandleResults, ProcessingStates, DeliveryStates
  <2>3. RowBecomes(u, row) /\ inbox' \in [Updates -> Row]
    <3> HIDE DEF row
    <3> QED BY <1>1, <2>1, <2>2, Typed DEF RowBecomes
  <2>4. TypeInv' /\ OthersAlone(w) /\ pc'[w] \in {"process", "down"}
    BY <1>1, <2>1, <2>3, DieTyped, DropMoves
  <2>5. Records(w)
    BY <1>1, <1>2, <2>3, <2>4 DEF Records
  <2> QED BY <2>4, <2>5
<1>3. CASE ~OwnsProcessing(w, u)
  <2>1. Die(w) /\ inbox' = inbox
    BY <1>3 DEF Record
  <2>2. TypeInv' /\ OthersAlone(w) /\ pc'[w] = "down"
    BY <1>1, <2>1, DieTyped, Typed
  <2> QED BY <1>1, <2>1, <2>2 DEF Aside
<1> QED BY <1>2, <1>3

LEMMA ClaimDeliveryMoves ==
    ASSUME TypeInv, NEW w \in Workers, ClaimDelivery(w)
    PROVE  TypeInv' /\ (Aside(w) \/ \E u \in Updates : Delivers(w, u))
<1> USE DEF remote, history, counts
<1> DEFINE Open(u) == inbox[u].processing = "completed" /\ Deliverable(inbox[u])
<1>0. PICK u \in Oldest(local[w].todo) :
        \/ /\ Open(u)
           /\ inbox' = [inbox EXCEPT ![u].delivery = "delivering",
                                     ![u].attempts = @ + 1, ![u].claimedBy = w]
           /\ local' = [local EXCEPT ![w].update = u]
           /\ Goto(w, "send")
        \/ ~Open(u) /\ Drop(w, u) /\ UNCHANGED <<inbox, pc>>
  BY DEF ClaimDelivery
<1>1. /\ u \in Updates /\ inbox[u] \in Row /\ local[w] \in Local /\ pc[w] = "deliver"
      /\ UNCHANGED <<remote, offset, history>>
  BY <1>0, Typed DEF Oldest, Local, ClaimDelivery
<1>2. CASE Open(u)
  <2> DEFINE row == [inbox[u] EXCEPT !.delivery = "delivering",
                                     !.attempts = @ + 1, !.claimedBy = w]
             l == [local[w] EXCEPT !.update = u]
  <2>1. /\ inbox' = [inbox EXCEPT ![u] = row] /\ local' = [local EXCEPT ![w] = l]
        /\ pc' = [pc EXCEPT ![w] = "send"]
    BY <1>0, <1>1, <1>2, Typed DEF Goto
  <2>2. row \in Row /\ l \in Local /\ l.update = u
    <3>1. inbox[u].attempts + 1 \in Nat
      BY <1>1 DEF Row
    <3>2. row \in Row
      BY <1>1, <3>1 DEF Row, DeliveryStates
    <3>3. u \in 0 .. LastUpdate
      BY <1>1, LimitAssumption DEF Updates
    <3>4. l \in Local
      BY <1>1, <3>3 DEF Local
    <3>5. l.update = u
      BY <1>1 DEF Local
    <3> QED BY <3>2, <3>4, <3>5
  <2> HIDE DEF l
  <2>3. RowBecomes(u, row) /\ inbox' \in [Updates -> Row]
    <3> HIDE DEF row
    <3> QED BY <1>1, <2>1, <2>2, Typed DEF RowBecomes
  <2>4. TypeInv'
    BY <1>1, <2>1, <2>2, <2>3, Typed, PollerTyped DEF Steps
  <2>5. OthersAlone(w) /\ pc'[w] = "send" /\ local'[w] = l
    BY <2>1, Typed DEF OthersAlone
  <2>6. Delivers(w, u)
    BY <1>1, <1>2, <2>2, <2>3, <2>5 DEF Delivers
  <2> QED BY <1>1, <2>4, <2>6
<1>3. CASE ~Open(u)
  <2>1. Drop(w, u) /\ pc' = pc /\ inbox' = inbox /\ Goto(w, "deliver")
    BY <1>0, <1>1, <1>3, Typed DEF Goto
  <2>2. TypeInv' /\ OthersAlone(w) /\ pc'[w] = "deliver"
    BY <1>1, <2>1, Typed, DropMoves
  <2>3. Aside(w)
    BY <1>1, <2>1, <2>2 DEF Aside
  <2> QED BY <2>2, <2>3
<1> QED BY <1>2, <1>3

LEMMA SendMoves ==
    ASSUME TypeInv, NEW w \in Workers, Send(w)
    PROVE  TypeInv' /\ Sends(w)
<1> USE DEF remote, history, counts
<1>0. PICK result \in SendResults, seen \in BOOLEAN :
        /\ result = "delivered" => seen
        /\ result = "failed" => ~seen
        /\ local' = [local EXCEPT ![w].result = result]
        /\ shown' = [shown EXCEPT ![Current(w)] = IF seen THEN @ + 1 ELSE @]
  BY Zenon DEF Send, SendResults
<1>1. /\ local[w] \in Local /\ Current(w) \in Updates /\ pc[w] = "send"
      /\ pc' = [pc EXCEPT ![w] = "settle"]
      /\ UNCHANGED <<remote, offset, inbox, work, repeats, duplicates>>
  BY Typed DEF Send, TypeInv, PlaceKnown, Goto
<1> DEFINE l == [local[w] EXCEPT !.result = result]
<1>2. l \in Local /\ l.update = Current(w) /\ l.result = result
  BY <1>1 DEF Local, Results, SendResults, Current
<1>3. local' = [local EXCEPT ![w] = l]
  BY <1>0
<1> HIDE DEF l
<1>4. shown' \in [Updates -> Nat]
  <2> DEFINE times == IF seen THEN shown[Current(w)] + 1 ELSE shown[Current(w)]
  <2>1. times \in Nat
    BY <1>1, Typed
  <2>2. shown' = [shown EXCEPT ![Current(w)] = times]
    BY <1>0
  <2> HIDE DEF times
  <2> QED BY <1>1, <2>1, <2>2, Typed
<1>5. TypeInv'
  <2>1. "settle" \in Steps /\ l.update \in Updates /\ l.result \in SendResults
    BY <1>1, <1>2 DEF Steps
  <2>2. /\ inbox' \in [Updates -> Row] /\ offset' \in Nat
        /\ arrived' \in 0 .. LastUpdate /\ held' \subseteq Updates
        /\ work' \in [Updates -> Nat]
        /\ repeats' \in [Updates -> Nat] /\ duplicates' \in [Updates -> Nat]
    BY <1>1, Typed
  <2> QED BY <1>1, <1>2, <1>3, <1>4, <2>1, <2>2, PollerTyped
<1>6. OthersAlone(w) /\ pc'[w] = "settle" /\ local'[w] = l
  BY <1>1, <1>3, Typed DEF OthersAlone
<1>7. \/ UNCHANGED shown /\ result # "delivered"
      \/ shown' = [shown EXCEPT ![Current(w)] = @ + 1] /\ result # "failed"
  <2>1. CASE seen
    BY <1>0, <1>1, <2>1
  <2>2. CASE ~seen
    <3>1. shown' = shown
      BY <1>0, <1>1, <2>2, Typed
    <3> QED BY <1>0, <2>2, <3>1
  <2> QED BY <2>1, <2>2
<1>8. Sends(w)
  BY <1>1, <1>2, <1>6, <1>7 DEF Sends
<1> QED BY <1>5, <1>8

LEMMA SettleMoves ==
    ASSUME TypeInv, NEW w \in Workers, Settle(w)
    PROVE  TypeInv' /\ (Settles(w) \/ (Aside(w) /\ pc'[w] = "down"))
<1> USE DEF remote, history, counts
<1> DEFINE u == Current(w)
           row == [inbox[u] EXCEPT !.delivery = DeliveryAfter(local[w].result),
                                   !.claimedBy = None]
           tried == [local[w] EXCEPT !.update = 0, !.result = "none"]
<1>1. u \in Updates /\ inbox[u] \in Row /\ pc[w] = "settle" /\ local[w] \in Local
      /\ local[w].result \in SendResults /\ UNCHANGED <<remote, offset, history>>
  BY Typed DEF Settle, TypeInv, PlaceKnown
<1>2. CASE OwnsDelivery(w, u)
  <2>1. inbox' = [inbox EXCEPT ![u] = row]
        /\ \/ Die(w)
           \/ Goto(w, "deliver") /\ Drop(w, u)
           \/ Goto(w, "deliver") /\ local' = [local EXCEPT ![w] = tried]
    <3>1. /\ inbox' = [inbox EXCEPT ![u].delivery = DeliveryAfter(local[w].result),
                                    ![u].claimedBy = None]
          /\ CASE local[w].result = "raised" -> Die(w)
               [] local[w].result = "failed" ->
                     /\ Goto(w, "deliver")
                     /\ local' = [local EXCEPT ![w].update = 0, ![w].result = "none"]
               [] OTHER -> Goto(w, "deliver") /\ Drop(w, u)
      BY <1>2, Zenon DEF Settle
    <3>2. inbox' = [inbox EXCEPT ![u] = row]
      BY <1>1, <3>1, Typed
    <3>3. CASE local[w].result = "failed"
      BY <1>1, <3>1, <3>2, <3>3, Typed
    <3>4. CASE local[w].result # "failed"
      BY <3>1, <3>2, <3>4
    <3> QED BY <3>3, <3>4
  <2>2. row \in Row
    BY <1>1 DEF Row, DeliveryAfter, SendResults, DeliveryStates
  <2>3. RowBecomes(u, row) /\ inbox' \in [Updates -> Row]
    <3> HIDE DEF row
    <3> QED BY <1>1, <2>1, <2>2, Typed DEF RowBecomes
  <2>4. CASE Die(w) \/ (Goto(w, "deliver") /\ Drop(w, u))
    <3>1. TypeInv' /\ OthersAlone(w) /\ pc'[w] \in {"deliver", "down"}
      BY <1>1, <2>3, <2>4, DieTyped, DropMoves
    <3> QED BY <1>1, <1>2, <2>3, <3>1 DEF Settles
  <2>5. CASE Goto(w, "deliver") /\ local' = [local EXCEPT ![w] = tried]
    <3>1. tried \in Local
      <4> DEFINE half == [local[w] EXCEPT !.update = 0]
      <4>1. half \in Local
        BY <1>1, LimitAssumption DEF Local
      <4> HIDE DEF half
      <4>2. [half EXCEPT !.result = "none"] \in Local
        BY <4>1 DEF Local, Results
      <4> QED BY <4>2 DEF half
    <3>2. pc' = [pc EXCEPT ![w] = "deliver"]
      BY <2>5 DEF Goto
    <3> HIDE DEF tried
    <3>3. TypeInv'
      BY <1>1, <2>3, <2>5, <3>1, <3>2, Typed, PollerTyped DEF Steps
    <3>4. OthersAlone(w) /\ pc'[w] = "deliver"
      BY <2>5, <3>2, Typed DEF OthersAlone
    <3> QED BY <1>1, <1>2, <2>3, <3>3, <3>4 DEF Settles
  <2> QED BY <2>1, <2>4, <2>5
<1>3. CASE ~OwnsDelivery(w, u)
  <2>1. Die(w) /\ inbox' = inbox
    BY <1>3 DEF Settle
  <2>2. TypeInv' /\ OthersAlone(w) /\ pc'[w] = "down"
    BY <1>1, <2>1, DieTyped, Typed
  <2> QED BY <1>1, <2>1, <2>2 DEF Aside
<1> QED BY <1>2, <1>3

LEMMA AcceptMoves ==
    ASSUME TypeInv, NEW w \in Workers, Accept(w)
    PROVE  TypeInv' /\ Accepts(w)
<1> USE DEF remote, history, counts
<1> DEFINE l == [Fresh EXCEPT !.pass = 2, !.todo = local[w].batch \ local[w].attempted]
<1>1. /\ pc[w] = "accept" /\ local[w] \in Local
      /\ inbox' = [u \in Updates |->
                      IF u \in local[w].batch THEN AcceptRow(inbox[u]) ELSE inbox[u]]
      /\ local' = [local EXCEPT ![w] = l] /\ pc' = [pc EXCEPT ![w] = "process"]
      /\ UNCHANGED <<remote, history>>
  BY Typed DEF Accept, Goto
<1>2. l \in Local
  <2>1. local[w].batch \ local[w].attempted \in SUBSET Updates
    BY <1>1 DEF Local
  <2>2. 2 \in 0 .. 2
    OBVIOUS
  <2> QED BY <2>1, <2>2, FreshTyped, Zenon
<1> HIDE DEF l
<1>3. \A u \in Updates : AcceptRow(inbox[u]) \in Row
  BY Typed DEF AcceptRow, NoRow, Row, ProcessingStates, DeliveryStates
<1>4. inbox' \in [Updates -> Row]
  BY <1>1, <1>3, Typed
<1>5. offset' \in Nat
  <2>1. \A newest \in Newest(local[w].batch) : newest \in Nat
    BY <1>1, Typed DEF Newest, Local
  <2>2. \A newest \in Newest(local[w].batch) : NextOffset(newest) \in Nat
    BY <2>1, Typed DEF NextOffset
  <2> QED BY <2>2, Typed DEF Accept
<1>6. TypeInv'
  BY <1>1, <1>2, <1>4, <1>5, Typed, PollerTyped DEF Steps
<1>7. OthersAlone(w) /\ pc'[w] = "process"
  BY <1>1, Typed DEF OthersAlone
<1> QED BY <1>1, <1>6, <1>7 DEF Accepts

LEMMA RetryMoves ==
    ASSUME TypeInv, NEW w \in Workers, NEW u \in Updates, RetryUnknown(w, u)
    PROVE  TypeInv' /\ Retries(w, u)
<1> DEFINE l == [Fresh EXCEPT !.pass = 0, !.todo = {u}]
           row == [inbox[u] EXCEPT !.delivery = "pending"]
<1>1. /\ inbox[u].processing = "completed" /\ inbox[u].delivery = "unknown"
      /\ inbox' = [inbox EXCEPT ![u] = row]
      /\ duplicates' = [duplicates EXCEPT ![u] = @ + 1]
      /\ local' = [local EXCEPT ![w] = l] /\ pc' = [pc EXCEPT ![w] = "deliver"]
      /\ UNCHANGED <<remote, offset, work, shown, repeats>>
  BY DEF RetryUnknown, Goto
<1>2. l \in Local
  <2>1. 0 \in 0 .. 2 /\ {u} \in SUBSET Updates
    OBVIOUS
  <2> QED BY <2>1, FreshTyped, Zenon
<1>3. row \in Row
  BY Typed DEF Row, DeliveryStates
<1> HIDE DEF l
<1>4. RowBecomes(u, row) /\ inbox' \in [Updates -> Row]
  <2> HIDE DEF row
  <2> QED BY <1>1, <1>3, Typed DEF RowBecomes
<1>5. duplicates' \in [Updates -> Nat]
  BY <1>1, Typed
<1>6. TypeInv'
  BY <1>1, <1>2, <1>4, <1>5, Typed, PollerTyped DEF Steps, remote
<1>7. OthersAlone(w) /\ pc'[w] = "deliver"
  BY <1>1, Typed DEF OthersAlone
<1> QED BY <1>1, <1>4, <1>6, <1>7 DEF Retries

\* What an operator recovers, and what users send, leaves every poller alone.
LEMMA OutsideTyped ==
    ASSUME TypeInv,
           \/ Arrive
           \/ \E u \in Updates : RecoverProcessing(u) \/ RecoverDelivery(u)
    PROVE  TypeInv'
<1> USE DEF remote, history
<1>1. CASE Arrive
  <2>1. arrived' \in 0 .. LastUpdate /\ held' \subseteq Updates
    BY SMTT(30), <1>1, Typed, LimitAssumption DEF Arrive, Updates
  <2> QED BY <1>1, <2>1 DEF Arrive, TypeInv, TypeOK, PlaceKnown, Current
<1>2. ASSUME NEW u \in Updates, RecoverProcessing(u) PROVE TypeInv'
  <2> DEFINE row == [inbox[u] EXCEPT !.processing = "provider-failed", !.claimedBy = None]
  <2>1. row \in Row
    BY ZenonT(30), Typed DEF Row, ProcessingStates
  <2>2. inbox' = [inbox EXCEPT ![u] = row]
    BY <1>2, Typed DEF RecoverProcessing
  <2> HIDE DEF row
  <2>3. inbox' \in [Updates -> Row] /\ repeats' \in [Updates -> Nat]
    BY <1>2, <2>1, <2>2, Typed DEF RecoverProcessing
  <2> QED BY <1>2, <2>3 DEF RecoverProcessing, TypeInv, TypeOK, PlaceKnown, Current
<1>3. ASSUME NEW u \in Updates, RecoverDelivery(u) PROVE TypeInv'
  <2> DEFINE row == [inbox[u] EXCEPT !.delivery = "unknown", !.claimedBy = None]
  <2>1. row \in Row
    BY ZenonT(30), Typed DEF Row, DeliveryStates
  <2>2. inbox' = [inbox EXCEPT ![u] = row]
    BY <1>3, Typed DEF RecoverDelivery
  <2> HIDE DEF row
  <2>3. inbox' \in [Updates -> Row]
    BY <2>1, <2>2, Typed
  <2> QED BY <1>3, <2>3 DEF RecoverDelivery, TypeInv, TypeOK, PlaceKnown, Current
<1> QED BY <1>1, <1>2, <1>3

LEMMA NextMoves ==
    ASSUME TypeInv, [Next]_vars
    PROVE  TypeInv' /\ Move
<1>1. CASE Arrive
  <2>1. Waits
    BY <1>1 DEF Arrive, Waits, counts, history
  <2> QED BY <1>1, <2>1, OutsideTyped DEF Move
<1>2. ASSUME NEW w \in Workers, Run(w) \/ Crash(w) PROVE TypeInv' /\ Move
  <2>1. CASE \/ InitializeOffset(w) \/ ScanProcessing(w) \/ ScanDelivery(w)
             \/ EndDeliveries(w) \/ Poll(w) \/ Crash(w)
    BY <2>1, LocalMoves, Zenon DEF Move
  <2>2. CASE ClaimProcessing(w)
    BY <2>2, ClaimProcessingMoves, Zenon DEF Move
  <2>3. CASE Handle(w)
    BY <2>3, HandleMoves, Zenon DEF Move
  <2>4. CASE Record(w)
    BY <2>4, RecordMoves, Zenon DEF Move
  <2>5. CASE ClaimDelivery(w)
    BY <2>5, ClaimDeliveryMoves, Zenon DEF Move
  <2>6. CASE Send(w)
    BY <2>6, SendMoves, Zenon DEF Move
  <2>7. CASE Settle(w)
    BY <2>7, SettleMoves, Zenon DEF Move
  <2>8. CASE Accept(w)
    BY <2>8, AcceptMoves, Zenon DEF Move
  <2> QED BY <1>2, <2>1, <2>2, <2>3, <2>4, <2>5, <2>6, <2>7, <2>8, Zenon DEF Run
<1>3. ASSUME NEW u \in Updates,
             RecoverProcessing(u) \/ RecoverDelivery(u) \/ \E w \in Workers : RetryUnknown(w, u)
      PROVE  TypeInv' /\ Move
  <2>1. CASE RecoverProcessing(u) \/ RecoverDelivery(u)
    BY <2>1, OutsideTyped, Zenon DEF Move
  <2>2. ASSUME NEW w \in Workers, RetryUnknown(w, u) PROVE TypeInv' /\ Move
    BY <2>2, RetryMoves, Zenon DEF Move
  <2> QED BY <1>3, <2>1, <2>2
<1>4. CASE UNCHANGED vars
  <2>1. Waits
    BY <1>4 DEF vars, Waits, counts
  <2>2. TypeInv'
    BY <1>4 DEF vars, TypeInv, TypeOK, PlaceKnown, Current
  <2> QED BY <2>1, <2>2 DEF Move
<1> QED BY <1>1, <1>2, <1>3, <1>4 DEF Next, Operator

-----------------------------------------------------------------------------
(* Rows.                                                                   *)

LEMMA CountsGrow ==
    ASSUME TypeInv, Move, NEW u \in Updates
    PROVE  shown'[u] >= shown[u] /\ duplicates'[u] >= duplicates[u]
<1> USE Typed DEF counts
<1>1. CASE Waits
  BY <1>1 DEF Waits
<1>2. ASSUME NEW w \in Workers,
             \/ Aside(w) \/ Handles(w) \/ Records(w) \/ Sends(w) \/ Settles(w) \/ Accepts(w)
             \/ \E v \in Updates : Takes(w, v) \/ Delivers(w, v) \/ Retries(w, v)
      PROVE  shown'[u] >= shown[u] /\ duplicates'[u] >= duplicates[u]
  <2>1. CASE Aside(w) \/ Handles(w) \/ Records(w) \/ Settles(w) \/ Accepts(w)
    BY <2>1 DEF Aside, Handles, Records, Settles, Accepts
  <2>2. CASE Sends(w)
    BY <2>2 DEF Sends
  <2>3. ASSUME NEW v \in Updates, Takes(w, v) \/ Delivers(w, v) \/ Retries(w, v)
        PROVE  shown'[u] >= shown[u] /\ duplicates'[u] >= duplicates[u]
    BY <2>3 DEF Takes, Delivers, Retries
  <2> QED BY <1>2, <2>1, <2>2, <2>3
<1>3. ASSUME NEW v \in Updates, RecoverProcessing(v) \/ RecoverDelivery(v)
      PROVE  shown'[u] >= shown[u] /\ duplicates'[u] >= duplicates[u]
  BY <1>3 DEF RecoverProcessing, RecoverDelivery, history
<1> QED BY <1>1, <1>2, <1>3 DEF Move

LEMMA RowsTrueNext ==
    ASSUME TypeInv, TypeInv', RowsTrue, SentWasSeen, Move
    PROVE  RowsTrue'
<1> SUFFICES ASSUME NEW v \in Updates
             PROVE  RowTrue(inbox'[v], shown'[v], duplicates'[v])
  BY DEF RowsTrue
<1>1. /\ RowTrue(inbox[v], shown[v], duplicates[v])
      /\ shown'[v] >= shown[v] /\ duplicates'[v] >= duplicates[v]
      /\ shown[v] \in Nat /\ duplicates[v] \in Nat /\ inbox[v] \in Row
      /\ shown'[v] \in Nat /\ duplicates'[v] \in Nat /\ RetryLimit \in Nat \ {0}
  BY Typed, CountsGrow, LimitAssumption DEF RowsTrue, TypeInv, TypeOK
<1>2. inbox[v].attempts \in Nat
  BY <1>1 DEF Row
<1>3. ASSUME inbox'[v] = inbox[v] PROVE RowTrue(inbox'[v], shown'[v], duplicates'[v])
  BY <1>1, <1>2, <1>3 DEF RowTrue
<1>4. CASE Waits
  BY <1>3, <1>4 DEF Waits
<1>5. ASSUME NEW w \in Workers,
             \/ Aside(w) \/ Handles(w) \/ Records(w) \/ Sends(w) \/ Settles(w) \/ Accepts(w)
             \/ \E u \in Updates : Takes(w, u) \/ Delivers(w, u) \/ Retries(w, u)
      PROVE  RowTrue(inbox'[v], shown'[v], duplicates'[v])
  <2>1. CASE Aside(w) \/ Handles(w) \/ Sends(w)
    BY <1>3, <2>1 DEF Aside, Handles, Sends
  <2>2. CASE Records(w)
    <3>1. CASE v # Current(w)
      BY <1>3, <2>2, <3>1 DEF Records, RowBecomes
    <3>2. CASE v = Current(w)
      <4>1. inbox[v].processing = "processing" /\ local[w].result \in HandleResults
        BY <2>2, <3>2 DEF Records, OwnsProcessing, TypeInv, PlaceKnown
      <4>2. inbox'[v] = [inbox[v] EXCEPT
                            !.processing = ProcessingAfter(local[w].result),
                            !.delivery = IF local[w].result = "reply" THEN "pending" ELSE "none",
                            !.claimedBy = None]
        BY <2>2, <3>2 DEF Records, RowBecomes
      <4>3. /\ inbox'[v].attempts = 0
            /\ inbox'[v].processing = ProcessingAfter(local[w].result)
            /\ inbox'[v].delivery = IF local[w].result = "reply" THEN "pending" ELSE "none"
        BY <1>1, <4>1, <4>2 DEF RowTrue, Row
      <4> QED BY <1>1, <4>1, <4>3 DEF RowTrue, ProcessingAfter, HandleResults
    <3> QED BY <3>1, <3>2
  <2>3. CASE Settles(w)
    <3>1. CASE v # Current(w)
      BY <1>3, <2>3, <3>1 DEF Settles, RowBecomes
    <3>2. CASE v = Current(w)
      <4>1. /\ inbox[v].delivery = "delivering" /\ local[w].result \in SendResults
            /\ local[w].result = "delivered" => shown[v] > 0
        BY <2>3, <3>2 DEF Settles, OwnsDelivery, TypeInv, PlaceKnown, SentWasSeen
      <4>2. inbox'[v] = [inbox[v] EXCEPT !.delivery = DeliveryAfter(local[w].result),
                                         !.claimedBy = None]
        BY <2>3, <3>2 DEF Settles, RowBecomes
      <4>3. /\ inbox'[v].attempts = inbox[v].attempts
            /\ inbox'[v].processing = inbox[v].processing
            /\ inbox'[v].delivery = DeliveryAfter(local[w].result)
        BY <1>1, <4>2 DEF Row
      <4> QED BY <1>1, <1>2, <4>1, <4>3 DEF RowTrue, DeliveryAfter, SendResults
    <3> QED BY <3>1, <3>2
  <2>4. CASE Accepts(w)
    <3>1. inbox'[v] = inbox[v] \/ inbox'[v] = [NoRow EXCEPT !.processing = "accepted"]
      BY <2>4 DEF Accepts, AcceptRow
    <3>2. ASSUME inbox'[v] = [NoRow EXCEPT !.processing = "accepted"]
          PROVE  RowTrue(inbox'[v], shown'[v], duplicates'[v])
      BY <1>1, <3>2 DEF RowTrue, NoRow
    <3> QED BY <1>3, <3>1, <3>2
  <2>5. ASSUME NEW u \in Updates, Takes(w, u)
        PROVE  RowTrue(inbox'[v], shown'[v], duplicates'[v])
    <3>1. CASE v # u
      BY <1>3, <2>5, <3>1 DEF Takes, RowBecomes
    <3>2. CASE v = u
      <4>1. /\ Processable(inbox[v])
            /\ inbox'[v] = [inbox[v] EXCEPT !.processing = "processing", !.claimedBy = w]
        BY <2>5, <3>2 DEF Takes, RowBecomes
      <4>2. /\ inbox'[v].attempts = inbox[v].attempts
            /\ inbox'[v].processing = "processing" /\ inbox'[v].delivery = inbox[v].delivery
        BY <1>1, <4>1 DEF Row
      <4> QED BY <1>1, <1>2, <4>1, <4>2 DEF RowTrue, Processable
    <3> QED BY <3>1, <3>2
  <2>6. ASSUME NEW u \in Updates, Delivers(w, u)
        PROVE  RowTrue(inbox'[v], shown'[v], duplicates'[v])
    <3>1. CASE v # u
      BY <1>3, <2>6, <3>1 DEF Delivers, RowBecomes
    <3>2. CASE v = u
      <4>1. /\ inbox[v].processing = "completed" /\ Deliverable(inbox[v])
            /\ inbox'[v] = [inbox[v] EXCEPT !.delivery = "delivering",
                                            !.attempts = @ + 1, !.claimedBy = w]
        BY <2>6, <3>2 DEF Delivers, RowBecomes
      <4>2. /\ inbox'[v].attempts = inbox[v].attempts + 1
            /\ inbox'[v].processing = "completed" /\ inbox'[v].delivery = "delivering"
        BY <1>1, <4>1 DEF Row
      <4> QED BY <1>1, <1>2, <4>1, <4>2 DEF RowTrue, Deliverable
    <3> QED BY <3>1, <3>2
  <2>7. ASSUME NEW u \in Updates, Retries(w, u)
        PROVE  RowTrue(inbox'[v], shown'[v], duplicates'[v])
    <3>1. CASE v # u
      BY <1>3, <2>7, <3>1 DEF Retries, RowBecomes
    <3>2. CASE v = u
      <4>1. /\ inbox[v].processing = "completed" /\ duplicates'[v] = duplicates[v] + 1
            /\ inbox'[v] = [inbox[v] EXCEPT !.delivery = "pending"]
        BY <2>7, <3>2, Typed DEF Retries, RowBecomes
      <4>2. /\ inbox'[v].attempts = inbox[v].attempts
            /\ inbox'[v].processing = "completed" /\ inbox'[v].delivery = "pending"
        BY <1>1, <4>1 DEF Row
      <4> QED BY <1>1, <1>2, <4>1, <4>2 DEF RowTrue
    <3> QED BY <3>1, <3>2
  <2> QED BY <1>5, <2>1, <2>2, <2>3, <2>4, <2>5, <2>6, <2>7
<1>6. ASSUME NEW u \in Updates, RecoverProcessing(u)
      PROVE  RowTrue(inbox'[v], shown'[v], duplicates'[v])
  <2>1. CASE v # u
    BY <1>3, <1>6, <2>1, Typed DEF RecoverProcessing
  <2>2. CASE v = u
    <3>1. /\ inbox[v].processing # "completed"
          /\ inbox'[v] = [inbox[v] EXCEPT !.processing = "provider-failed", !.claimedBy = None]
      BY <1>6, <2>2, Typed DEF RecoverProcessing
    <3>2. /\ inbox'[v].attempts = inbox[v].attempts
          /\ inbox'[v].processing = "provider-failed" /\ inbox'[v].delivery = inbox[v].delivery
      BY <1>1, <3>1 DEF Row
    <3> QED BY <1>1, <1>2, <3>1, <3>2 DEF RowTrue
  <2> QED BY <2>1, <2>2
<1>7. ASSUME NEW u \in Updates, RecoverDelivery(u)
      PROVE  RowTrue(inbox'[v], shown'[v], duplicates'[v])
  <2>1. CASE v # u
    BY <1>3, <1>7, <2>1, Typed DEF RecoverDelivery
  <2>2. CASE v = u
    <3>1. /\ inbox[v].delivery = "delivering"
          /\ inbox'[v] = [inbox[v] EXCEPT !.delivery = "unknown", !.claimedBy = None]
      BY <1>7, <2>2, Typed DEF RecoverDelivery
    <3>2. /\ inbox'[v].attempts = inbox[v].attempts
          /\ inbox'[v].processing = inbox[v].processing /\ inbox'[v].delivery = "unknown"
      BY <1>1, <3>1 DEF Row
    <3> QED BY <1>1, <1>2, <3>1, <3>2 DEF RowTrue
  <2> QED BY <2>1, <2>2
<1> QED BY <1>4, <1>5, <1>6, <1>7 DEF Move

\* A poller that is about to record a delivery has shown the reply.
LEMMA SentWasSeenNext ==
    ASSUME TypeInv, TypeInv', SentWasSeen, Move
    PROVE  SentWasSeen'
<1> SUFFICES ASSUME NEW d \in Workers, pc'[d] = "settle", local'[d].result = "delivered"
             PROVE  shown'[local'[d].update] > 0
  BY DEF SentWasSeen, Current
<1>1. local'[d].update \in Updates
  BY DEF TypeInv, PlaceKnown, Current
<1>2. ASSUME pc'[d] = pc[d], local'[d] = local[d]
      PROVE  shown'[local'[d].update] > 0
  <2>1. local[d].update \in Updates /\ shown[local[d].update] > 0
    BY <1>1, <1>2 DEF SentWasSeen, Current
  <2>2. shown'[local[d].update] >= shown[local[d].update]
    BY <2>1, CountsGrow
  <2> QED BY <1>2, <2>1, <2>2, Typed DEF TypeInv, TypeOK
<1>3. CASE Waits
  BY <1>2, <1>3 DEF Waits
<1>4. ASSUME NEW w \in Workers,
             \/ Aside(w) \/ Handles(w) \/ Records(w) \/ Sends(w) \/ Settles(w) \/ Accepts(w)
             \/ \E u \in Updates : Takes(w, u) \/ Delivers(w, u) \/ Retries(w, u)
      PROVE  shown'[local'[d].update] > 0
  <2>1. OthersAlone(w) /\ (pc'[w] = "settle" => Sends(w))
    BY <1>4 DEF Aside, Handles, Records, Sends, Settles, Accepts, Takes, Delivers, Retries
  <2>2. CASE d # w
    BY <1>2, <2>1, <2>2 DEF OthersAlone
  <2>3. CASE d = w
    <3>1. /\ local'[w].update = Current(w)
          /\ shown' = [shown EXCEPT ![Current(w)] = @ + 1]
      BY <2>1, <2>3 DEF Sends
    <3> QED BY <1>1, <2>3, <3>1, Typed
  <2> QED BY <2>2, <2>3
<1>5. ASSUME NEW u \in Updates, RecoverProcessing(u) \/ RecoverDelivery(u)
      PROVE  shown'[local'[d].update] > 0
  BY <1>2, <1>5 DEF RecoverProcessing, RecoverDelivery
<1> QED BY <1>3, <1>4, <1>5 DEF Move

-----------------------------------------------------------------------------
(* What Telegram may forget.                                               *)

LEMMA KnownStays ==
    ASSUME TypeInv, Move, NEW v \in Updates, Known(v)
    PROVE  inbox'[v] # NoRow
<1> USE DEF Known
<1>1. NoRow.processing = "absent" /\ NoRow.delivery = "none"
  BY DEF NoRow
<1>2. inbox[v] \in Row
  BY Typed
<1>3. ASSUME inbox'[v].processing # "absent" \/ inbox'[v].delivery # "none"
      PROVE  inbox'[v] # NoRow
  BY <1>1, <1>3
<1>4. CASE Waits
  BY <1>4 DEF Waits
<1>5. ASSUME NEW w \in Workers,
             \/ Aside(w) \/ Handles(w) \/ Records(w) \/ Sends(w) \/ Settles(w) \/ Accepts(w)
             \/ \E u \in Updates : Takes(w, u) \/ Delivers(w, u) \/ Retries(w, u)
      PROVE  inbox'[v] # NoRow
  <2>1. CASE Aside(w) \/ Handles(w) \/ Sends(w)
    BY <2>1 DEF Aside, Handles, Sends
  <2>2. CASE Accepts(w)
    BY <1>1, <2>2 DEF Accepts, AcceptRow
  <2>3. CASE Records(w)
    <3>1. CASE v # Current(w)
      BY <2>3, <3>1 DEF Records, RowBecomes
    <3>2. CASE v = Current(w)
      <4>1. /\ local[w].result \in HandleResults
            /\ inbox'[v] = [inbox[v] EXCEPT
                               !.processing = ProcessingAfter(local[w].result),
                               !.delivery = IF local[w].result = "reply" THEN "pending" ELSE "none",
                               !.claimedBy = None]
        BY <2>3, <3>2 DEF Records, RowBecomes, TypeInv, PlaceKnown
      <4>2. inbox'[v].processing = ProcessingAfter(local[w].result)
        BY <1>2, <4>1 DEF Row
      <4> QED BY <1>3, <4>1, <4>2 DEF ProcessingAfter, HandleResults
    <3> QED BY <3>1, <3>2
  <2>4. CASE Settles(w)
    <3>1. CASE v # Current(w)
      BY <2>4, <3>1 DEF Settles, RowBecomes
    <3>2. CASE v = Current(w)
      <4>1. /\ local[w].result \in SendResults
            /\ inbox'[v] = [inbox[v] EXCEPT !.delivery = DeliveryAfter(local[w].result),
                                            !.claimedBy = None]
        BY <2>4, <3>2 DEF Settles, RowBecomes, TypeInv, PlaceKnown
      <4>2. inbox'[v].delivery = DeliveryAfter(local[w].result)
        BY <1>2, <4>1 DEF Row
      <4> QED BY <1>3, <4>1, <4>2 DEF DeliveryAfter, SendResults
    <3> QED BY <3>1, <3>2
  <2>5. ASSUME NEW u \in Updates, Takes(w, u) \/ Delivers(w, u) \/ Retries(w, u)
        PROVE  inbox'[v] # NoRow
    <3>1. CASE v # u
      BY <2>5, <3>1 DEF Takes, Delivers, Retries, RowBecomes
    <3>2. CASE v = u
      <4>1. inbox'[v].processing # "absent" \/ inbox'[v].delivery # "none"
        BY <1>2, <2>5, <3>2 DEF Takes, Delivers, Retries, RowBecomes, Row
      <4> QED BY <1>3, <4>1
    <3> QED BY <3>1, <3>2
  <2> QED BY <1>5, <2>1, <2>2, <2>3, <2>4, <2>5
<1>6. ASSUME NEW u \in Updates, RecoverProcessing(u) \/ RecoverDelivery(u)
      PROVE  inbox'[v] # NoRow
  <2>1. CASE v # u
    BY <1>6, <2>1, Typed DEF RecoverProcessing, RecoverDelivery
  <2>2. CASE v = u
    <3>1. CASE RecoverProcessing(u)
      <4>1. inbox'[v] = [inbox[v] EXCEPT !.processing = "provider-failed", !.claimedBy = None]
        BY <2>2, <3>1, Typed DEF RecoverProcessing
      <4> QED BY <1>2, <1>3, <4>1 DEF Row
    <3>2. CASE RecoverDelivery(u)
      <4>1. inbox'[v] = [inbox[v] EXCEPT !.delivery = "unknown", !.claimedBy = None]
        BY <2>2, <3>2, Typed DEF RecoverDelivery
      <4> QED BY <1>2, <1>3, <4>1 DEF Row
    <3> QED BY <1>6, <3>1, <3>2
  <2> QED BY <2>1, <2>2
<1> QED BY <1>4, <1>5, <1>6 DEF Move

\* Steps that neither receive nor acknowledge: only the first offset is set.
Elsewhere ==
    /\ UNCHANGED <<arrived, held>>
    /\ offset' = offset \/ (offset = 0 /\ offset' = SetupOffset)
    /\ \A w \in Workers : pc'[w] = "accept" => pc[w] = "accept" /\ local'[w] = local[w]

LEMMA ElsewhereStep ==
    ASSUME TypeInv, [Next]_vars
    PROVE  Elsewhere \/ Arrive \/ \E w \in Workers : Poll(w) \/ Accept(w)
<1> USE DEF remote, history, Goto, Die, Drop
<1>1. pc \in [Workers -> Steps] /\ local \in [Workers -> Local]
  BY Typed
<1>2. ASSUME NEW w \in Workers, Run(w) \/ Crash(w)
      PROVE  Elsewhere \/ Poll(w) \/ Accept(w)
  <2>1. ASSUME UNCHANGED <<arrived, held>>, offset' = offset \/ (offset = 0 /\ offset' = SetupOffset),
               OthersAlone(w), pc'[w] # "accept"
        PROVE  Elsewhere
    BY <2>1 DEF Elsewhere, OthersAlone
  <2>2. CASE Poll(w) \/ Accept(w)
    BY <2>2
  <2>3. CASE InitializeOffset(w)
    BY <1>1, <2>1, <2>3 DEF InitializeOffset, OthersAlone
  <2>4. CASE ScanProcessing(w)
    <3>1. Aside(w) /\ pc'[w] = "process" /\ UNCHANGED <<remote, offset>>
      BY <1>1, <2>4, LocalMoves DEF ScanProcessing
    <3> QED BY <2>1, <3>1 DEF Aside
  <2>5. CASE ScanDelivery(w)
    <3>1. Aside(w) /\ pc'[w] = "deliver" /\ UNCHANGED <<remote, offset>>
      BY <1>1, <2>5, LocalMoves DEF ScanDelivery
    <3> QED BY <2>1, <3>1 DEF Aside
  <2>6. CASE EndDeliveries(w)
    <3>1. Aside(w) /\ UNCHANGED <<remote, offset>>
      BY <2>6, LocalMoves DEF EndDeliveries
    <3>2. pc'[w] # "accept"
      BY <1>1, <2>6 DEF EndDeliveries
    <3> QED BY <2>1, <3>1, <3>2 DEF Aside
  <2>7. CASE Crash(w)
    <3>1. Aside(w) /\ UNCHANGED <<remote, offset>> /\ pc'[w] # "accept"
      BY <1>1, <2>7, LocalMoves DEF Crash
    <3> QED BY <2>1, <3>1 DEF Aside
  <2>8. CASE ClaimProcessing(w)
    <3>1. UNCHANGED <<remote, offset>> /\ pc'[w] # "accept"
      BY <1>1, <2>8 DEF ClaimProcessing
    <3>2. OthersAlone(w)
      BY <2>8, ClaimProcessingMoves DEF Aside, Takes
    <3> QED BY <2>1, <3>1, <3>2
  <2>9. CASE Handle(w)
    BY <2>1, <2>9, HandleMoves DEF Handle, Handles
  <2>10. CASE Record(w)
    <3>1. UNCHANGED <<remote, offset>> /\ pc'[w] # "accept"
      BY <1>1, <2>10 DEF Record
    <3>2. OthersAlone(w)
      BY <2>10, RecordMoves DEF Aside, Records
    <3> QED BY <2>1, <3>1, <3>2
  <2>11. CASE ClaimDelivery(w)
    <3>1. UNCHANGED <<remote, offset>> /\ pc'[w] # "accept"
      BY <1>1, <2>11 DEF ClaimDelivery
    <3>2. OthersAlone(w)
      BY <2>11, ClaimDeliveryMoves DEF Aside, Delivers
    <3> QED BY <2>1, <3>1, <3>2
  <2>12. CASE Send(w)
    BY <2>1, <2>12, SendMoves DEF Send, Sends
  <2>13. CASE Settle(w)
    <3>1. UNCHANGED <<remote, offset>> /\ pc[w] = "settle"
      BY <2>13 DEF Settle
    <3>2. OthersAlone(w) /\ pc'[w] # "accept"
      <4>1. CASE Settles(w)
        BY <4>1 DEF Settles
      <4>2. CASE Aside(w) /\ pc'[w] = "down"
        BY <4>2 DEF Aside
      <4> QED BY <2>13, <4>1, <4>2, SettleMoves
    <3> QED BY <2>1, <3>1, <3>2
  <2> QED BY <1>2, <2>2, <2>3, <2>4, <2>5, <2>6, <2>7, <2>8, <2>9, <2>10, <2>11, <2>12, <2>13,
             Zenon DEF Run
<1>3. ASSUME NEW u \in Updates,
             RecoverProcessing(u) \/ RecoverDelivery(u) \/ \E w \in Workers : RetryUnknown(w, u)
      PROVE  Elsewhere
  BY <1>1, <1>3 DEF Elsewhere, RecoverProcessing, RecoverDelivery, RetryUnknown
<1>4. CASE UNCHANGED vars
  BY <1>4 DEF vars, Elsewhere
<1> QED BY <1>2, <1>3, <1>4, Zenon DEF Next, Operator

LEMMA ReceivedNext ==
    ASSUME TypeInv, TypeInv', ReceivedInOrder, [Next]_vars
    PROVE  ReceivedInOrder'
<1>1. \A v \in Updates : inbox[v] # NoRow => inbox'[v] # NoRow
  BY NextMoves, KnownStays DEF Known
<1>2. /\ Updates \subseteq Nat \ {0} /\ offset \in Nat /\ offset' \in Nat /\ arrived \in Nat
      /\ SetupOffset \in Nat /\ held \subseteq Updates
  BY Typed, LimitAssumption DEF TypeInv, TypeOK
<1> USE DEF ReceivedInOrder, Wanted, Known
<1>3. CASE Elsewhere
  <2>1. \A u \in Updates : SetupOffset <= u /\ u < offset' => inbox'[u] # NoRow
    BY <1>1, <1>2, <1>3 DEF Elsewhere
  <2>2. UNCHANGED <<arrived, held>>
        /\ \A w \in Workers : pc'[w] = "accept" => pc[w] = "accept" /\ local'[w] = local[w]
    BY <1>3 DEF Elsewhere
  <2>3. \A w \in Workers : local[w].batch \subseteq Updates
    BY Typed DEF Local
  <2> QED BY <1>1, <1>2, <2>1, <2>2, <2>3
<1>4. CASE Arrive
  <2>1. /\ arrived' = arrived + 1 /\ held' = held \cup {arrived + 1}
        /\ UNCHANGED <<offset, inbox, pc, local>>
    BY <1>4 DEF Arrive
  <2> QED BY <1>2, <2>1, <1>4
<1>5. ASSUME NEW w \in Workers, Poll(w) PROVE ReceivedInOrder'
  <2>1. OthersAlone(w) /\ UNCHANGED <<arrived, offset, inbox>>
    BY <1>5, LocalMoves DEF Aside, Poll
  <2> DEFINE kept == {u \in held : u >= offset}
  <2>2. held' \in {held, kept}
    BY <1>5 DEF Poll
  <2>3. held' \subseteq 1 .. arrived'
        /\ \A u \in Updates : SetupOffset <= u /\ u <= arrived' => u \in held' \/ inbox'[u] # NoRow
    <3>1. held' \subseteq held /\ \A u \in held : u >= offset => u \in held'
      BY <2>2
    <3>2. held' \subseteq 1 .. arrived'
      BY <2>1, <3>1
    <3>3. ASSUME NEW u \in Updates, SetupOffset <= u, u <= arrived'
          PROVE  u \in held' \/ inbox'[u] # NoRow
      <4>1. u \in held \/ inbox[u] # NoRow
        BY <2>1, <3>3
      <4>2. CASE u >= offset
        BY <2>1, <3>1, <4>1, <4>2
      <4>3. CASE ~(u >= offset)
        BY <1>2, <2>1, <3>3, <4>3
      <4> QED BY <4>2, <4>3
    <3> QED BY <3>2, <3>3
  <2>4. pc'[w] = "accept" =>
          \E newest \in Updates \cup {0} : local'[w].batch = {u \in kept : u <= newest}
    <3>1. ASSUME NEW newest \in Updates \cup {0},
                 local' = [local EXCEPT ![w].batch = {u \in kept : u <= newest}]
          PROVE  local'[w].batch = {u \in kept : u <= newest}
      BY <3>1, Typed DEF Local
    <3>2. CASE Goto(w, "start")
      BY <3>2, Typed DEF Goto
    <3> QED BY <1>5, <3>1, <3>2 DEF Poll
  <2>5. ASSUME pc'[w] = "accept"
        PROVE  /\ local'[w].batch \subseteq 1 .. arrived'
               /\ \A v \in local'[w].batch, u \in Updates :
                     SetupOffset <= u /\ u <= v => u \in local'[w].batch \/ inbox'[u] # NoRow
    <3>1. PICK newest \in Updates \cup {0} : local'[w].batch = {u \in kept : u <= newest}
      BY <2>4, <2>5
    <3>2. local'[w].batch \subseteq 1 .. arrived'
      BY <2>1, <3>1
    <3>3. ASSUME NEW v \in local'[w].batch, NEW u \in Updates, SetupOffset <= u, u <= v
          PROVE  u \in local'[w].batch \/ inbox'[u] # NoRow
      <4>1. v \in held /\ v <= arrived /\ v <= newest /\ newest \in Nat /\ v \in Nat
        <5>1. v \in held /\ v <= newest
          BY <3>1
        <5>2. newest \in Nat
          BY <1>2
        <5>3. held \subseteq 1 .. arrived /\ arrived \in Nat
          BY <1>2
        <5>4. v \in Nat /\ v <= arrived
          <6> HIDE DEF ReceivedInOrder, kept
          <6> QED BY <5>1, <5>3
        <5> QED BY <5>1, <5>2, <5>4
      <4>2. u \in held \/ inbox[u] # NoRow
        BY <1>2, <3>3, <4>1
      <4>3. CASE u \in held /\ u >= offset
        <5>1. u <= newest
          BY <1>2, <3>3, <4>1
        <5>2. u \in kept
          BY <4>3
        <5> QED BY <3>1, <5>1, <5>2
      <4>4. CASE ~(u >= offset)
        BY <1>2, <2>1, <3>3, <4>4
      <4> QED BY <2>1, <4>2, <4>3, <4>4
    <3> QED BY <3>2, <3>3
  <2>6. \A d \in Workers \ {w} : pc'[d] = pc[d] /\ local'[d] = local[d]
    BY <2>1 DEF OthersAlone
  <2> QED BY <1>2, <2>1, <2>3, <2>5, <2>6
<1>6. ASSUME NEW w \in Workers, Accept(w) PROVE ReceivedInOrder'
  <2>1. /\ Accepts(w) /\ UNCHANGED <<arrived, held>>
        /\ \/ \E newest \in Newest(local[w].batch) : offset' = NextOffset(newest)
           \/ UNCHANGED offset
    BY <1>6, AcceptMoves DEF Accept, remote
  <2>2. \A u \in local[w].batch : u \in Updates => inbox'[u] # NoRow
    <3>1. NoRow.processing = "absent" /\ [NoRow EXCEPT !.processing = "accepted"].processing = "accepted"
      BY DEF NoRow
    <3> QED BY <2>1, <3>1 DEF Accepts, AcceptRow
  <2>3. pc[w] = "accept" /\ pc'[w] = "process"
        /\ \A d \in Workers \ {w} : pc'[d] = pc[d] /\ local'[d] = local[d]
    BY <2>1 DEF Accepts, OthersAlone
  <2>4. \A u \in Updates : SetupOffset <= u /\ u < offset' => inbox'[u] # NoRow
    <3>1. ASSUME NEW newest \in Newest(local[w].batch), offset' = NextOffset(newest),
                 NEW u \in Updates, SetupOffset <= u, u < offset'
          PROVE  inbox'[u] # NoRow
      <4>1. newest \in local[w].batch /\ newest \in Nat
        BY <1>2, <2>3 DEF Newest
      <4>2. CASE u < offset
        BY <1>1, <3>1, <4>2
      <4>3. CASE ~(u < offset)
        <5>1. u <= newest
          BY <1>2, <3>1, <4>1, <4>3 DEF NextOffset
        <5>2. u \in local[w].batch \/ inbox[u] # NoRow
          BY <2>3, <3>1, <4>1, <5>1
        <5> QED BY <1>1, <2>2, <5>2
      <4> QED BY <4>2, <4>3
    <3> QED BY <1>1, <2>1, <3>1
  <2> QED BY <1>1, <1>2, <2>1, <2>3, <2>4
<1> QED BY <1>3, <1>4, <1>5, <1>6, ElsewhereStep

-----------------------------------------------------------------------------
(* Tokens.                                                                 *)

\* Nobody new holds a token.
LEMMA HandsRest ==
    ASSUME NEW hands, IsFiniteSet(hands), NEW hands2, hands2 \subseteq hands
    PROVE  /\ IsFiniteSet(hands2) /\ Cardinality(hands) \in Nat /\ Cardinality(hands2) \in Nat
           /\ Cardinality(hands2) <= Cardinality(hands)
BY FS_Subset, FS_CardinalityType

\* One more takes a token, which was open.
LEMMA HandsTake ==
    ASSUME NEW hands, IsFiniteSet(hands), NEW w, NEW hands2, hands2 \subseteq hands \cup {w}
    PROVE  /\ IsFiniteSet(hands2) /\ Cardinality(hands) \in Nat /\ Cardinality(hands2) \in Nat
           /\ Cardinality(hands2) <= Cardinality(hands) + 1
<1>1. IsFiniteSet(hands \cup {w}) /\ Cardinality(hands) \in Nat
  BY FS_AddElement, FS_CardinalityType
<1>2. Cardinality(hands \cup {w}) <= Cardinality(hands) + 1
  BY <1>1, FS_AddElement
<1>3. /\ IsFiniteSet(hands2) /\ Cardinality(hands2) \in Nat
      /\ Cardinality(hands \cup {w}) \in Nat
      /\ Cardinality(hands2) <= Cardinality(hands \cup {w})
  BY <1>1, HandsRest
<1> QED BY <1>1, <1>2, <1>3

\* Whoever held a token has spent it or given it back.
LEMMA HandsPut ==
    ASSUME NEW hands, IsFiniteSet(hands), NEW w \in hands, NEW hands2, hands2 \subseteq hands \ {w}
    PROVE  /\ IsFiniteSet(hands2) /\ Cardinality(hands) \in Nat /\ Cardinality(hands2) \in Nat
           /\ Cardinality(hands2) + 1 <= Cardinality(hands)
<1>1. IsFiniteSet(hands \ {w}) /\ Cardinality(hands \ {w}) = Cardinality(hands) - 1
  BY FS_RemoveElement
<1>2. /\ IsFiniteSet(hands2) /\ Cardinality(hands2) \in Nat
      /\ Cardinality(hands \ {w}) \in Nat
      /\ Cardinality(hands2) <= Cardinality(hands \ {w})
  BY <1>1, HandsRest
<1>3. Cardinality(hands) \in Nat
  BY FS_CardinalityType
<1> QED BY <1>1, <1>2, <1>3

LEMMA CountsTyped ==
    ASSUME TypeInv, TypeInv', NEW u \in Updates
    PROVE  /\ work[u] \in Nat /\ shown[u] \in Nat /\ repeats[u] \in Nat /\ duplicates[u] \in Nat
           /\ work'[u] \in Nat /\ shown'[u] \in Nat
           /\ repeats'[u] \in Nat /\ duplicates'[u] \in Nat
           /\ Unclaimed(u) \in Nat /\ Unclaimed(u)' \in Nat
           /\ Unsent(u) \in Nat /\ Unsent(u)' \in Nat
BY DEF TypeInv, TypeOK, Unclaimed, Unsent

\* When one poller moves and nobody else gains the row, no other hand closes.
LEMMA OthersWork ==
    ASSUME NEW w \in Workers, OthersAlone(w), NEW v \in Updates,
           \A d \in Workers \ {w} : OwnsProcessing(d, v)' => OwnsProcessing(d, v)
    PROVE  /\ Working(v)' \subseteq Working(v) \cup {w}
           /\ w \notin Working(v)' => Working(v)' \subseteq Working(v) \ {w}
<1>1. \A d \in Workers \ {w} : d \in Working(v)' => d \in Working(v)
  BY DEF Working, OthersAlone, Current
<1>2. Working(v)' \subseteq Workers
  BY DEF Working
<1> QED BY <1>1, <1>2

LEMMA OthersSend ==
    ASSUME NEW w \in Workers, OthersAlone(w), NEW v \in Updates,
           \A d \in Workers \ {w} : OwnsDelivery(d, v)' => OwnsDelivery(d, v)
    PROVE  /\ Sending(v)' \subseteq Sending(v) \cup {w}
           /\ w \notin Sending(v)' => Sending(v)' \subseteq Sending(v) \ {w}
<1>1. \A d \in Workers \ {w} : d \in Sending(v)' => d \in Sending(v)
  BY DEF Sending, OthersAlone, Current
<1>2. Sending(v)' \subseteq Workers
  BY DEF Sending
<1> QED BY <1>1, <1>2

\* A row that stays is owned by whoever owned it.
LEMMA OwnersStay ==
    ASSUME NEW v, inbox'[v] = inbox[v], NEW d
    PROVE  /\ OwnsProcessing(d, v)' = OwnsProcessing(d, v)
           /\ OwnsDelivery(d, v)' = OwnsDelivery(d, v)
           /\ Unclaimed(v)' = Unclaimed(v) /\ Unsent(v)' = Unsent(v)
BY DEF OwnsProcessing, OwnsDelivery, Unclaimed, Unsent

LEMMA WorkTokensNext ==
    ASSUME TypeInv, TypeInv', WorkTokens, Move
    PROVE  WorkTokens'
<1> SUFFICES ASSUME NEW v \in Updates
             PROVE  Within(work'[v], Working(v)', Unclaimed(v)', repeats'[v])
  BY DEF WorkTokens
<1>1. Within(work[v], Working(v), Unclaimed(v), repeats[v])
  BY DEF WorkTokens
<1>2. /\ inbox[v] \in Row /\ None \notin Workers
      /\ work \in [Updates -> Nat] /\ repeats \in [Updates -> Nat]
  BY Typed
<1> DEFINE Goal == Within(work'[v], Working(v)', Unclaimed(v)', repeats'[v])
<1>3. ASSUME Working(v)' \subseteq Working(v), work'[v] = work[v],
             Unclaimed(v)' + repeats[v] <= Unclaimed(v) + repeats'[v]
      PROVE  Goal
  <2>1. IsFiniteSet(Working(v))
    BY <1>1 DEF Within
  <2>2. IsFiniteSet(Working(v)') /\ Cardinality(Working(v)') <= Cardinality(Working(v))
        /\ Cardinality(Working(v)') \in Nat /\ Cardinality(Working(v)) \in Nat
    BY <1>3, <2>1, HandsRest
  <2> QED BY <1>1, <1>3, <2>2, CountsTyped DEF Within
<1>4. ASSUME NEW w \in Working(v), Working(v)' \subseteq Working(v) \ {w},
             work'[v] + Unclaimed(v)' + repeats[v] <= work[v] + Unclaimed(v) + repeats'[v] + 1
      PROVE  Goal
  <2>1. IsFiniteSet(Working(v))
    BY <1>1 DEF Within
  <2>2. IsFiniteSet(Working(v)') /\ Cardinality(Working(v)') + 1 <= Cardinality(Working(v))
        /\ Cardinality(Working(v)') \in Nat /\ Cardinality(Working(v)) \in Nat
    BY <1>4, <2>1, HandsPut
  <2> QED BY <1>1, <1>4, <2>2, CountsTyped DEF Within
<1>5. ASSUME NEW w, Working(v)' \subseteq Working(v) \cup {w},
             work'[v] + Unclaimed(v)' + repeats[v] + 1 <= work[v] + Unclaimed(v) + repeats'[v]
      PROVE  Goal
  <2>1. IsFiniteSet(Working(v))
    BY <1>1 DEF Within
  <2>2. IsFiniteSet(Working(v)') /\ Cardinality(Working(v)') <= Cardinality(Working(v)) + 1
        /\ Cardinality(Working(v)') \in Nat /\ Cardinality(Working(v)) \in Nat
    BY <1>5, <2>1, HandsTake
  <2> QED BY <1>1, <1>5, <2>2, CountsTyped DEF Within
<1>6. CASE Waits
  <2>1. Working(v)' \subseteq Working(v) /\ Unclaimed(v)' = Unclaimed(v)
    BY <1>6 DEF Waits, Working, Current, OwnsProcessing, Unclaimed
  <2> QED BY <1>3, <1>6, <2>1, CountsTyped DEF Waits, counts
<1>7. ASSUME NEW w \in Workers,
             \/ Aside(w) \/ Handles(w) \/ Records(w) \/ Sends(w) \/ Settles(w) \/ Accepts(w)
             \/ \E u \in Updates : Takes(w, u) \/ Delivers(w, u) \/ Retries(w, u)
      PROVE  Goal
  <2>1. OthersAlone(w)
    BY <1>7 DEF Aside, Handles, Records, Sends, Settles, Accepts, Takes, Delivers, Retries
  \* The row of v stays, and the poller comes to hold nothing of it.
  <2>2. ASSUME inbox'[v] = inbox[v], w \notin Working(v)', work'[v] = work[v],
               repeats'[v] = repeats[v]
        PROVE  Goal
    BY <1>3, <2>1, <2>2, OwnersStay, OthersWork, CountsTyped
  \* The row of v leaves nobody else in possession.
  <2>3. ASSUME \A d \in Workers \ {w} : OwnsProcessing(d, v)' => OwnsProcessing(d, v),
               w \notin Working(v)', work'[v] = work[v], repeats'[v] = repeats[v],
               Unclaimed(v)' = Unclaimed(v)
        PROVE  Goal
    BY <1>3, <2>1, <2>3, OthersWork, CountsTyped
  <2>4. CASE Aside(w)
    BY <2>2, <2>4 DEF Aside, counts, Working
  <2>5. CASE Handles(w)
    <3>1. /\ inbox'[v] = inbox[v] /\ repeats'[v] = repeats[v]
          /\ pc[w] = "handle" /\ pc'[w] = "record" /\ local'[w].update = Current(w)
      BY <2>5 DEF Handles
    <3>2. CASE v # Current(w)
      <4>1. w \notin Working(v)' /\ work'[v] = work[v]
        BY <1>2, <2>5, <3>1, <3>2 DEF Handles, Working, Current
      <4> QED BY <2>2, <3>1, <4>1
    <3>3. CASE v = Current(w) /\ local'[w].result = "provider-failed"
      <4>1. w \in Working(v) /\ work'[v] = work[v]
        BY <2>5, <3>1, <3>3 DEF Handles, Working
      <4>2. Working(v)' \subseteq Working(v)
        BY <2>1, <3>1, <4>1, OwnersStay, OthersWork
      <4> QED BY <1>3, <3>1, <4>1, <4>2, OwnersStay, CountsTyped
    <3>4. CASE v = Current(w) /\ local'[w].result # "provider-failed"
      <4>1. w \in Working(v) /\ work'[v] = work[v] + 1
        BY <1>2, <2>5, <3>1, <3>4 DEF Handles, Working
      <4>2. w \notin Working(v)'
        BY <3>1, <3>4 DEF Working
      <4>3. Working(v)' \subseteq Working(v) \ {w}
        BY <2>1, <3>1, <4>2, OwnersStay, OthersWork
      <4>4. Unclaimed(v)' = Unclaimed(v)
        BY <3>1, OwnersStay
      <4>5. work'[v] + Unclaimed(v)' + repeats[v] <= work[v] + Unclaimed(v) + repeats'[v] + 1
        BY <3>1, <4>1, <4>4, CountsTyped
      <4> QED BY <1>4, <4>1, <4>3, <4>5
    <3> QED BY <3>2, <3>3, <3>4
  <2>6. CASE Records(w)
    <3>1. pc[w] = "record" /\ w \notin Working(v)' /\ work'[v] = work[v] /\ repeats'[v] = repeats[v]
      BY <2>6 DEF Records, counts, Working
    <3>2. CASE v # Current(w)
      BY <2>2, <2>6, <3>1, <3>2 DEF Records, RowBecomes
    <3>3. CASE v = Current(w)
      <4>1. /\ OwnsProcessing(w, v) /\ local[w].result \in HandleResults
            /\ inbox'[v] = [inbox[v] EXCEPT
                               !.processing = ProcessingAfter(local[w].result),
                               !.delivery = IF local[w].result = "reply" THEN "pending" ELSE "none",
                               !.claimedBy = None]
        BY <2>6, <3>3 DEF Records, RowBecomes, TypeInv, PlaceKnown
      <4>2. /\ inbox'[v].processing = ProcessingAfter(local[w].result)
            /\ inbox'[v].claimedBy = None
        BY <1>2, <4>1 DEF Row
      <4>3. \A d \in Workers : ~OwnsProcessing(d, v)'
        BY <1>2, <4>2 DEF OwnsProcessing
      <4>4. Working(v)' \subseteq Working(v) \ {w}
        BY <2>1, <3>1, <4>3, OthersWork
      <4>5. Unclaimed(v) = 0
        BY <4>1 DEF OwnsProcessing, Unclaimed
      <4>6. CASE local[w].result = "provider-failed"
        <5>1. w \in Working(v)
          BY <3>1, <3>3, <4>1, <4>6 DEF Working
        <5>2. Unclaimed(v)' <= 1
          BY DEF Unclaimed
        <5>3. work'[v] + Unclaimed(v)' + repeats[v] <= work[v] + Unclaimed(v) + repeats'[v] + 1
          BY <3>1, <4>5, <5>2, CountsTyped
        <5> QED BY <1>4, <4>4, <5>1, <5>3
      <4>7. CASE local[w].result # "provider-failed"
        <5>1. Unclaimed(v)' = 0
          BY <4>1, <4>2, <4>7 DEF Unclaimed, ProcessingAfter, HandleResults
        <5> QED BY <1>3, <3>1, <4>4, <4>5, <5>1, CountsTyped
      <4> QED BY <4>6, <4>7
    <3> QED BY <3>2, <3>3
  <2>7. CASE Sends(w)
    BY <2>2, <2>7 DEF Sends, Working
  <2>8. CASE Settles(w)
    <3>1. w \notin Working(v)' /\ work'[v] = work[v] /\ repeats'[v] = repeats[v]
      BY <2>8 DEF Settles, counts, Working
    <3>2. CASE v # Current(w)
      BY <2>2, <2>8, <3>1, <3>2 DEF Settles, RowBecomes
    <3>3. CASE v = Current(w)
      <4>1. inbox'[v] = [inbox[v] EXCEPT !.delivery = DeliveryAfter(local[w].result),
                                         !.claimedBy = None]
        BY <2>8, <3>3 DEF Settles, RowBecomes
      <4>2. inbox'[v].processing = inbox[v].processing /\ inbox'[v].claimedBy = None
        BY <1>2, <4>1 DEF Row
      <4>3. \A d \in Workers : ~OwnsProcessing(d, v)'
        BY <1>2, <4>2 DEF OwnsProcessing
      <4>4. Unclaimed(v)' = Unclaimed(v)
        BY <4>2 DEF Unclaimed
      <4> QED BY <2>3, <3>1, <4>3, <4>4
    <3> QED BY <3>2, <3>3
  <2>9. CASE Accepts(w)
    <3>1. w \notin Working(v)' /\ work'[v] = work[v] /\ repeats'[v] = repeats[v]
      BY <2>9 DEF Accepts, counts, Working
    <3>2. inbox'[v] = inbox[v] \/
          (inbox[v] = NoRow /\ inbox'[v] = [NoRow EXCEPT !.processing = "accepted"])
      BY <2>9 DEF Accepts, AcceptRow
    <3>3. ASSUME inbox[v] = NoRow, inbox'[v] = [NoRow EXCEPT !.processing = "accepted"]
          PROVE  Goal
      <4>1. inbox[v].processing = "absent" /\ inbox'[v].processing = "accepted"
        BY <3>3 DEF NoRow
      <4>2. \A d \in Workers : ~OwnsProcessing(d, v)'
        BY <4>1 DEF OwnsProcessing
      <4>3. Unclaimed(v)' = Unclaimed(v)
        BY <4>1 DEF Unclaimed
      <4> QED BY <2>3, <3>1, <4>2, <4>3
    <3> QED BY <2>2, <3>1, <3>2, <3>3
  <2>10. ASSUME NEW u \in Updates, Takes(w, u) PROVE Goal
    <3>1. /\ pc'[w] = "handle" /\ local'[w].update = u /\ Processable(inbox[u])
          /\ work'[v] = work[v] /\ repeats'[v] = repeats[v]
      BY <2>10 DEF Takes, counts
    <3>2. CASE v # u
      <4>1. w \notin Working(v)' /\ inbox'[v] = inbox[v]
        BY <2>10, <3>1, <3>2 DEF Takes, RowBecomes, Working, Current
      <4> QED BY <2>2, <3>1, <4>1
    <3>3. CASE v = u
      <4>1. inbox'[v] = [inbox[v] EXCEPT !.processing = "processing", !.claimedBy = w]
        BY <2>10, <3>3 DEF Takes, RowBecomes
      <4>2. inbox'[v].processing = "processing" /\ inbox'[v].claimedBy = w
        BY <1>2, <4>1 DEF Row
      <4>3. \A d \in Workers \ {w} : ~OwnsProcessing(d, v)'
        BY <4>2 DEF OwnsProcessing
      <4>4. Unclaimed(v) = 1 /\ Unclaimed(v)' = 0
        BY <3>1, <3>3, <4>2 DEF Unclaimed, Processable
      <4>5. Working(v)' \subseteq Working(v) \cup {w}
        BY <2>1, <4>3, OthersWork
      <4>6. work'[v] + Unclaimed(v)' + repeats[v] + 1 <= work[v] + Unclaimed(v) + repeats'[v]
        BY <3>1, <4>4, CountsTyped
      <4> QED BY <1>5, <4>5, <4>6
    <3> QED BY <3>2, <3>3
  <2>11. ASSUME NEW u \in Updates, Delivers(w, u) \/ Retries(w, u) PROVE Goal
    <3>1. w \notin Working(v)' /\ work'[v] = work[v] /\ repeats'[v] = repeats[v]
      BY <2>11 DEF Delivers, Retries, counts, Working
    <3>2. CASE v # u
      BY <2>2, <2>11, <3>1, <3>2 DEF Delivers, Retries, RowBecomes
    <3>3. CASE v = u
      <4>1. inbox[v].processing = "completed" /\ inbox'[v].processing = "completed"
        BY <1>2, <2>11, <3>3 DEF Delivers, Retries, RowBecomes, Row
      <4>2. Unclaimed(v)' = Unclaimed(v) /\ \A d \in Workers : ~OwnsProcessing(d, v)'
        BY <4>1 DEF Unclaimed, OwnsProcessing
      <4> QED BY <2>3, <3>1, <4>2
    <3> QED BY <3>2, <3>3
  <2> HIDE DEF Goal
  <2> QED BY <1>7, <2>4, <2>5, <2>6, <2>7, <2>8, <2>9, <2>10, <2>11
<1>8. ASSUME NEW u \in Updates, RecoverProcessing(u) \/ RecoverDelivery(u) PROVE Goal
  <2>1. pc' = pc /\ local' = local /\ work' = work
    BY <1>8 DEF RecoverProcessing, RecoverDelivery, history
  <2>2. ASSUME \A d \in Workers : OwnsProcessing(d, v)' => OwnsProcessing(d, v)
        PROVE  Working(v)' \subseteq Working(v)
    BY <2>1, <2>2 DEF Working, Current
  <2>3. CASE v # u
    <3>1. inbox'[v] = inbox[v] /\ repeats'[v] = repeats[v]
      BY <1>2, <1>8, <2>3, Typed DEF RecoverProcessing, RecoverDelivery, history
    <3> QED BY <1>3, <2>1, <2>2, <3>1, OwnersStay, CountsTyped
  <2>4. CASE v = u /\ RecoverProcessing(u)
    <3>1. inbox'[v] = [inbox[v] EXCEPT !.processing = "provider-failed", !.claimedBy = None]
      BY <2>4, Typed DEF RecoverProcessing
    <3>2. repeats'[v] = repeats[v] + 1
      BY <2>4, Typed DEF RecoverProcessing
    <3>3. inbox'[v].processing = "provider-failed"
      BY <1>2, <3>1 DEF Row
    <3>4. Unclaimed(v)' = 1 /\ \A d \in Workers : ~OwnsProcessing(d, v)'
      BY <3>3 DEF Unclaimed, OwnsProcessing
    <3> QED BY <1>3, <2>1, <2>2, <3>2, <3>4, CountsTyped
  <2>5. CASE v = u /\ RecoverDelivery(u)
    <3>1. inbox'[v] = [inbox[v] EXCEPT !.delivery = "unknown", !.claimedBy = None]
          /\ repeats'[v] = repeats[v]
      BY <2>5, Typed DEF RecoverDelivery, history
    <3>2. inbox'[v].processing = inbox[v].processing /\ inbox'[v].claimedBy = None
      BY <1>2, <3>1 DEF Row
    <3>3. Unclaimed(v)' = Unclaimed(v) /\ \A d \in Workers : ~OwnsProcessing(d, v)'
      BY <1>2, <3>2 DEF Unclaimed, OwnsProcessing
    <3> QED BY <1>3, <2>1, <2>2, <3>1, <3>3, CountsTyped
  <2> QED BY <1>8, <2>3, <2>4, <2>5
<1> QED BY <1>6, <1>7, <1>8, Zenon DEF Move

LEMMA ReplyTokensNext ==
    ASSUME TypeInv, TypeInv', RowsTrue, ReplyTokens, Move
    PROVE  ReplyTokens'
<1> SUFFICES ASSUME NEW v \in Updates
             PROVE  Within(shown'[v], Sending(v)', Unsent(v)', duplicates'[v])
  BY DEF ReplyTokens
<1>1. Within(shown[v], Sending(v), Unsent(v), duplicates[v])
      /\ RowTrue(inbox[v], shown[v], duplicates[v])
  BY DEF ReplyTokens, RowsTrue
<1>2. /\ inbox[v] \in Row /\ None \notin Workers
      /\ shown \in [Updates -> Nat] /\ duplicates \in [Updates -> Nat]
  BY Typed
<1> DEFINE Goal == Within(shown'[v], Sending(v)', Unsent(v)', duplicates'[v])
<1>3. ASSUME Sending(v)' \subseteq Sending(v), shown'[v] = shown[v],
             Unsent(v)' + duplicates[v] <= Unsent(v) + duplicates'[v]
      PROVE  Goal
  <2>1. IsFiniteSet(Sending(v))
    BY <1>1 DEF Within
  <2>2. IsFiniteSet(Sending(v)') /\ Cardinality(Sending(v)') <= Cardinality(Sending(v))
        /\ Cardinality(Sending(v)') \in Nat /\ Cardinality(Sending(v)) \in Nat
    BY <1>3, <2>1, HandsRest
  <2> QED BY <1>1, <1>3, <2>2, CountsTyped DEF Within
<1>4. ASSUME NEW w \in Sending(v), Sending(v)' \subseteq Sending(v) \ {w},
             shown'[v] + Unsent(v)' + duplicates[v] <= shown[v] + Unsent(v) + duplicates'[v] + 1
      PROVE  Goal
  <2>1. IsFiniteSet(Sending(v))
    BY <1>1 DEF Within
  <2>2. IsFiniteSet(Sending(v)') /\ Cardinality(Sending(v)') + 1 <= Cardinality(Sending(v))
        /\ Cardinality(Sending(v)') \in Nat /\ Cardinality(Sending(v)) \in Nat
    BY <1>4, <2>1, HandsPut
  <2> QED BY <1>1, <1>4, <2>2, CountsTyped DEF Within
<1>5. ASSUME NEW w, Sending(v)' \subseteq Sending(v) \cup {w},
             shown'[v] + Unsent(v)' + duplicates[v] + 1 <= shown[v] + Unsent(v) + duplicates'[v]
      PROVE  Goal
  <2>1. IsFiniteSet(Sending(v))
    BY <1>1 DEF Within
  <2>2. IsFiniteSet(Sending(v)') /\ Cardinality(Sending(v)') <= Cardinality(Sending(v)) + 1
        /\ Cardinality(Sending(v)') \in Nat /\ Cardinality(Sending(v)) \in Nat
    BY <1>5, <2>1, HandsTake
  <2> QED BY <1>1, <1>5, <2>2, CountsTyped DEF Within
<1>6. CASE Waits
  <2>1. Sending(v)' \subseteq Sending(v) /\ Unsent(v)' = Unsent(v)
    BY <1>6 DEF Waits, Sending, Current, OwnsDelivery, Unsent
  <2> QED BY <1>3, <1>6, <2>1, CountsTyped DEF Waits, counts
<1>7. ASSUME NEW w \in Workers,
             \/ Aside(w) \/ Handles(w) \/ Records(w) \/ Sends(w) \/ Settles(w) \/ Accepts(w)
             \/ \E u \in Updates : Takes(w, u) \/ Delivers(w, u) \/ Retries(w, u)
      PROVE  Goal
  <2>1. OthersAlone(w)
    BY <1>7 DEF Aside, Handles, Records, Sends, Settles, Accepts, Takes, Delivers, Retries
  \* The row of v stays, and the poller comes to hold nothing of it.
  <2>2. ASSUME inbox'[v] = inbox[v], w \notin Sending(v)', shown'[v] = shown[v],
               duplicates'[v] = duplicates[v]
        PROVE  Goal
    BY <1>3, <2>1, <2>2, OwnersStay, OthersSend, CountsTyped
  \* The row of v leaves nobody else in possession.
  <2>3. ASSUME \A d \in Workers \ {w} : OwnsDelivery(d, v)' => OwnsDelivery(d, v),
               w \notin Sending(v)', shown'[v] = shown[v], duplicates'[v] = duplicates[v],
               Unsent(v)' = Unsent(v)
        PROVE  Goal
    BY <1>3, <2>1, <2>3, OthersSend, CountsTyped
  <2>4. CASE Aside(w)
    BY <2>2, <2>4 DEF Aside, counts, Sending
  <2>5. CASE Handles(w)
    BY <2>2, <2>5 DEF Handles, Sending
  <2>6. CASE Records(w)
    <3>1. w \notin Sending(v)' /\ shown'[v] = shown[v] /\ duplicates'[v] = duplicates[v]
      BY <2>6 DEF Records, counts, Sending
    <3>2. CASE v # Current(w)
      BY <2>2, <2>6, <3>1, <3>2 DEF Records, RowBecomes
    <3>3. CASE v = Current(w)
      <4>1. /\ inbox[v].processing = "processing"
            /\ inbox'[v] = [inbox[v] EXCEPT
                               !.processing = ProcessingAfter(local[w].result),
                               !.delivery = IF local[w].result = "reply" THEN "pending" ELSE "none",
                               !.claimedBy = None]
        BY <2>6, <3>3 DEF Records, RowBecomes, OwnsProcessing
      <4>2. inbox'[v].delivery \in {"pending", "none"}
        BY <1>2, <4>1 DEF Row
      <4>3. inbox[v].delivery = "none"
        BY <1>1, <4>1 DEF RowTrue
      <4>4. Unsent(v)' = Unsent(v) /\ \A d \in Workers : ~OwnsDelivery(d, v)'
        BY <4>2, <4>3 DEF Unsent, OwnsDelivery
      <4> QED BY <2>3, <3>1, <4>4
    <3> QED BY <3>2, <3>3
  <2>7. CASE Sends(w)
    <3>1. /\ inbox'[v] = inbox[v] /\ duplicates'[v] = duplicates[v]
          /\ pc[w] = "send" /\ pc'[w] = "settle" /\ local'[w].update = Current(w)
      BY <2>7 DEF Sends
    <3>2. Unsent(v)' = Unsent(v)
      BY <3>1, OwnersStay
    <3>3. CASE v # Current(w)
      <4>1. w \notin Sending(v)' /\ shown'[v] = shown[v]
        BY <1>2, <2>7, <3>1, <3>3 DEF Sends, Sending, Current
      <4> QED BY <2>2, <3>1, <4>1
    <3>4. CASE v = Current(w) /\ shown' = shown
      <4>1. w \in Sending(v)
        BY <3>1, <3>4 DEF Sending
      <4>2. Sending(v)' \subseteq Sending(v)
        BY <2>1, <3>1, <4>1, OwnersStay, OthersSend
      <4> QED BY <1>3, <3>1, <3>2, <3>4, <4>2, CountsTyped
    <3>5. CASE v = Current(w) /\ ~(shown' = shown)
      <4>1. w \in Sending(v) /\ shown'[v] = shown[v] + 1 /\ local'[w].result # "failed"
        BY <1>2, <2>7, <3>1, <3>5 DEF Sends, Sending
      <4>2. w \notin Sending(v)'
        BY <3>1, <4>1 DEF Sending
      <4>3. Sending(v)' \subseteq Sending(v) \ {w}
        BY <2>1, <3>1, <4>2, OwnersStay, OthersSend
      <4>4. shown'[v] + Unsent(v)' + duplicates[v] <= shown[v] + Unsent(v) + duplicates'[v] + 1
        BY <3>1, <3>2, <4>1, CountsTyped
      <4> QED BY <1>4, <4>1, <4>3, <4>4
    <3> QED BY <3>3, <3>4, <3>5
  <2>8. CASE Settles(w)
    <3>1. /\ pc[w] = "settle" /\ w \notin Sending(v)'
          /\ shown'[v] = shown[v] /\ duplicates'[v] = duplicates[v]
      BY <2>8 DEF Settles, counts, Sending
    <3>2. CASE v # Current(w)
      BY <2>2, <2>8, <3>1, <3>2 DEF Settles, RowBecomes
    <3>3. CASE v = Current(w)
      <4>1. /\ OwnsDelivery(w, v) /\ local[w].result \in SendResults
            /\ inbox'[v] = [inbox[v] EXCEPT !.delivery = DeliveryAfter(local[w].result),
                                            !.claimedBy = None]
        BY <2>8, <3>3 DEF Settles, RowBecomes, TypeInv, PlaceKnown
      <4>2. inbox'[v].delivery = DeliveryAfter(local[w].result) /\ inbox'[v].claimedBy = None
        BY <1>2, <4>1 DEF Row
      <4>3. \A d \in Workers : ~OwnsDelivery(d, v)'
        BY <1>2, <4>2 DEF OwnsDelivery
      <4>4. Sending(v)' \subseteq Sending(v) \ {w}
        BY <2>1, <3>1, <4>3, OthersSend
      <4>5. Unsent(v) = 0
        BY <4>1 DEF OwnsDelivery, Unsent
      <4>6. CASE local[w].result = "failed"
        <5>1. w \in Sending(v)
          BY <3>1, <3>3, <4>1, <4>6 DEF Sending
        <5>2. Unsent(v)' <= 1
          BY DEF Unsent
        <5>3. shown'[v] + Unsent(v)' + duplicates[v] <= shown[v] + Unsent(v) + duplicates'[v] + 1
          BY <3>1, <4>5, <5>2, CountsTyped
        <5> QED BY <1>4, <4>4, <5>1, <5>3
      <4>7. CASE local[w].result # "failed"
        <5>1. Unsent(v)' = 0
          BY <4>1, <4>2, <4>7 DEF Unsent, DeliveryAfter, SendResults
        <5> QED BY <1>3, <3>1, <4>4, <4>5, <5>1, CountsTyped
      <4> QED BY <4>6, <4>7
    <3> QED BY <3>2, <3>3
  <2>9. CASE Accepts(w)
    <3>1. w \notin Sending(v)' /\ shown'[v] = shown[v] /\ duplicates'[v] = duplicates[v]
      BY <2>9 DEF Accepts, counts, Sending
    <3>2. inbox'[v] = inbox[v] \/
          (inbox[v] = NoRow /\ inbox'[v] = [NoRow EXCEPT !.processing = "accepted"])
      BY <2>9 DEF Accepts, AcceptRow
    <3>3. ASSUME inbox[v] = NoRow, inbox'[v] = [NoRow EXCEPT !.processing = "accepted"]
          PROVE  Goal
      <4>1. inbox[v].delivery = "none" /\ inbox'[v].delivery = "none"
        BY <3>3 DEF NoRow
      <4>2. Unsent(v)' = Unsent(v) /\ \A d \in Workers : ~OwnsDelivery(d, v)'
        BY <4>1 DEF Unsent, OwnsDelivery
      <4> QED BY <2>3, <3>1, <4>2
    <3> QED BY <2>2, <3>1, <3>2, <3>3
  <2>10. ASSUME NEW u \in Updates, Takes(w, u) PROVE Goal
    <3>1. w \notin Sending(v)' /\ shown'[v] = shown[v] /\ duplicates'[v] = duplicates[v]
      BY <2>10 DEF Takes, counts, Sending
    <3>2. CASE v # u
      BY <2>2, <2>10, <3>1, <3>2 DEF Takes, RowBecomes
    <3>3. CASE v = u
      <4>1. inbox'[v] = [inbox[v] EXCEPT !.processing = "processing", !.claimedBy = w]
        BY <2>10, <3>3 DEF Takes, RowBecomes
      <4>2. inbox'[v].delivery = inbox[v].delivery /\ inbox'[v].claimedBy = w
        BY <1>2, <4>1 DEF Row
      <4>3. Unsent(v)' = Unsent(v) /\ \A d \in Workers \ {w} : ~OwnsDelivery(d, v)'
        BY <4>2 DEF Unsent, OwnsDelivery
      <4> QED BY <2>3, <3>1, <4>3
    <3> QED BY <3>2, <3>3
  <2>11. ASSUME NEW u \in Updates, Delivers(w, u) PROVE Goal
    <3>1. /\ pc'[w] = "send" /\ local'[w].update = u /\ Deliverable(inbox[u])
          /\ shown'[v] = shown[v] /\ duplicates'[v] = duplicates[v]
      BY <2>11 DEF Delivers, counts
    <3>2. CASE v # u
      <4>1. w \notin Sending(v)' /\ inbox'[v] = inbox[v]
        BY <2>11, <3>1, <3>2 DEF Delivers, RowBecomes, Sending, Current
      <4> QED BY <2>2, <3>1, <4>1
    <3>3. CASE v = u
      <4>1. inbox'[v] = [inbox[v] EXCEPT !.delivery = "delivering",
                                         !.attempts = @ + 1, !.claimedBy = w]
        BY <2>11, <3>3 DEF Delivers, RowBecomes
      <4>2. inbox'[v].delivery = "delivering" /\ inbox'[v].claimedBy = w
        BY <1>2, <4>1 DEF Row
      <4>3. \A d \in Workers \ {w} : ~OwnsDelivery(d, v)'
        BY <4>2 DEF OwnsDelivery
      <4>4. Unsent(v) = 1 /\ Unsent(v)' = 0
        BY <3>1, <3>3, <4>2 DEF Unsent, Deliverable
      <4>5. Sending(v)' \subseteq Sending(v) \cup {w}
        BY <2>1, <4>3, OthersSend
      <4>6. shown'[v] + Unsent(v)' + duplicates[v] + 1 <= shown[v] + Unsent(v) + duplicates'[v]
        BY <3>1, <4>4, CountsTyped
      <4> QED BY <1>5, <4>5, <4>6
    <3> QED BY <3>2, <3>3
  <2>12. ASSUME NEW u \in Updates, Retries(w, u) PROVE Goal
    <3>1. w \notin Sending(v)' /\ shown'[v] = shown[v]
      BY <2>12 DEF Retries, Sending
    <3>2. CASE v # u
      <4>1. duplicates'[v] = duplicates[v] /\ inbox'[v] = inbox[v]
        BY <1>2, <2>12, <3>2 DEF Retries, RowBecomes
      <4> QED BY <2>2, <3>1, <4>1
    <3>3. CASE v = u
      <4>1. /\ duplicates'[v] = duplicates[v] + 1
            /\ inbox'[v] = [inbox[v] EXCEPT !.delivery = "pending"]
        BY <1>2, <2>12, <3>3 DEF Retries, RowBecomes
      <4>2. inbox'[v].delivery = "pending"
        BY <1>2, <4>1 DEF Row
      <4>3. Unsent(v)' = 1 /\ \A d \in Workers : ~OwnsDelivery(d, v)'
        BY <4>2 DEF Unsent, OwnsDelivery
      <4>4. Sending(v)' \subseteq Sending(v)
        BY <2>1, <3>1, <4>3, OthersSend
      <4> QED BY <1>3, <3>1, <4>1, <4>3, <4>4, CountsTyped
    <3> QED BY <3>2, <3>3
  <2> HIDE DEF Goal
  <2> QED BY <1>7, <2>4, <2>5, <2>6, <2>7, <2>8, <2>9, <2>10, <2>11, <2>12
<1>8. ASSUME NEW u \in Updates, RecoverProcessing(u) \/ RecoverDelivery(u) PROVE Goal
  <2>1. pc' = pc /\ local' = local /\ shown' = shown /\ duplicates' = duplicates
    BY <1>8 DEF RecoverProcessing, RecoverDelivery, history
  <2>2. ASSUME \A d \in Workers : OwnsDelivery(d, v)' => OwnsDelivery(d, v)
        PROVE  Sending(v)' \subseteq Sending(v)
    BY <2>1, <2>2 DEF Sending, Current
  <2>3. CASE v # u
    <3>1. inbox'[v] = inbox[v]
      BY <1>2, <1>8, <2>3, Typed DEF RecoverProcessing, RecoverDelivery
    <3> QED BY <1>3, <2>1, <2>2, <3>1, OwnersStay, CountsTyped
  <2>4. CASE v = u /\ RecoverProcessing(u)
    <3>1. inbox'[v] = [inbox[v] EXCEPT !.processing = "provider-failed", !.claimedBy = None]
      BY <2>4, Typed DEF RecoverProcessing
    <3>2. inbox'[v].delivery = inbox[v].delivery /\ inbox'[v].claimedBy = None
      BY <1>2, <3>1 DEF Row
    <3>3. Unsent(v)' = Unsent(v) /\ \A d \in Workers : ~OwnsDelivery(d, v)'
      BY <1>2, <3>2 DEF Unsent, OwnsDelivery
    <3> QED BY <1>3, <2>1, <2>2, <3>3, CountsTyped
  <2>5. CASE v = u /\ RecoverDelivery(u)
    <3>1. /\ inbox[v].delivery = "delivering"
          /\ inbox'[v] = [inbox[v] EXCEPT !.delivery = "unknown", !.claimedBy = None]
      BY <2>5, Typed DEF RecoverDelivery
    <3>2. inbox'[v].delivery = "unknown"
      BY <1>2, <3>1 DEF Row
    <3>3. Unsent(v)' = Unsent(v) /\ \A d \in Workers : ~OwnsDelivery(d, v)'
      BY <3>1, <3>2 DEF Unsent, OwnsDelivery
    <3> QED BY <1>3, <2>1, <2>2, <3>3, CountsTyped
  <2> QED BY <1>8, <2>3, <2>4, <2>5
<1> QED BY <1>6, <1>7, <1>8, Zenon DEF Move

-----------------------------------------------------------------------------
(* What is settled stays, and the theorems.                                *)

Settled(row, later) ==
    /\ row.processing = "discarded" \/ row.delivery = "delivered" => later = row
    /\ row.processing = "completed" => later.processing = "completed"

LEMMA SettledNext ==
    ASSUME TypeInv, RowsTrue, Move, NEW v \in Updates
    PROVE  Settled(inbox[v], inbox'[v])
<1>1. inbox[v] \in Row /\ RowTrue(inbox[v], shown[v], duplicates[v])
  BY Typed DEF RowsTrue
<1>2. ASSUME inbox'[v] = inbox[v] PROVE Settled(inbox[v], inbox'[v])
  BY <1>2 DEF Settled
<1>3. CASE Waits
  BY <1>2, <1>3 DEF Waits
<1>4. ASSUME NEW w \in Workers,
             \/ Aside(w) \/ Handles(w) \/ Records(w) \/ Sends(w) \/ Settles(w) \/ Accepts(w)
             \/ \E u \in Updates : Takes(w, u) \/ Delivers(w, u) \/ Retries(w, u)
      PROVE  Settled(inbox[v], inbox'[v])
  <2>1. CASE Aside(w) \/ Handles(w) \/ Sends(w)
    BY <1>2, <2>1 DEF Aside, Handles, Sends
  <2>2. CASE Records(w)
    <3>1. inbox'[v] = inbox[v] \/ inbox[v].processing = "processing"
      BY <2>2 DEF Records, RowBecomes, OwnsProcessing
    <3> QED BY <1>1, <1>2, <3>1 DEF Settled, RowTrue
  <2>3. CASE Settles(w)
    <3>1. CASE v # Current(w)
      BY <1>2, <2>3, <3>1 DEF Settles, RowBecomes
    <3>2. CASE v = Current(w)
      <4>1. /\ inbox[v].delivery = "delivering"
            /\ inbox'[v] = [inbox[v] EXCEPT !.delivery = DeliveryAfter(local[w].result),
                                            !.claimedBy = None]
        BY <2>3, <3>2 DEF Settles, RowBecomes, OwnsDelivery
      <4>2. inbox'[v].processing = inbox[v].processing
        BY <1>1, <4>1 DEF Row
      <4> QED BY <1>1, <4>1, <4>2 DEF Settled, RowTrue
    <3> QED BY <3>1, <3>2
  <2>4. CASE Accepts(w)
    <3>1. inbox'[v] = inbox[v] \/ inbox[v] = NoRow
      BY <2>4 DEF Accepts, AcceptRow
    <3> QED BY <1>2, <3>1 DEF Settled, NoRow
  <2>5. ASSUME NEW u \in Updates, Takes(w, u) PROVE Settled(inbox[v], inbox'[v])
    <3>1. inbox'[v] = inbox[v] \/ Processable(inbox[v])
      BY <2>5 DEF Takes, RowBecomes
    <3> QED BY <1>1, <1>2, <3>1 DEF Settled, RowTrue, Processable
  <2>6. ASSUME NEW u \in Updates, Delivers(w, u) \/ Retries(w, u)
        PROVE  Settled(inbox[v], inbox'[v])
    <3>1. CASE v # u
      BY <1>2, <2>6, <3>1 DEF Delivers, Retries, RowBecomes
    <3>2. CASE v = u
      <4>1. /\ inbox[v].processing = "completed" /\ inbox'[v].processing = "completed"
            /\ inbox[v].delivery # "delivered"
        BY <1>1, <2>6, <3>2 DEF Delivers, Retries, RowBecomes, Row, Deliverable
      <4> QED BY <4>1 DEF Settled
    <3> QED BY <3>1, <3>2
  <2> QED BY <1>4, <2>1, <2>2, <2>3, <2>4, <2>5, <2>6
<1>5. ASSUME NEW u \in Updates, RecoverProcessing(u) \/ RecoverDelivery(u)
      PROVE  Settled(inbox[v], inbox'[v])
  <2>1. CASE v # u
    BY <1>2, <1>5, <2>1, Typed DEF RecoverProcessing, RecoverDelivery
  <2>2. CASE v = u /\ RecoverProcessing(u)
    BY <1>1, <2>2 DEF RecoverProcessing, Settled, RowTrue
  <2>3. CASE v = u /\ RecoverDelivery(u)
    <3>1. /\ inbox[v].delivery = "delivering"
          /\ inbox'[v] = [inbox[v] EXCEPT !.delivery = "unknown", !.claimedBy = None]
      BY <2>3, Typed DEF RecoverDelivery
    <3>2. inbox'[v].processing = inbox[v].processing
      BY <1>1, <3>1 DEF Row
    <3> QED BY <1>1, <3>1, <3>2 DEF Settled, RowTrue
  <2> QED BY <1>5, <2>1, <2>2, <2>3
<1> QED BY <1>3, <1>4, <1>5, Zenon DEF Move

LEMMA IInvInit == Init => IInv
<1> SUFFICES ASSUME Init PROVE IInv
  OBVIOUS
<1>1. TypeInv
  BY TypeInit
<1>2. /\ inbox = [u \in Updates |-> NoRow] /\ pc = [w \in Workers |-> "start"]
      /\ work = [u \in Updates |-> 0] /\ shown = [u \in Updates |-> 0]
      /\ repeats = [u \in Updates |-> 0] /\ duplicates = [u \in Updates |-> 0]
      /\ offset = 0 /\ held = 1 .. arrived
      /\ arrived = IF SetupOffset = 0 THEN 0 ELSE SetupOffset - 1
  BY DEF Init
<1>3. RowsTrue
  BY <1>2, LimitAssumption DEF RowsTrue, RowTrue, NoRow
<1>4. SentWasSeen
  BY <1>2 DEF SentWasSeen
<1>5. ReceivedInOrder
  <2>1. Updates \subseteq Nat \ {0} /\ SetupOffset \in Nat
    BY Typed, <1>1, LimitAssumption
  <2> QED BY <1>2, <2>1 DEF ReceivedInOrder, Wanted
<1>6. WorkTokens
  <2>1. ASSUME NEW u \in Updates PROVE Within(work[u], Working(u), Unclaimed(u), repeats[u])
    <3>1. Working(u) = {} /\ Unclaimed(u) = 1 /\ work[u] = 0 /\ repeats[u] = 0
      BY <1>2 DEF Working, Unclaimed, NoRow
    <3> QED BY <3>1, FS_EmptySet DEF Within
  <2> QED BY <2>1 DEF WorkTokens
<1>7. ReplyTokens
  <2>1. ASSUME NEW u \in Updates PROVE Within(shown[u], Sending(u), Unsent(u), duplicates[u])
    <3>1. Sending(u) = {} /\ Unsent(u) = 1 /\ shown[u] = 0 /\ duplicates[u] = 0
      BY <1>2 DEF Sending, Unsent, NoRow
    <3> QED BY <3>1, FS_EmptySet DEF Within
  <2> QED BY <2>1 DEF ReplyTokens
<1> QED BY <1>1, <1>3, <1>4, <1>5, <1>6, <1>7 DEF IInv

LEMMA IInvNext == IInv /\ [Next]_vars => IInv'
<1> SUFFICES ASSUME IInv, [Next]_vars PROVE IInv'
  OBVIOUS
<1>1. TypeInv /\ RowsTrue /\ SentWasSeen /\ ReceivedInOrder /\ WorkTokens /\ ReplyTokens
  BY DEF IInv
<1>2. TypeInv' /\ Move
  BY <1>1, NextMoves
<1> QED BY <1>1, <1>2, RowsTrueNext, SentWasSeenNext, ReceivedNext, WorkTokensNext,
           ReplyTokensNext DEF IInv

\* The strengthened invariant holds, whatever pollers, users and operator do.
THEOREM IInvCorrect == Spec => []IInv
<1> QED BY IInvInit, IInvNext, PTL DEF Spec

\* What was run, what may still be run and what is open bound the turns.
LEMMA TokensBound ==
    ASSUME NEW spent \in Nat, NEW hands, NEW open \in Nat, NEW extra \in Nat,
           Within(spent, hands, open, extra)
    PROVE  spent <= 1 + extra
<1>1. IsFiniteSet(hands)
  BY DEF Within
<1>2. Cardinality(hands) \in Nat
  BY <1>1, FS_CardinalityType
<1> QED BY <1>2 DEF Within

LEMMA IInvImplies ==
    ASSUME IInv
    PROVE  /\ WorkNotRepeated /\ ReplyNotDuplicated /\ NoUpdateLost
           /\ TypeOK /\ DeliveredWasSeen /\ AttemptsBounded
<1> USE DEF IInv
<1>1. \A u \in Updates : work[u] \in Nat /\ shown[u] \in Nat
                         /\ repeats[u] \in Nat /\ duplicates[u] \in Nat
  BY Typed
<1>2. \A u \in Updates : Unclaimed(u) \in Nat /\ Unsent(u) \in Nat
  BY DEF Unclaimed, Unsent
<1>3. WorkNotRepeated
  BY <1>1, <1>2, TokensBound DEF WorkTokens, WorkNotRepeated
<1>4. ReplyNotDuplicated
  BY <1>1, <1>2, TokensBound DEF ReplyTokens, ReplyNotDuplicated
<1>5. NoUpdateLost
  BY DEF ReceivedInOrder, Wanted, Known, NoUpdateLost
<1>6. DeliveredWasSeen /\ AttemptsBounded
  BY DEF RowsTrue, RowTrue, DeliveredWasSeen, AttemptsBounded
<1> QED BY <1>3, <1>4, <1>5, <1>6 DEF TypeInv

\* A completed turn is not run again: once, and once more for each recovery
\* that accepted a repetition (claim_processing, _finish_claim).
THEOREM WorkNotRepeatedCorrect == Spec => []WorkNotRepeated
<1> QED BY IInvCorrect, IInvImplies, PTL

\* The chat sees a reply once, and once more for each retry that accepted a
\* duplicate (claim_delivery, prepare_unknown_retry).
THEOREM ReplyNotDuplicatedCorrect == Spec => []ReplyNotDuplicated
<1> QED BY IInvCorrect, IInvImplies, PTL

\* Telegram forgets an update only when it is in the inbox (accept_updates).
THEOREM NoUpdateLostCorrect == Spec => []NoUpdateLost
<1> QED BY IInvCorrect, IInvImplies, PTL

\* The tables are true of what the chat saw, the retry limit holds, and what is
\* settled stays.
THEOREM TablesAreTrueCorrect == Spec => TablesAreTrue
<1>1. IInv /\ [Next]_vars =>
        [\A u \in Updates :
          /\ inbox[u].processing = "discarded" \/ inbox[u].delivery = "delivered"
                => inbox'[u] = inbox[u]
          /\ inbox[u].processing = "completed" => inbox'[u].processing = "completed"]_vars
  <2> SUFFICES ASSUME IInv, [Next]_vars, NEW u \in Updates
               PROVE  /\ inbox[u].processing = "discarded" \/ inbox[u].delivery = "delivered"
                            => inbox'[u] = inbox[u]
                      /\ inbox[u].processing = "completed" => inbox'[u].processing = "completed"
    OBVIOUS
  <2>1. Settled(inbox[u], inbox'[u])
    BY NextMoves, SettledNext DEF IInv
  <2> QED BY <2>1 DEF Settled
<1>2. IInv => TypeOK /\ DeliveredWasSeen /\ AttemptsBounded
  BY IInvImplies
<1> QED BY <1>1, <1>2, IInvCorrect, PTL DEF Spec, TablesAreTrue, SettledStays
=============================================================================
