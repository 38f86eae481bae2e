-------------------------- MODULE ConversationTurns --------------------------
(***************************************************************************)
(* The turns of channel conversations (interfaces.py, interface_store.py): *)
(* reserved turns and the transcript, kept in one SQLite database and used *)
(* by several processes at once.  Sending a message is not one             *)
(* transaction: the revision is read (or comes from the page the user      *)
(* looks at), the history is loaded, a turn is reserved, the model runs,   *)
(* its run is recorded in another store, and the turn is completed or      *)
(* failed.  Which session is selected is ChannelSessions.                  *)
(*                                                                         *)
(* Speech is abstracted to who produced it: an entry of the transcript     *)
(* names the message or the post it comes from.  The turn identifier of a  *)
(* message (a fresh uuid) is the message itself.                           *)
(***************************************************************************)
EXTENDS Integers, Sequences, FiniteSets

CONSTANTS
    Messages,   \* calls of send_channel_message, one turn each
    Posts,      \* calls that append without a model: exchanges, deliveries
    Created,    \* sessions that exist already
    Chats,      \* Telegram chats, whose session the first write creates
    None        \* no session

Sids == Created \cup Chats

VARIABLES
    revision,   \* interface_sessions.revision, 0 when there is no row
    transcript, \* interface_session_messages of every session, by position
    turn,       \* interface_turns: [state, sid, pos] of every message, and the
                \* revision it was reserved from, which the code does not keep
    activity,   \* interface_activity of every session
    runs,       \* model runs on record, by the message they answered
    returning,  \* the returning_user projection
    send,       \* where every send_channel_message is, and what it has read
    post        \* where every append is, and the revision it has read

store == <<revision, transcript, turn, activity, runs, returning>>
vars  == <<store, send, post>>

Idle    == [pc |-> "idle", sid |-> None, expected |-> 0, history |-> <<>>,
            pending |-> {}, base |-> <<>>]
NoTurn  == [state |-> "none", sid |-> None, pos |-> 0, from |-> 0]
\* A call that is over keeps nothing but where it worked.
Over(m, outcome) == [send EXCEPT ![m] = [Idle EXCEPT !.pc = outcome, !.sid = send[m].sid]]
Live    == {m \in Messages : send[m].pc \notin {"idle", "told", "refused", "dead"}}

User(who)      == <<"user", who>>
Assistant(who) == <<"assistant", who>>
Exchange(who)  == <<User(who), Assistant(who)>>

TypeOK ==
    /\ revision \in [Sids -> Nat]
    /\ transcript \in [Sids -> Seq({"user", "assistant"} \X (Messages \cup Posts))]
    /\ turn \in [Messages -> [state : {"none", "pending", "completed", "failed"},
                              sid : Sids \cup {None}, pos : Nat, from : Nat]]
    /\ activity \in [Sids -> {"idle", "listening", "reasoning"}]
    /\ runs \subseteq Messages
    /\ returning \in BOOLEAN
    /\ DOMAIN send = Messages /\ DOMAIN post = Posts

Init ==
    /\ revision = [s \in Sids |-> IF s \in Created THEN 1 ELSE 0]
    /\ transcript = [s \in Sids |-> <<>>]
    /\ turn = [m \in Messages |-> NoTurn]
    /\ activity = [s \in Sids |-> "idle"]
    /\ runs = {}
    /\ returning = FALSE
    /\ send = [m \in Messages |-> Idle]
    /\ post = [p \in Posts |-> [pc |-> "idle", sid |-> None, expected |-> 0]]

-----------------------------------------------------------------------------
(* Rows of a session, as the transactions below change them. *)

\* The revision raised without the comparison (a mutant).
AdvanceAnyway(s, expected) == revision' = [revision EXCEPT ![s] = @ + 1]

\* The compare-and-set every writer of a session goes through: it creates the
\* row of a session that has none, and otherwise raises its revision by one.
AdvanceSession(s, expected) ==
    /\ revision[s] = expected
    /\ revision' = [revision EXCEPT ![s] = @ + 1]

AppendEntries(s, entries) ==
    transcript' = [transcript EXCEPT ![s] = @ \o entries]

NextPosition(s) == Cardinality({m \in Messages : turn[m].sid = s})

ReserveTurn(m, s, expected) ==
    /\ AdvanceSession(s, expected)
    /\ turn' = [turn EXCEPT ![m] =
                  [state |-> "pending", sid |-> s, pos |-> NextPosition(s),
                   from |-> expected]]

\* Only a pending turn can be completed or failed; failing another changes nothing.
CompleteTurn(m, s) ==
    /\ turn[m].state = "pending"
    /\ turn' = [turn EXCEPT ![m].state = "completed"]
    /\ AppendEntries(s, Exchange(m))
    /\ returning' = TRUE

\* A turn failed whatever its state (a mutant).
FailAnyTurn(m) ==
    turn' = IF turn[m].state # "none" THEN [turn EXCEPT ![m].state = "failed"] ELSE turn

FailTurn(m) ==
    turn' = IF turn[m].state = "pending"
            THEN [turn EXCEPT ![m].state = "failed"] ELSE turn

-----------------------------------------------------------------------------
(* send_channel_message: m is one call. *)

\* expected_session_revision: read here, or shown by the page before the post.
\* "pending" is not kept by the code: the turns still open at that moment.
ReadRevision(m, s) ==
    /\ send[m].pc = "idle"
    /\ send' = [send EXCEPT ![m].pc = "known", ![m].sid = s, ![m].expected = revision[s],
                  ![m].pending = {o \in Messages : /\ turn[o].sid = s
                                                   /\ turn[o].state = "pending"}]
    /\ UNCHANGED <<store, post>>

\* The whole state is loaded; the history is the transcript of that moment.
LoadHistory(m) ==
    /\ send[m].pc = "known"
    /\ send' = [send EXCEPT ![m].pc = "loaded", ![m].history = transcript[send[m].sid]]
    /\ activity' = [activity EXCEPT ![send[m].sid] = "listening"]
    /\ UNCHANGED <<revision, transcript, turn, runs,
                   returning, post>>

\* The except branch: fail the turn, whatever that does, go idle, raise.
Abandon(m, outcome) ==
    /\ FailTurn(m)
    /\ activity' = [activity EXCEPT ![send[m].sid] = "idle"]
    /\ send' = Over(m, outcome)

\* The placement is blocked: no turn was reserved.
Blocked(m) ==
    /\ send[m].pc = "loaded"
    /\ Abandon(m, "refused")
    /\ UNCHANGED <<revision, transcript, runs, returning,
                   post>>

\* reserve_turn; "base" is not kept by the code: the transcript at that moment.
Reserve(m) ==
    /\ send[m].pc = "loaded"
    /\ ReserveTurn(m, send[m].sid, send[m].expected)
    /\ activity' = [activity EXCEPT ![send[m].sid] = "reasoning"]
    /\ send' = [send EXCEPT ![m].pc = "asked", ![m].base = transcript[send[m].sid]]
    /\ UNCHANGED <<transcript, runs, returning, post>>

\* InterfaceSessionConflict: fail_turn finds no such turn and is ignored.
Conflict(m) ==
    /\ send[m].pc = "loaded"
    /\ revision[send[m].sid] # send[m].expected
    /\ Abandon(m, "refused")
    /\ UNCHANGED <<revision, transcript, runs, returning,
                   post>>

\* The responder's answer, its model run saved before it returns.
Answer(m) ==
    /\ send[m].pc = "asked"
    /\ runs' = runs \cup {m}
    /\ send' = [send EXCEPT ![m].pc = "answered"]
    /\ UNCHANGED <<revision, transcript, turn, activity,
                   returning, post>>

\* The responder raises: a blocked grant leaves no run, a provider failure or
\* an empty reply leaves a failed one.
NoAnswer(m) ==
    /\ send[m].pc = "asked"
    /\ runs' \in {runs, runs \cup {m}}
    /\ Abandon(m, "refused")
    /\ UNCHANGED <<revision, transcript, returning, post>>

\* complete_turn, then the session is idle again and the reply is returned.
Complete(m) ==
    /\ send[m].pc = "answered"
    /\ CompleteTurn(m, send[m].sid)
    /\ send' = [send EXCEPT ![m].pc = "stored"]
    /\ UNCHANGED <<revision, activity, runs, post>>

Tell(m) ==
    /\ send[m].pc = "stored"
    /\ activity' = [activity EXCEPT ![send[m].sid] = "idle"]
    /\ send' = Over(m, "told")
    /\ UNCHANGED <<revision, transcript, turn, runs,
                   returning, post>>

\* A write after the commit fails: the caller sees an error although the turn
\* is complete; the failure of the turn itself is attempted and refused.
FailAfterCommit(m) ==
    /\ send[m].pc = "stored"
    /\ Abandon(m, "refused")
    /\ UNCHANGED <<revision, transcript, runs, returning,
                   post>>

\* The process dies; the store stays as it is and nothing resumes the turn.
Die(m) ==
    /\ m \in Live
    /\ send' = Over(m, "dead")
    /\ UNCHANGED <<store, post>>

Step(m) ==
    \/ LoadHistory(m)
    \/ Blocked(m) \/ Reserve(m) \/ Conflict(m) \/ Answer(m) \/ NoAnswer(m)
    \/ Complete(m) \/ Tell(m) \/ FailAfterCommit(m)

-----------------------------------------------------------------------------
(* record_channel_exchange and deliver_routine: the revision is read in one *)
(* transaction and compared in the next. *)

ReadForPost(p, s) ==
    /\ post[p].pc = "idle"
    /\ post' = [post EXCEPT ![p] = [pc |-> "read", sid |-> s, expected |-> revision[s]]]
    /\ UNCHANGED <<store, send>>

AppendMessages(p, entries, exchange) ==
    /\ post[p].pc = "read"
    /\ AdvanceSession(post[p].sid, post[p].expected)
    /\ AppendEntries(post[p].sid, entries)
    /\ returning' = (returning \/ exchange)
    /\ post' = [post EXCEPT ![p].pc = "done"]
    /\ UNCHANGED <<turn, activity, runs, send>>

RecordExchange(p) == AppendMessages(p, Exchange(p), TRUE)
DeliverRoutine(p) == AppendMessages(p, <<Assistant(p)>>, FALSE)

PostConflict(p) ==
    /\ post[p].pc = "read"
    /\ revision[post[p].sid] # post[p].expected
    /\ post' = [post EXCEPT ![p].pc = "refused"]
    /\ UNCHANGED <<store, send>>

-----------------------------------------------------------------------------
Next ==
    \/ \E m \in Messages : Step(m) \/ Die(m) \/ \E s \in Sids : ReadRevision(m, s)
    \/ \E p \in Posts : \/ RecordExchange(p) \/ DeliverRoutine(p) \/ PostConflict(p)
                        \/ \E s \in Sids : ReadForPost(p, s)

Spec == Init /\ [][Next]_vars

-----------------------------------------------------------------------------
\* Where a transcript has what a message or a post said.
Said(s, who) == {i \in DOMAIN transcript[s] : transcript[s][i][2] = who}

\* A completed turn's exchange stands in its own session exactly once, user and
\* assistant side by side; a turn that is pending or failed is in no transcript;
\* a completed turn has its model run on record.
TranscriptTellsTheTurns ==
    \A m \in Messages :
      IF turn[m].state = "completed"
      THEN /\ m \in runs
           /\ \E i \in DOMAIN transcript[turn[m].sid] :
                /\ Said(turn[m].sid, m) = {i, i + 1}
                /\ transcript[turn[m].sid][i] = User(m)
                /\ transcript[turn[m].sid][i + 1] = Assistant(m)
           /\ \A s \in Sids \ {turn[m].sid} : Said(s, m) = {}
      ELSE \A s \in Sids : Said(s, m) = {}

\* What the model is given lacks nothing that was said before its turn was
\* reserved, except the exchanges of turns that were still open when the
\* revision was read: complete_turn does not raise the revision.
OnlyOpenTurnsAreMissing ==
    \A m \in Messages : send[m].pc \in {"asked", "answered"} =>
      /\ send[m].history = SubSeq(send[m].base, 1, Len(send[m].history))
      /\ \A i \in (Len(send[m].history) + 1)..Len(send[m].base) :
           send[m].base[i][2] \in send[m].pending

\* Turns of a session are numbered in the order of their reservations, without
\* a gap or a repetition, each from a revision of its own.
TurnsAreSerialised ==
    \A m, o \in Messages :
      /\ turn[m].state # "none" => turn[m].pos < NextPosition(turn[m].sid)
      /\ (m # o /\ turn[m].state # "none" /\ turn[o].sid = turn[m].sid) =>
           /\ turn[m].pos # turn[o].pos
           /\ turn[m].pos < turn[o].pos => turn[m].from < turn[o].from

\* A session is shown as busy only while somebody works in it or somebody died
\* in it.
QuietWhenDone ==
    \A s \in Sids : activity[s] # "idle" =>
      \E m \in Messages : send[m].sid = s /\ (m \in Live \/ send[m].pc = "dead")

\* A settled turn never changes and a transcript only grows at its end.
SettledStays ==
    [][/\ \A m \in Messages : turn[m].state \in {"completed", "failed"} => turn'[m] = turn[m]
       /\ \A s \in Sids : SubSeq(transcript'[s], 1, Len(transcript[s])) = transcript[s]]_vars
==============================================================================
