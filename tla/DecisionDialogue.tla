-------------------------- MODULE DecisionDialogue --------------------------
(***************************************************************************)
(* web.py, _issue_presentation to _apply_decision_reply, over              *)
(* decision_conversation.py: a message typed into the conversation may     *)
(* confirm or correct the one open proposal.  What was shown is kept in    *)
(* the web server's memory under a token the page carries; the decisions   *)
(* and the operations are stored, and other programs change them.          *)
(*                                                                         *)
(* The server handles one request at a time, in the steps below; between   *)
(* them another program acts.  A text stands for what                      *)
(* interpret_decision_message makes of it.  The steps inside               *)
(* confirm_reckoning and correct_personal_record are in                    *)
(* DecisionOperations.                                                     *)
(***************************************************************************)
EXTENDS Naturals, FiniteSets

CONSTANTS
    Decisions,
    Ops,            \* operation identifiers of composed messages
    Tokens,         \* presentation tokens the server may draw
    Receipts,       \* how many a session keeps (8 in the code)
    MaxVersion,     \* bound of the model
    Nothing

VARIABLES
    decision,       \* the stored decisions: version and status
    operation,      \* the stored operations, none under no identifier
    receipt,        \* in memory: what each token showed
    request,        \* the message being handled
    at,             \* where its handling is
    shown,          \* history: revisions the session was shown
    effects         \* history: changes made by conversation

dialogue == <<decision, operation, receipt, request, at, shown, effects>>

Messages == {"confirm", "correct", "vague", "other"}
None == [kind |-> "none", decision |-> Nothing, version |-> 0, text |-> "other"]
Kinds == {"none", "start", "confirm", "correct"}
Operations == [kind : Kinds, decision : Decisions \cup {Nothing},
               version : 0..MaxVersion, text : Messages]

TypeOK ==
    /\ decision \in [Decisions -> [version : 0..MaxVersion,
                                   status : {"none", "proposed", "confirmed"}]]
    /\ operation \in [Ops \cup {Nothing} -> Operations]
    /\ receipt \in [Tokens -> [state : {"unused", "live", "gone"},
                               decision : Decisions \cup {Nothing}, version : 0..MaxVersion]]
    /\ request \in [op : Ops \cup {Nothing}, text : Messages,
                    token : Tokens \cup {Nothing}, reply : Operations]
    /\ at \in {"idle", "received", "applying", "noting", "model"}
    /\ shown \subseteq Decisions \X (1..MaxVersion)
    /\ effects \subseteq [op : Ops, change : Operations]

NoRequest == [op |-> Nothing, text |-> "other", token |-> Nothing, reply |-> None]

Init ==
    /\ decision = [d \in Decisions |-> [version |-> 0, status |-> "none"]]
    /\ operation = [o \in Ops \cup {Nothing} |-> None]
    /\ receipt = [t \in Tokens |-> [state |-> "unused", decision |-> Nothing, version |-> 0]]
    /\ request = NoRequest /\ at = "idle"
    /\ shown = {} /\ effects = {}

Proposed == {d \in Decisions : decision[d].status = "proposed"}
Live == {t \in Tokens : receipt[t].state = "live"}

-----------------------------------------------------------------------------
(* Other programs, and the pages of the decision itself.                   *)

\* start_reckoning, from the form with its operation identifier or elsewhere.
Start(d, o) ==
    /\ decision[d].status = "none"
    /\ decision' = [decision EXCEPT ![d] = [version |-> 1, status |-> "proposed"]]
    /\ IF o = Nothing THEN UNCHANGED operation
       ELSE /\ operation[o] = None
            /\ operation' = [operation EXCEPT
                  ![o] = [kind |-> "start", decision |-> d, version |-> 0, text |-> "other"]]
    /\ UNCHANGED <<receipt, request, at, shown, effects>>

Changed(d, kind) ==
    [version |-> decision[d].version + 1,
     status |-> IF kind = "confirm" THEN "confirmed" ELSE decision[d].status]

Elsewhere(d, kind) ==
    /\ d \in Proposed /\ decision[d].version < MaxVersion
    /\ decision' = [decision EXCEPT ![d] = Changed(d, kind)]
    /\ UNCHANGED <<operation, receipt, request, at, shown, effects>>

-----------------------------------------------------------------------------
(* What the session is shown.                                              *)

\* _active_proposal_state and _issue_presentation: the page of a single
\* proposal carries a new token; beyond the limit the oldest receipt goes.
Render(t) ==
    /\ at = "idle" /\ receipt[t].state = "unused"
    /\ \E d \in Proposed :
          /\ Proposed = {d}
          /\ shown' = shown \cup {<<d, decision[d].version>>}
          /\ \E out \in SUBSET Live :
                /\ Cardinality(out) = (IF Cardinality(Live) >= Receipts THEN 1 ELSE 0)
                /\ receipt' = [u \in Tokens |->
                      IF u = t THEN [state |-> "live", decision |-> d,
                                     version |-> decision[d].version]
                      ELSE IF u \in out THEN [receipt[u] EXCEPT !.state = "gone"]
                      ELSE receipt[u]]
    /\ UNCHANGED <<decision, operation, request, at, effects>>

\* _PRESENTATION_TTL_SECONDS.
Expire(t) ==
    /\ t \in Live
    /\ receipt' = [receipt EXCEPT ![t].state = "gone"]
    /\ UNCHANGED <<decision, operation, request, at, shown, effects>>

\* Receipts and the request under way do not outlive the process.
Restart ==
    /\ receipt' = [t \in Tokens |-> IF t \in Live THEN [receipt[t] EXCEPT !.state = "gone"]
                                    ELSE receipt[t]]
    /\ request' = NoRequest /\ at' = "idle"
    /\ UNCHANGED <<decision, operation, shown, effects>>

-----------------------------------------------------------------------------
(* One request.                                                            *)

\* Only an open proposal's operation is looked for (a mutant).
ReplayedIfOpen(o) ==
    /\ operation[o].kind \in {"confirm", "correct"}
    /\ operation[o].decision \in Proposed

\* _replay_completed_decision_operation: what completed is answered first.
Replayed(o) == operation[o].kind \in {"confirm", "correct"}

Go(where, o, text, token, reply) ==
    /\ at' = where
    /\ request' = IF where = "idle" THEN NoRequest
                  ELSE [op |-> o, text |-> text, token |-> token, reply |-> reply]
    /\ UNCHANGED <<decision, operation, receipt, shown, effects>>

\* Another text, or a token of another revision, is a conflict.
Receive(o, text, token) ==
    /\ at = "idle"
    /\ token # Nothing => receipt[token].state # "unused"
    /\ IF ~Replayed(o) THEN Go("received", o, text, token, None)
       ELSE IF \/ operation[o].text # text
               \/ /\ token \in Live
                  /\ <<receipt[token].decision, receipt[token].version>>
                        # <<operation[o].decision, operation[o].version>>
            THEN Go("idle", o, text, token, None)
       ELSE Go("applying", o, text, token, operation[o])

\* The proposal there is now (a mutant).
BoundToCurrent(token, d, o) ==
    IF token \notin Live THEN 0
    ELSE decision[d].version

\* The revision a token stands for: the current one of the one proposal, or
\* the one it showed when this operation already completed; 0 for neither.
Bound(token, d, o) ==
    IF token \notin Live THEN 0
    ELSE IF /\ receipt[token].decision = d
            /\ receipt[token].version = decision[d].version
         THEN decision[d].version
    ELSE IF operation[o].decision = d THEN receipt[token].version
    ELSE 0

Instructs(text) == text \in {"confirm", "correct"}

\* _interpret_decision_reply: no proposal, or words about something else, is
\* a turn of the conversation; several proposals, a token that shows nothing
\* and vague words are answered with a question; without an operation
\* identifier the message is refused.
Interpret ==
    LET o == request.op
        text == request.text
        token == request.token
    IN  /\ at = "received"
        /\ IF Proposed = {} THEN Go("model", o, text, token, None)
           ELSE IF Cardinality(Proposed) > 1 THEN Go("noting", o, text, token, None)
           ELSE \E d \in Proposed :
                  LET version == Bound(token, d, o)
                  IN  IF token # Nothing /\ version = 0 THEN Go("noting", o, text, token, None)
                      ELSE IF text = "other" THEN Go("model", o, text, token, None)
                      ELSE IF ~Instructs(text) \/ version = 0
                           THEN Go("noting", o, text, token, None)
                      ELSE IF o = Nothing THEN Go("idle", o, text, token, None)
                      ELSE Go("applying", o, text, token,
                              [kind |-> text, decision |-> d, version |-> version, text |-> text])

\* _apply_decision_reply: the operation is replayed, in conflict, or done; a
\* confirmed decision is confirmed again without a change.
Apply ==
    LET o == request.op
        reply == request.reply
        now == decision[reply.decision]
        complete == operation' = [operation EXCEPT ![o] = reply]
        refused == at' = "idle" /\ request' = NoRequest /\ UNCHANGED operation
        accepted == at' = "noting" /\ UNCHANGED request
    IN  /\ at = "applying"
        /\ UNCHANGED <<receipt, shown>>
        /\ IF operation[o] # None
           THEN /\ UNCHANGED <<decision, effects>>
                /\ IF operation[o] = reply THEN accepted /\ UNCHANGED operation ELSE refused
           ELSE IF \/ now.version # reply.version
                   \/ now.status = "confirmed" /\ reply.kind = "correct"
           THEN UNCHANGED <<decision, effects>> /\ refused
           ELSE IF now.status = "confirmed"
           THEN UNCHANGED <<decision, effects>> /\ accepted /\ complete
           ELSE /\ now.version < MaxVersion
                /\ decision' = [decision EXCEPT ![reply.decision] =
                                   Changed(reply.decision, reply.kind)]
                /\ effects' = effects \cup {[op |-> o, change |-> reply]}
                /\ accepted /\ complete

\* record_channel_exchange: the message and the answer (ConversationTurns).
Note ==
    /\ at = "noting"
    /\ at' = "idle" /\ request' = NoRequest
    /\ UNCHANGED <<decision, operation, receipt, shown, effects>>

\* send_channel_message: the message becomes a turn (ConversationTurns).
TakeTurn ==
    /\ at = "model"
    /\ at' = "idle" /\ request' = NoRequest
    /\ UNCHANGED <<decision, operation, receipt, shown, effects>>

Next ==
    \/ \E d \in Decisions :
          \/ \E o \in Ops \cup {Nothing} : Start(d, o)
          \/ \E kind \in {"confirm", "correct"} : Elsewhere(d, kind)
    \/ \E t \in Tokens : Render(t) \/ Expire(t)
    \/ Restart
    \/ \E o \in Ops \cup {Nothing}, text \in Messages, token \in Tokens \cup {Nothing} :
          Receive(o, text, token)
    \/ Interpret \/ Apply \/ Note \/ TakeTurn

Spec == Init /\ [][Next]_dialogue

-----------------------------------------------------------------------------

(* Whatever other programs do between the page, the message and the        *)
(* change, and whatever the server forgets, a decision is changed by       *)
(* conversation only at a revision this session was shown, and once per    *)
(* message (_interpret_decision_reply and _apply_decision_reply).          *)
ConsentWasShown ==
    /\ \A e \in effects : <<e.change.decision, e.change.version>> \in shown
    /\ \A e, f \in effects : e.op = f.op => e = f

(* A message that changed a decision stays that: sent again, after a       *)
(* restart too, it is answered from the stored operation and never becomes *)
(* a turn of the conversation (_replay_completed_decision_operation).      *)
RetryIsNoTurn ==
    at = "model" /\ request.op # Nothing => \A e \in effects : e.op # request.op
=============================================================================
