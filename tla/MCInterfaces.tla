---------------------------- MODULE MCInterfaces ----------------------------
(***************************************************************************)
(* Small instances of the components between a person and the stores: the  *)
(* turns and sessions of the channels, decisions made by conversation, the *)
(* scope of what a model is sent, the personal context, one run of a       *)
(* model, and the pairing of a Telegram chat.  They share no state, and a  *)
(* behaviour is one of the component "subject" names: the others stand     *)
(* still.  The instance is as large as the sum of theirs.                  *)
(***************************************************************************)
EXTENDS Integers, Sequences, FiniteSets, TLC

CONSTANTS
    Subjects,       \* the components this instance checks
    Nothing,
    Sent, Posts, Created, Direct,               \* ConversationTurns
    Fresh, Callers, MaxRev,                     \* ChannelSessions
    Decisions, Ops, Tokens, Receipts,           \* DecisionDialogue
    MaxVersion,                                 \* and PersonalContext
    Cloud, Local, Categories, Request, Editors, Starters, Runs, MaxGrants,
    Records, Expiring, Keepers,                 \* PersonalContext
    MaxRetries,                                 \* ModelRuns
    Bots, Private, Groups, LastUpdate, Polls    \* TelegramSetup

ASSUME BoundsAssumption ==
    /\ MaxRev \in Nat /\ Receipts \in Nat /\ MaxVersion \in Nat \ {0}
    /\ MaxGrants \in Nat \ {0} /\ MaxRetries \in Nat /\ LastUpdate \in Nat /\ Polls \in Nat
ASSUME ExpiringAssumption == Expiring \subseteq Records
ASSUME TurnsAssumption ==
    IsFiniteSet(Sent) /\ Sent \cap Posts = {} /\ Nothing \notin Created \cup Direct
ASSUME NothingAssumption ==
    /\ Nothing \notin Decisions \cup Ops
    /\ Nothing \notin {"model", "replacement", "emergency", "uncertain", "raised"}
    /\ Nothing \notin [status : {"succeeded", "limited", "failed"}, calls : 0..MaxRetries + 1]

VARIABLES
    subject,
    revision, transcript, turn, activity, runs, returning, send, post,
    sessions, selected, page, caller,
    decision, operation, receipt, request, at, shown, effects,
    file, editor, starter, run, chosen,
    current, suppressed, keeper, approved,
    task, stage, attempts, content, reported, record, left, gained, reply, outcome,
    sent, held, pairing, settings, poller, offset, accepted, turns, paired

turnsVars    == <<revision, transcript, turn, activity, runs, returning, send, post>>
sessionsVars == <<sessions, selected, page, caller>>
dialogueVars == <<decision, operation, receipt, request, at, shown, effects>>
grantsVars   == <<file, editor, starter, run, chosen>>
contextVars  == <<current, suppressed, keeper, approved>>
runsVars     == <<task, stage, attempts, content, reported, record, left, gained,
                  reply, outcome>>
pairingVars  == <<sent, held, pairing, settings, poller, offset, accepted, turns, paired>>
vars == <<subject, turnsVars, sessionsVars, dialogueVars, grantsVars, contextVars,
          runsVars, pairingVars>>

T == INSTANCE ConversationTurns WITH Messages <- Sent, Chats <- Direct, None <- Nothing
S == INSTANCE ChannelSessions WITH Sids <- Fresh, None <- Nothing
D == INSTANCE DecisionDialogue
G == INSTANCE ProcessingGrants WITH MaxVersion <- MaxGrants
C == INSTANCE PersonalContext WITH Callers <- Keepers, caller <- keeper
R == INSTANCE ModelRuns WITH transcript <- gained
P == INSTANCE TelegramSetup

\* One initial state of a model run where it is not the subject.
AnyTask == CHOOSE t \in R!Tasks : t.kind = "reckoning"

Init ==
    /\ subject \in Subjects
    /\ T!Init /\ S!Init /\ D!Init /\ G!Init /\ C!Init /\ P!Init
    /\ R!Init
    /\ subject # "run" => task = AnyTask

Only(name) ==
    /\ IF name = "turns" THEN TRUE ELSE UNCHANGED turnsVars
    /\ IF name = "sessions" THEN TRUE ELSE UNCHANGED sessionsVars
    /\ IF name = "dialogue" THEN TRUE ELSE UNCHANGED dialogueVars
    /\ IF name = "grants" THEN TRUE ELSE UNCHANGED grantsVars
    /\ IF name = "context" THEN TRUE ELSE UNCHANGED contextVars
    /\ IF name = "run" THEN TRUE ELSE UNCHANGED runsVars
    /\ IF name = "pairing" THEN TRUE ELSE UNCHANGED pairingVars
    /\ UNCHANGED subject

Next ==
    \/ subject = "turns" /\ T!Next /\ Only("turns")
    \/ subject = "sessions" /\ S!Next /\ Only("sessions")
    \/ subject = "dialogue" /\ D!Next /\ Only("dialogue")
    \/ subject = "grants" /\ G!Next /\ Only("grants")
    \/ subject = "context" /\ C!Next /\ Only("context")
    \/ subject = "run" /\ R!Next /\ Only("run")
    \/ subject = "pairing" /\ P!Next /\ Only("pairing")

Spec == Init /\ [][Next]_vars

\* Decisions, tokens and the operations on the context are interchangeable.
Symmetry == Permutations(Decisions) \cup Permutations(Tokens) \cup Permutations(Keepers)

-----------------------------------------------------------------------------

(* Whatever calls, conflicts, failures and deaths overlap in a session, its *)
(* transcript holds exactly the exchanges of its completed turns, the model *)
(* missed nothing but turns still open when its revision was read, turns    *)
(* are numbered in the order of their revisions, and a session that is busy *)
(* has somebody at work or dead in it.  A turn that completed or failed     *)
(* stays so, and what a transcript holds is never changed, by late answers  *)
(* and late failures either (send_channel_message, complete_turn and        *)
(* fail_turn).                                                              *)
TurnsAndTranscriptAgree ==
    /\ [](/\ T!TypeOK /\ T!TranscriptTellsTheTurns /\ T!OnlyOpenTurnsAreMissing
          /\ T!TurnsAreSerialised /\ T!QuietWhenDone)
    /\ T!SettledStays

(* A page that was rendered undisturbed names the selection it shows by its *)
(* revision, and every session in use exists (select_session).              *)
PageIdentifiesSelection == S!PageIdentifiesSelection

(* A message changes a decision once, at a revision its session was shown,  *)
(* and is never taken for a turn of the conversation when it comes again    *)
(* (_interpret_decision_reply and _replay_completed_decision_operation).    *)
ConversationDecidesWhatWasShown ==
    D!TypeOK /\ D!ConsentWasShown /\ D!RetryIsNoTurn

(* The scope a person saved stays in force whatever pages and starts race   *)
(* with it, and a run sends nothing withdrawn before it began (save,        *)
(* ensure_initial_processing_grant and evaluate).                           *)
ScopesAreTheUsers == G!TypeOK /\ G!UsersScopeInForce /\ G!SentWasGranted

(* A deleted record has no version again though an operation read it        *)
(* before, and whatever may be retrieved was approved by the user (delete   *)
(* and the transitions of personal_context.py).                             *)
ContextIsTheUsers == C!DeletedForGood /\ C!RetrievableWasApproved

(* No current danger reaches a provider, nothing is spoken past a boundary, *)
(* and no word of an answer gets out without a record that counts every     *)
(* request (_respond_to_message).                                           *)
AnswersAreSafeAndRecorded == R!TypeOK /\ R!SpeechIsSafe /\ R!AnswerIsOnRecord

(* Only private chats that gave the code of a pairing are answered          *)
(* (pair_telegram_owner and _authorize_chat).                               *)
OwnersAlone == P!TypeOK /\ P!OwnersAlone

(* The first poll after a pairing begins with the first message the pairing *)
(* did not see (tests/test_telegram_runtime.py).                            *)
FirstUnseenIsPolled == P!FirstUnseenIsPolled
=============================================================================
