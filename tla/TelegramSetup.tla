---------------------------- MODULE TelegramSetup ----------------------------
(***************************************************************************)
(* telegram.py: pairing a bot with its owner's chat (pair_telegram_owner,  *)
(* as setup calls it), the settings it leaves, and the poller that starts  *)
(* from them.  Each bot numbers its updates itself; the root keeps one     *)
(* offset.  Telegram's queue is external: getUpdates forgets what is below *)
(* the offset and returns the rest.  What becomes of an accepted update is *)
(* in TelegramDelivery.                                                    *)
(***************************************************************************)
EXTENDS Naturals, Sequences

CONSTANTS
    Bots,
    Private,        \* private chats
    Groups,         \* other chats
    LastUpdate,     \* updates a bot gets, a bound of the model
    Polls,          \* maximum_polls of a pairing
    Nothing

Chats == Private \cup Groups
Updates == 1..LastUpdate

VARIABLES
    sent,           \* per bot, what arrived: update -> chat and text
    held,           \* per bot, the updates Telegram still keeps
    pairing,        \* the pairing under way
    settings,       \* telegram.json: the bot and the paired chat
    poller,         \* the bot and chats of the running gateway
    offset,         \* the root's next offset, 0 for none
    accepted,       \* updates in the root's inbox
    turns,          \* history: what the gateway took as a message
    paired          \* history: per bot, the update that last paired it, or 0

telegram == <<sent, held, pairing, settings, poller, offset, accepted, turns, paired>>

NoPairing == [bot |-> Nothing, next |-> 0, polls |-> 0, chat |-> Nothing]
NoSettings == [bot |-> Nothing, chat |-> Nothing]

TypeOK ==
    /\ \A b \in Bots : \A u \in DOMAIN sent[b] :
          u \in Updates /\ sent[b][u] \in [chat : Chats, text : {"connect", "talk"}]
    /\ held \in [Bots -> SUBSET Updates]
    /\ pairing \in [bot : Bots \cup {Nothing}, next : 0..LastUpdate + 1,
                    polls : 0..Polls, chat : Chats \cup {Nothing}]
    /\ settings \in [bot : Bots \cup {Nothing}, chat : Chats \cup {Nothing}]
    /\ poller \in [bot : Bots \cup {Nothing}, chat : Chats \cup {Nothing}]
    /\ offset \in 0..LastUpdate + 1
    /\ accepted \subseteq Bots \X Updates /\ turns \subseteq Bots \X Updates
    /\ paired \in [Bots -> 0..LastUpdate]

Init ==
    /\ sent = [b \in Bots |-> <<>>] /\ held = [b \in Bots |-> {}]
    /\ pairing = NoPairing /\ settings = NoSettings /\ poller = NoSettings
    /\ offset = 0 /\ accepted = {} /\ turns = {}
    /\ paired = [b \in Bots |-> 0]

\* Telegram: the code of a pairing is known only while it is under way.
Arrive(b, chat, text) ==
    LET u == Len(sent[b]) + 1
    IN  /\ u \in Updates
        /\ text = "connect" => pairing.bot = b
        /\ sent' = [sent EXCEPT ![b] = Append(@, [chat |-> chat, text |-> text])]
        /\ held' = [held EXCEPT ![b] = @ \cup {u}]
        /\ UNCHANGED <<pairing, settings, poller, offset, accepted, turns, paired>>

Kept(b, next) == {u \in held[b] : u >= next}

-----------------------------------------------------------------------------
(* Pairing.                                                                *)

Pair(b) ==
    /\ pairing.bot = Nothing
    /\ pairing' = [NoPairing EXCEPT !.bot = b]
    /\ UNCHANGED <<sent, held, settings, poller, offset, accepted, turns, paired>>

\* Any chat will do (a mutant).
MatchesAnywhere(b, u) == sent[b][u].text = "connect"

\* The code, in a private chat.
Matches(b, u) == sent[b][u].text = "connect" /\ sent[b][u].chat \in Private

\* One getUpdates: the updates in order, up to the first that matches. What
\* follows it in the batch is not acknowledged.
Look ==
    LET b       == pairing.bot
        batch   == Kept(b, pairing.next)
        matches == {u \in batch : Matches(b, u)}
        first   == CHOOSE u \in matches : \A v \in matches : u <= v
        last    == CHOOSE u \in batch : \A v \in batch : v <= u
    IN  /\ b # Nothing /\ pairing.chat = Nothing /\ pairing.polls < Polls
        /\ held' = [held EXCEPT ![b] = batch]
        /\ IF matches # {}
           THEN /\ pairing' = [pairing EXCEPT !.polls = @ + 1, !.next = first + 1,
                                              !.chat = sent[b][first].chat]
                /\ paired' = [paired EXCEPT ![b] = first]
           ELSE /\ pairing' = [pairing EXCEPT !.polls = @ + 1,
                                  !.next = IF batch = {} THEN @ ELSE last + 1]
                /\ UNCHANGED paired
        /\ UNCHANGED <<sent, settings, poller, offset, accepted, turns>>

\* pair_telegram_owner returns the chat alone; the document setup saves has
\* no offset.
Save ==
    /\ pairing.chat # Nothing
    /\ settings' = [bot |-> pairing.bot, chat |-> pairing.chat]
    /\ pairing' = NoPairing
    /\ UNCHANGED <<sent, held, poller, offset, accepted, turns, paired>>

\* A token verified without pairing: the chat that was paired, if any, stays.
Reuse(b) ==
    /\ pairing.bot = Nothing
    /\ settings' = [settings EXCEPT !.bot = b]
    /\ UNCHANGED <<sent, held, pairing, poller, offset, accepted, turns, paired>>

\* No message arrived, or setup was left: what is saved stays.
GiveUp ==
    /\ pairing.bot # Nothing
    /\ pairing' = NoPairing
    /\ UNCHANGED <<sent, held, settings, poller, offset, accepted, turns, paired>>

-----------------------------------------------------------------------------
(* The gateway.                                                            *)

\* main: the settings are read once, when the gateway starts; a bot that is not
\* paired is refused.
StartGateway ==
    /\ settings.chat # Nothing
    /\ poller' = settings
    /\ UNCHANGED <<sent, held, pairing, settings, offset, accepted, turns, paired>>

StopGateway ==
    /\ poller' = NoSettings
    /\ UNCHANGED <<sent, held, pairing, settings, offset, accepted, turns, paired>>

\* run_once: getUpdates from the root's offset, then accept_updates.
Poll ==
    LET b     == poller.bot
        batch == Kept(b, offset)
    IN  /\ b # Nothing
        /\ held' = [held EXCEPT ![b] = batch]
        /\ accepted' = accepted \cup ({b} \X batch)
        /\ offset' = IF batch = {} THEN offset
                     ELSE (CHOOSE u \in batch : \A v \in batch : v <= u) + 1
        /\ UNCHANGED <<sent, pairing, settings, poller, turns, paired>>

\* Every chat is answered (a mutant).
AuthorizedAny(b, u) == TRUE

\* _authorize_chat: the chat of the running gateway, whichever bot it was.
Authorized(b, u) == sent[b][u].chat = poller.chat

\* TelegramUpdateAdapter.handle_update: what is no command is a message.  The
\* inbox does not say which bot an update came from.
Handle(b, u) ==
    /\ poller.bot # Nothing
    /\ <<b, u>> \in accepted \ turns
    /\ Authorized(b, u)
    /\ turns' = turns \cup {<<b, u>>}
    /\ UNCHANGED <<sent, held, pairing, settings, poller, offset, accepted, paired>>

Next ==
    \/ \E b \in Bots, chat \in Chats, text \in {"connect", "talk"} : Arrive(b, chat, text)
    \/ \E b \in Bots : Pair(b) \/ Reuse(b) \/ \E u \in Updates : Handle(b, u)
    \/ Look \/ Save \/ GiveUp \/ StartGateway \/ StopGateway \/ Poll

Spec == Init /\ [][Next]_telegram

-----------------------------------------------------------------------------

(* Whatever else arrives, and however often a bot is paired again, only a  *)
(* private chat that gave the code of a pairing is ever answered by the    *)
(* model (pair_telegram_owner, _setup_telegram and _authorize_chat).        *)
OwnersAlone ==
    \A t \in turns :
       LET chat == sent[t[1]][t[2]].chat
       IN  /\ chat \in Private
           /\ \E b \in Bots : \E u \in DOMAIN sent[b] :
                 sent[b][u] = [chat |-> chat, text |-> "connect"]

(* The gateway's first poll after a pairing begins with the first message  *)
(* the pairing did not see: the code itself is no message, and nothing     *)
(* that came after it is lost.                                             *)
FirstUnseenIsPolled ==
    settings.chat # Nothing /\ pairing.bot = Nothing =>
       LET b == settings.bot
       IN  /\ <<b, paired[b]>> \notin accepted
           /\ \A u \in DOMAIN sent[b] : u > paired[b] => u \in held[b] \/ <<b, u>> \in accepted
=============================================================================
