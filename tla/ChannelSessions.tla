--------------------------- MODULE ChannelSessions ---------------------------
(***************************************************************************)
(* The sessions of one channel and which of them is selected               *)
(* (interface_store.py, web.py, interfaces.py).  Several pages and callers *)
(* create and select sessions at once; a page carries the revision of the  *)
(* selection it shows.  A caller that finds no selected session creates    *)
(* one, in a transaction of its own.  Turns are ConversationTurns.         *)
(***************************************************************************)
EXTENDS Integers, FiniteSets

CONSTANTS
    Sids,       \* identifiers for new sessions (fresh uuids)
    Callers,    \* requests that need a selected session
    None,       \* no session
    MaxRev      \* bound: revisions of the selection

VARIABLES
    sessions,   \* interface_sessions: the rows' origins, by identifier
    selected,   \* interface_session_selections: [sid, rev]
    page,       \* what the user's page shows, [sid, rev], and the revision of the
                \* selection when its rendering began, which it does not keep
    caller      \* where every request is and the session it works in

vars == <<sessions, selected, page, caller>>

Exists(s) == s \in DOMAIN sessions

TypeOK ==
    /\ DOMAIN sessions \subseteq Sids
    /\ \A s \in DOMAIN sessions : sessions[s] \in {"first-use", "user-created"}
    /\ {selected.sid, page.sid} \subseteq Sids \cup {None}
    /\ {selected.rev, page.rev} \subseteq 0..MaxRev
    /\ caller \in [Callers -> [pc : {"idle", "none", "has"}, sid : Sids \cup {None}]]

Init ==
    /\ sessions = [s \in {} |-> "user-created"]
    /\ selected = [sid |-> None, rev |-> 0]
    /\ page = [sid |-> None, rev |-> 0, began |-> 0, pc |-> "done"]
    /\ caller = [c \in Callers |-> [pc |-> "idle", sid |-> None]]

InsertSession(s, origin) ==
    /\ ~Exists(s)
    /\ sessions' = [t \in DOMAIN sessions \cup {s} |->
                      IF t = s THEN origin ELSE sessions[t]]

\* Mutant: the revision stays what it was.
SelectionSameRevision(s) ==
    /\ selected.rev < MaxRev
    /\ selected' = [sid |-> s, rev |-> IF selected.sid = None THEN 1 ELSE selected.rev]

SelectionBecomes(s) ==
    /\ selected.rev < MaxRev
    /\ selected' = [sid |-> s, rev |-> selected.rev + 1]

CreateSession(s) ==
    /\ InsertSession(s, "user-created")
    /\ UNCHANGED <<selected, page, caller>>

\* One transaction: a stale expected revision rolls the creation back as well.
CreateAndSelect(s, origin, expected) ==
    /\ expected \in {None, selected.rev}
    /\ InsertSession(s, origin)
    /\ SelectionBecomes(s)

\* POST /sessions/new passes no expected revision; the interface allows one.
NewSession(s) ==
    /\ \E expected \in {None, page.rev} : CreateAndSelect(s, "user-created", expected)
    /\ UNCHANGED <<page, caller>>

\* A first-use session that exists is returned as it is, selected or not.
StartFirstSession(s) ==
    /\ \A t \in DOMAIN sessions : sessions[t] # "first-use"
    /\ CreateAndSelect(s, "first-use", None)
    /\ UNCHANGED <<page, caller>>

\* POST /sessions/select: unknown sessions and stale pages are refused.
SelectSession(s) ==
    /\ Exists(s) /\ page.pc = "done"
    /\ page.rev = selected.rev
    /\ SelectionBecomes(s)
    /\ UNCHANGED <<sessions, page, caller>>

\* _render_simon reads the session it displays in one transaction and the
\* selection revision it puts into the forms of the page in the next.
RenderSession ==
    /\ page.pc = "done" /\ page.rev # selected.rev
    /\ page' = [sid |-> selected.sid, rev |-> page.rev, began |-> selected.rev, pc |-> "half"]
    /\ UNCHANGED <<sessions, selected, caller>>

RenderRevision ==
    /\ page.pc = "half"
    /\ page' = [page EXCEPT !.rev = selected.rev, !.pc = "done"]
    /\ UNCHANGED <<sessions, selected, caller>>

-----------------------------------------------------------------------------
(* A request that needs a session, as send_channel_message with none named  *)
(* and _ensure_selected_web_session do: look, look again, create.           *)

LookUp(c) ==
    /\ caller[c].pc = "idle"
    /\ caller' = [caller EXCEPT ![c] =
                    [pc |-> IF selected.sid = None THEN "none" ELSE "has",
                     sid |-> selected.sid]]
    /\ UNCHANGED <<sessions, selected, page>>

EnsureSelected(c) ==
    /\ caller[c].pc = "none"
    /\ \/ /\ selected.sid # None
          /\ caller' = [caller EXCEPT ![c] = [pc |-> "has", sid |-> selected.sid]]
          /\ UNCHANGED <<sessions, selected>>
       \/ \E s \in Sids :
            /\ CreateAndSelect(s, "first-use", None)
            /\ caller' = [caller EXCEPT ![c] = [pc |-> "has", sid |-> s]]
    /\ UNCHANGED page

Next ==
    \/ \E s \in Sids : CreateSession(s) \/ NewSession(s) \/ StartFirstSession(s)
                       \/ SelectSession(s)
    \/ \E c \in Callers : LookUp(c) \/ EnsureSelected(c)
    \/ RenderSession \/ RenderRevision

Spec == Init /\ [][Next]_vars

-----------------------------------------------------------------------------
\* A page rendered while nobody selected anything carries a revision that
\* identifies the session it shows as the selected one, so a choice made on it
\* replaces no selection its user has not seen.  (A selection made between the
\* two reads of the rendering escapes this.)  What is selected, shown or worked
\* in is a session that exists.
PageIdentifiesSelection ==
    /\ (page.pc = "done" /\ page.began = page.rev /\ page.rev = selected.rev) =>
         page.sid = selected.sid
    /\ \A s \in {selected.sid, page.sid} \cup {caller[c].sid : c \in Callers} :
         s = None \/ Exists(s)
==============================================================================
