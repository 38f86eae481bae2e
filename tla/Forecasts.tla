----------------------------- MODULE Forecasts -----------------------------
(***************************************************************************)
(* research_forecasts.py: the forecast of one goal and the revisions       *)
(* proposed to it.  A confirmed forecast is active at once; a revision     *)
(* keeps its own copy of the forecast it proposes, which is saved beside   *)
(* the active one, and saved again and active once it is accepted.         *)
(*                                                                         *)
(* Callers choose the identifiers, and what is saved under one takes the   *)
(* place of what was there.  A forecast is what it says and which one it   *)
(* supersedes; its version, one more than that of the one it supersedes,   *)
(* is left out.                                                            *)
(***************************************************************************)
EXTENDS Naturals

CONSTANTS
    Forecasts,      \* identifiers of forecasts
    Proposals,      \* identifiers of revisions
    Contents,       \* what a forecast can say
    Nothing

VARIABLES
    forecasts,      \* what is kept under each identifier, or Nothing
    active,         \* the identifier of the active forecast, or Nothing
    proposals,      \* the revisions, or Nothing
    agreed,         \* what the user agreed to last under each identifier, or
                    \* Nothing (not in the code)
    overwritten     \* the identifiers a proposal has been saved under since then
                    \* (not in the code)

forecast == <<forecasts, active, proposals, agreed, overwritten>>

Forecast == [says : Contents, supersedes : Forecasts \cup {Nothing}]

TypeOK ==
    /\ forecasts \in [Forecasts -> Forecast \cup {Nothing}]
    /\ active \in Forecasts \cup {Nothing}
    /\ proposals \in [Proposals ->
          [id : Forecasts, proposed : Forecast,
           status : {"proposed", "deferred", "rejected", "accepted"}] \cup {Nothing}]
    /\ agreed \in [Forecasts -> Forecast \cup {Nothing}]
    /\ overwritten \subseteq Forecasts

Init ==
    /\ forecasts = [f \in Forecasts |-> Nothing]
    /\ active = Nothing
    /\ proposals = [p \in Proposals |-> Nothing]
    /\ agreed = [f \in Forecasts |-> Nothing]
    /\ overwritten = {}

-----------------------------------------------------------------------------

\* The user has agreed to e under f, where it is kept and active from now on.
Agree(f, e) ==
    /\ active' = f
    /\ agreed' = [agreed EXCEPT ![f] = e]
    /\ overwritten' = overwritten \ {f}

\* create_confirmed: a goal's forecast may be made anew at any time.
CreateConfirmed(f, c) ==
    LET new == [says |-> c, supersedes |-> Nothing]
    IN  /\ forecasts' = [forecasts EXCEPT ![f] = new]
        /\ Agree(f, new)
        /\ UNCHANGED proposals

\* Active as soon as it is saved (a mutant).
ActiveOnceSaved(f) == f

\* Which forecast is active once a proposed one has been saved.
ActiveAfterProposal(f) == active

ProposeRevision(p, f, c) ==
    LET new == [says |-> c, supersedes |-> active]
    IN  /\ active # Nothing
        /\ forecasts' = [forecasts EXCEPT ![f] = new]
        /\ proposals' = [proposals EXCEPT ![p] =
              [id |-> f, proposed |-> new, status |-> "proposed"]]
        /\ active' = ActiveAfterProposal(f)
        /\ overwritten' = overwritten \cup {f}
        /\ UNCHANGED agreed

\* Deferring or rejecting: an earlier answer may be changed, but for acceptance.
SetStatus(p, status) ==
    /\ proposals[p] # Nothing /\ proposals[p].status # "accepted"
    /\ proposals' = [proposals EXCEPT ![p].status = status]
    /\ UNCHANGED <<forecasts, active, agreed, overwritten>>

\* What is kept under the identifier by now (a mutant).
AcceptedAsKept(p) == forecasts[proposals[p].id]

\* What accepting p saves: the copy it came with.
Accepted(p) == proposals[p].proposed

AcceptRevision(p) ==
    /\ proposals[p] # Nothing /\ proposals[p].status \in {"proposed", "deferred"}
    /\ forecasts' = [forecasts EXCEPT ![proposals[p].id] = Accepted(p)]
    /\ Agree(proposals[p].id, proposals[p].proposed)
    /\ proposals' = [proposals EXCEPT ![p].status = "accepted"]

Next ==
    \/ \E f \in Forecasts, c \in Contents : CreateConfirmed(f, c)
    \/ \E p \in Proposals :
          \/ \E f \in Forecasts, c \in Contents : ProposeRevision(p, f, c)
          \/ \E s \in {"deferred", "rejected"} : SetStatus(p, s)
          \/ AcceptRevision(p)

Spec == Init /\ [][Next]_forecast

-----------------------------------------------------------------------------

\* What a forecast rests on: itself and everything it supersedes, the least set
\* that holds it and what its members supersede.
Line(f) ==
    LET Closed(S) == \A g \in S : forecasts[g].supersedes # Nothing
                                      => forecasts[g].supersedes \in S
    IN  {g \in Forecasts : \A S \in SUBSET {h \in Forecasts : forecasts[h] # Nothing} :
                              f \in S /\ Closed(S) => g \in S}

(* The active forecast, and each forecast it was revised from, was         *)
(* confirmed or accepted by the user and is kept as it was then, however   *)
(* the answers to several revisions cross and however many of them propose *)
(* under one identifier.  Excepted is a forecast over which a proposal has *)
(* been saved since (propose_revision, accept_revision,                    *)
(* _set_proposal_status).                                                  *)
ActiveLineWasAgreed ==
    active # Nothing =>
       \A f \in Line(active) :
          agreed[f] # Nothing /\ (f \notin overwritten => forecasts[f] = agreed[f])

(* Proposing a revision leaves the forecast planned with as it was agreed, *)
(* as test_material_change_proposes_revision_without_replacing_current_-   *)
(* forecast says (propose_revision).  It does not hold, and no run checks  *)
(* it: a caller may propose under the identifier of the active forecast.   *)
ProposalReplacesNothing == active # Nothing => forecasts[active] = agreed[active]
=============================================================================
