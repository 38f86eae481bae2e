------------------------------ MODULE Watches ------------------------------
(***************************************************************************)
(* automation.py, WatchService: watches a person proposes and confirms,    *)
(* and what their runs notify of.  A service loads the file when it starts *)
(* and never again; a change writes its whole memory back, with no lock,   *)
(* so a second service on the file may write an older memory over it.      *)
(*                                                                         *)
(* A finding is its source and its cost, and whether it reaches the        *)
(* threshold.  One watch identifier; what it may do is its budget and its  *)
(* sources.  `agreed` is not in the code: the terms a person confirmed.    *)
(***************************************************************************)
EXTENDS Naturals, FiniteSets, FiniteSetsExt

CONSTANTS
    Services,       \* processes with a WatchService on the file
    Sources,        \* where findings come from
    Budgets,        \* budgets a watch may be proposed with
    Quotes,         \* costs a run may be quoted
    Runs,           \* identifiers of runs
    Nothing

VARIABLES
    stored,         \* the file: the watch and the receipts
    held,           \* what each service holds, or Nothing before it has loaded
    agreed          \* the terms confirmed so far

watch == <<stored, held, agreed>>

Terms == [budget : Budgets, scope : SUBSET Sources]
Proposal == [terms : Terms, confirmed : BOOLEAN]
Receipt == [status : {"success", "blocked"}, cost : Nat, from : SUBSET Sources,
            notified : SUBSET Sources]
State == [proposal : Proposal \cup {Nothing}, receipts : [Runs -> Receipt \cup {Nothing}]]

TypeOK ==
    /\ stored \in State
    /\ held \in [Services -> State \cup {Nothing}]
    /\ agreed \subseteq Terms

Init ==
    /\ stored = [proposal |-> Nothing, receipts |-> [r \in Runs |-> Nothing]]
    /\ held = [s \in Services |-> Nothing]
    /\ agreed = {}

-----------------------------------------------------------------------------

\* A service starts, or another takes its place.
Load(s) ==
    /\ held' = [held EXCEPT ![s] = stored]
    /\ UNCHANGED <<stored, agreed>>

\* _flush: the memory of the service becomes the file.
Flush(s, m) ==
    /\ held' = [held EXCEPT ![s] = m]
    /\ stored' = m

\* A proposal that keeps the confirmation it finds (a mutant).
ProposedOver(m, terms) ==
    [m EXCEPT !.proposal = [terms |-> terms,
                            confirmed |-> @ # Nothing /\ @.confirmed]]

\* A proposal takes the place of whatever had its identifier, unconfirmed.
Proposed(m, terms) ==
    [m EXCEPT !.proposal = [terms |-> terms, confirmed |-> FALSE]]

Propose(s, terms) ==
    /\ held[s] # Nothing
    /\ Flush(s, Proposed(held[s], terms))
    /\ UNCHANGED agreed

Confirm(s) ==
    /\ held[s] # Nothing /\ held[s].proposal # Nothing
    /\ Flush(s, [held[s] EXCEPT !.proposal.confirmed = TRUE])
    /\ agreed' = agreed \cup {held[s].proposal.terms}

\* One finding from each source that has one: what it costs and its merit.
Cost(found) == MapThenSumSet(LAMBDA x : found[x].cost, DOMAIN found)

Within(m, found, quote) ==
    /\ DOMAIN found \subseteq m.proposal.terms.scope
    /\ Cost(found) <= quote

Notifying(found) == {x \in DOMAIN found : found[x].material}

\* The receipt of a run: quoted above the budget it looks at nothing.
ReceiptOf(m, found, quote) ==
    IF quote > m.proposal.terms.budget
    THEN [status |-> "blocked", cost |-> 0, from |-> {}, notified |-> {}]
    ELSE [status |-> "success", cost |-> Cost(found), from |-> DOMAIN found,
          notified |-> Notifying(found)]

Run(s, r, found, quote) ==
    /\ held[s] # Nothing /\ held[s].proposal # Nothing
    /\ held[s].proposal.confirmed
    /\ quote > held[s].proposal.terms.budget \/ Within(held[s], found, quote)
    /\ Flush(s, [held[s] EXCEPT !.receipts[r] = ReceiptOf(held[s], found, quote)])
    /\ UNCHANGED agreed

Findings == UNION {[D -> [cost : Quotes, material : BOOLEAN]] : D \in SUBSET Sources}

Next ==
    \E s \in Services :
       \/ Load(s) \/ Confirm(s)
       \/ \E t \in Terms : Propose(s, t)
       \/ \E r \in Runs, found \in Findings, q \in Quotes : Run(s, r, found, q)

Spec == Init /\ [][Next]_watch

-----------------------------------------------------------------------------

(* However older memories are written over newer ones, a run spends and    *)
(* looks no further than terms a person once confirmed together: a watch   *)
(* proposed anew never inherits a confirmation (propose, confirm, run and  *)
(* _flush).                                                                *)
RunsWithinAgreement ==
    \A r \in Runs :
       stored.receipts[r] # Nothing /\ stored.receipts[r].status = "success" =>
          \E t \in agreed : /\ stored.receipts[r].cost <= t.budget
                            /\ stored.receipts[r].from \subseteq t.scope
=============================================================================
