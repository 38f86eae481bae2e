--------------------------- MODULE AtomicDecisions ---------------------------
(***************************************************************************)
(* What the decision operations promise: each one acts on the current      *)
(* decision in one step, and an operation identifier is used up by the     *)
(* step it names, so it has at most one effect.  A confirmed decision      *)
(* changes no more, and only a confirmed decision is reviewed.             *)
(***************************************************************************)
EXTENDS Decisions

CONSTANTS
    Ids,        \* decision identifiers
    RecordIds,  \* personal-record identifiers
    Texts,      \* meanings of a record
    OpIds,      \* operation identifiers
    NoOp        \* no operation identifier was given

VARIABLES
    store,      \* decision identifier -> decision
    used,       \* operation identifiers that are used up
    reviewed    \* decisions that have a check-in

Drafts == UNION {[rs -> Texts] : rs \in SUBSET RecordIds}

Init ==
    /\ store = [d \in Ids |-> Absent]
    /\ used = {}
    /\ reviewed = {}

Use(op) ==
    /\ op \notin used
    /\ used' = used \cup ({op} \ {NoOp})

Start(d, draft, op) ==
    /\ store[d] = Absent
    /\ store' = [store EXCEPT ![d] = Proposed(draft)]
    /\ Use(op)
    /\ UNCHANGED reviewed

Correct(d, record, meaning, op) ==
    /\ store[d].status = "proposed"
    /\ store' = [store EXCEPT ![d] = Corrected(@, record, meaning)]
    /\ Use(op)
    /\ UNCHANGED reviewed

Confirm(d, op) ==
    /\ store[d].status = "proposed"
    /\ store' = [store EXCEPT ![d] = Confirmed(@)]
    /\ Use(op)
    /\ UNCHANGED reviewed

\* Confirming what is already confirmed uses the identifier only.
Acknowledge(d, op) ==
    /\ store[d].status = "confirmed"
    /\ op # NoOp
    /\ Use(op)
    /\ UNCHANGED <<store, reviewed>>

Review(d) ==
    /\ store[d].status = "confirmed"
    /\ reviewed' = reviewed \cup {d}
    /\ UNCHANGED <<store, used>>

Next ==
    \E d \in Ids :
        \/ \E op \in OpIds \cup {NoOp} :
              \/ \E draft \in Drafts : Start(d, draft, op)
              \/ \E record \in RecordIds, meaning \in Texts :
                    Correct(d, record, meaning, op)
              \/ Confirm(d, op)
              \/ Acknowledge(d, op)
        \/ Review(d)

Spec == Init /\ [][Next]_<<store, used, reviewed>>

=============================================================================
