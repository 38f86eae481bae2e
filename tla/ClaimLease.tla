---------------------------- MODULE ClaimLease ----------------------------
(***************************************************************************)
(* What a store that hands out work promises: an item of work has at most  *)
(* one holder, an ordinary owner gets it only when nobody holds it, only a *)
(* recovering owner takes it from its holder, and an outcome, once there,  *)
(* is never replaced and ends the item.                                    *)
(***************************************************************************)
CONSTANTS
    Items,        \* the work
    Owners,       \* who may acquire free work
    Takers,       \* who may take held work over
    Free,         \* the holder of work nobody holds
    NoOutcome     \* the outcome of unfinished work

VARIABLES holder, outcome

Init ==
    /\ holder = [i \in Items |-> Free]
    /\ outcome = [i \in Items |-> NoOutcome]

Acquire(i, o) ==
    /\ holder[i] = Free
    /\ outcome[i] = NoOutcome
    /\ holder' = [holder EXCEPT ![i] = o]
    /\ UNCHANGED outcome

TakeOver(i, o) ==
    /\ outcome[i] = NoOutcome
    /\ holder' = [holder EXCEPT ![i] = o]
    /\ UNCHANGED outcome

Release(i) ==
    /\ holder[i] # Free
    /\ holder' = [holder EXCEPT ![i] = Free]
    /\ UNCHANGED outcome

Settle(i) ==
    /\ holder[i] # Free
    /\ outcome[i] = NoOutcome
    /\ holder' = [holder EXCEPT ![i] = Free]
    /\ outcome'[i] # NoOutcome
    /\ outcome' = [outcome EXCEPT ![i] = outcome'[i]]

Next ==
    \E i \in Items :
        \/ \E o \in Owners : Acquire(i, o)
        \/ \E o \in Takers : TakeOver(i, o)
        \/ Release(i)
        \/ Settle(i)

Spec == Init /\ [][Next]_<<holder, outcome>>
=============================================================================
