------------------------- MODULE MCRoutineContracts -------------------------
(* Small instances of RoutineContracts. *)
EXTENDS RoutineContracts, TLC

Symmetry ==
    Permutations(Proposals) \cup Permutations(Routines) \cup Permutations(Runs)
        \cup Permutations(Keys) \cup Permutations(Callers)
=============================================================================
