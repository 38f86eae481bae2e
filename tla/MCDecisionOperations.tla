------------------------ MODULE MCDecisionOperations ------------------------
(* Small instances of DecisionOperations. *)
EXTENDS DecisionOperations, TLC

\* Calls, identifiers and texts are interchangeable.
Symmetry == Permutations(Callers) \cup Permutations(DecisionIds)
                \cup Permutations(Texts) \cup Permutations(OpIds)
=============================================================================
