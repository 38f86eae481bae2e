------------------------- MODULE MCExternalWrites -------------------------
(* Small instances of ExternalWrites. *)
EXTENDS ExternalWrites, TLC

\* The calls of execute() are interchangeable.
CallSymmetry == Permutations(Calls)
=============================================================================
