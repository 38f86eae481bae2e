---------------------------- MODULE MCRoutineRuns ----------------------------
(* Small instances of RoutineRuns. *)
EXTENDS RoutineRuns, TLC

\* Every call draws a worker name of its own, as _run_owner does.
OwnName == [c \in Calls |-> c]

\* The calls nobody is recovered to are interchangeable.
CallSymmetry == Permutations(Calls \ RecoveryNames)

\* Every step costs a unit.
FlatQuote == [s \in Steps |-> 1]
=============================================================================
