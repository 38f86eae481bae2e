------------------------------- MODULE Trials -------------------------------
(***************************************************************************)
(* trials.py: the trial of a slice.  Evidence is recorded against the      *)
(* product revision being assessed, a person accepts or rejects it, and a  *)
(* material change of the product starts the assessment afresh.  Every     *)
(* command reads the trial in one transaction and writes it in another     *)
(* that insists on the version it read.                                    *)
(*                                                                         *)
(* An item of evidence is what it is about (a required metric of real use, *)
(* or the required automated check) and whether it is good.  `of` is the   *)
(* revision at which its author looked, when the author names the version  *)
(* of the trial that was looked at, and Nothing when not: the code keeps   *)
(* no such field, the properties use it.                                   *)
(***************************************************************************)
EXTENDS Naturals, Sequences, SequencesExt

CONSTANTS
    Callers,        \* commands at work at the same time
    Metrics,        \* REQUIRED_REAL_USE_METRICS
    Revisions,      \* revisions of the product
    First,          \* the one at which the trial starts
    MaxVersion,     \* bound on the changes of the trial
    Nothing

VARIABLES
    trial,          \* the row of slice_trials, or Nothing
    seen,           \* what each caller's person last saw of the trial, or Nothing
    update          \* the trial each caller is about to save, or Nothing

trials == <<trial, seen, update>>

Item == [about : Metrics \cup {"check"}, good : BOOLEAN, of : Revisions \cup {Nothing}]
Decision == [status : {"pending", "accepted", "rejected"}, revision : Revisions]
Trial == [version : 1..MaxVersion, revision : Revisions, start : Nat,
          evidence : Seq(Item), decisions : Seq(Decision)]

TypeOK ==
    /\ trial \in Trial \cup {Nothing}
    /\ seen \in [Callers -> [version : 1..MaxVersion, revision : Revisions] \cup {Nothing}]
    /\ update \in [Callers -> Trial \cup {Nothing}]

Init ==
    /\ trial = Nothing
    /\ seen = [c \in Callers |-> Nothing]
    /\ update = [c \in Callers |-> Nothing]

-----------------------------------------------------------------------------
(* What a trial's record amounts to.                                       *)

Current(t) == {t.evidence[n] : n \in t.start + 1..Len(t.evidence)}
Complete(t) == \A a \in Metrics \cup {"check"} : \E e \in Current(t) : e.about = a
ChecksPass(t) == \A e \in Current(t) : e.about = "check" => e.good
UseIsPositive(t) == \A e \in Current(t) : e.about \in Metrics => e.good
Accepted(t) ==
    /\ Complete(t) /\ ChecksPass(t) /\ UseIsPositive(t)
    /\ Last(t.decisions).status = "accepted"
    /\ Last(t.decisions).revision = t.revision

-----------------------------------------------------------------------------
(* The commands: TrialRecorder.                                            *)

Pending(r) == [status |-> "pending", revision |-> r]

\* What was looked at serves for one command.
Turn(c) ==
    /\ seen' = [seen EXCEPT ![c] = Nothing]
    /\ UNCHANGED trial

Start(c) ==
    /\ update[c] = Nothing
    /\ update' = [update EXCEPT ![c] =
          [version |-> 1, revision |-> First, start |-> 0, evidence |-> <<>>,
           decisions |-> <<Pending(First)>>]]
    /\ Turn(c)

Inspect(c) ==
    /\ trial # Nothing /\ update[c] = Nothing
    /\ seen' = [seen EXCEPT ![c] = [version |-> trial.version, revision |-> trial.revision]]
    /\ UNCHANGED <<trial, update>>

\* A command that names the version it was decided on goes on only from it.
AsExpected(c) == seen[c] # Nothing /\ seen[c].version = trial.version

Reads(c) == trial # Nothing /\ trial.version < MaxVersion /\ update[c] = Nothing
Next1(t) == [t EXCEPT !.version = @ + 1]

\* Naming a version is up to the caller when evidence is recorded.
Record(c, about, good, named) ==
    /\ Reads(c)
    /\ named => AsExpected(c)
    /\ update' = [update EXCEPT ![c] = [Next1(trial) EXCEPT !.evidence =
          Append(@, [about |-> about, good |-> good,
                     of |-> IF named THEN seen[c].revision ELSE Nothing])]]
    /\ Turn(c)

Decide(c, status) ==
    /\ Reads(c) /\ AsExpected(c)
    /\ seen[c].revision = trial.revision
    /\ status = "accepted" => Complete(trial) /\ ChecksPass(trial) /\ UseIsPositive(trial)
    /\ update' = [update EXCEPT ![c] = [Next1(trial) EXCEPT !.decisions =
          Append(@, [status |-> status, revision |-> seen[c].revision])]]
    /\ Turn(c)

\* Reassessed with the earlier evidence still counting (a mutant).
ReassessedInPlace(t, r) ==
    [Next1(t) EXCEPT !.revision = r, !.decisions = Append(@, Pending(r))]

\* A revision assessed afresh, its earlier evidence left behind.
Reassessed(t, r) ==
    [Next1(t) EXCEPT !.revision = r, !.start = Len(t.evidence),
                     !.decisions = Append(@, Pending(r))]

Reassess(c, r) ==
    /\ Reads(c) /\ AsExpected(c)
    /\ r # trial.revision
    /\ update' = [update EXCEPT ![c] = Reassessed(trial, r)]
    /\ Turn(c)

-----------------------------------------------------------------------------
(* The repository.                                                         *)

StoredVersion == IF trial = Nothing THEN 0 ELSE trial.version

\* Saved over a newer version (a mutant).
SavedAnyway(c) == update[c]

\* JsonFileTrialRepository.save: nothing is written over another version.
Saved(c) == IF StoredVersion = update[c].version - 1 THEN update[c] ELSE trial

Save(c) ==
    /\ update[c] # Nothing
    /\ trial' = Saved(c)
    /\ update' = [update EXCEPT ![c] = Nothing]
    /\ UNCHANGED seen

Die(c) ==
    /\ update[c] # Nothing
    /\ update' = [update EXCEPT ![c] = Nothing]
    /\ UNCHANGED <<trial, seen>>

Next ==
    \E c \in Callers :
       \/ Start(c) \/ Inspect(c) \/ Save(c) \/ Die(c)
       \/ \E r \in Revisions : Reassess(c, r)
       \/ \E a \in Metrics \cup {"check"}, good, named \in BOOLEAN : Record(c, a, good, named)
       \/ \E s \in {"accepted", "rejected"} : Decide(c, s)

Spec == Init /\ [][Next]_trials

-----------------------------------------------------------------------------

(* Evidence whose author looked at one revision never counts for another,  *)
(* however recording it crosses a reassessment (evidence_start_index and   *)
(* expected_revision in record, reassess_revision and save).               *)
EvidenceIsOfItsRevision ==
    trial # Nothing => \A e \in Current(trial) : e.of \in {Nothing, trial.revision}

(* Nothing recorded is lost to a concurrent command, and an acceptance is  *)
(* added only on top of the very evidence that earns it                    *)
(* (TrialRecorder.decide with JsonFileTrialRepository.save).                 *)
AcceptanceIsEarned ==
    [][ trial # Nothing =>
          /\ IsPrefix(trial.evidence, trial'.evidence)
          /\ IsPrefix(trial.decisions, trial'.decisions)
          /\ Len(trial'.decisions) > Len(trial.decisions)
                /\ Last(trial'.decisions).status = "accepted" => Accepted(trial') ]_trials

=============================================================================
