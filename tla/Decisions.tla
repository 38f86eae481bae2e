------------------------------ MODULE Decisions ------------------------------
(***************************************************************************)
(* The Reckoning value (continuity.py): a decision with its version, its   *)
(* status and every version of its personal records, and the three changes *)
(* application.py makes to it.  The draft, the evidence and the times are  *)
(* left out: each change replaces the value as a whole.                    *)
(***************************************************************************)
EXTENDS Naturals

\* _current_reckoning_version counts a missing row as version 0.
Absent == [version |-> 0, status |-> "none", records |-> {}]

\* current_records: the last version of every personal record.
Current(records) ==
    {r \in records : \A s \in records : s.record = r.record => s.version <= r.version}

\* What a person reads in a decision: the meaning of each record.
Shown(decision) == {<<r.record, r.meaning>> : r \in Current(decision.records)}

\* start_reckoning: draft gives the meaning of each record the provider
\* proposes.
Proposed(draft) ==
    [version |-> 1,
     status |-> "proposed",
     records |-> {[record |-> r, version |-> 1, status |-> "proposed",
                   meaning |-> draft[r]] : r \in DOMAIN draft}]

CorrectedInPlace(decision, record, meaning) ==   \* mutant: the version stays
    [decision EXCEPT !.records = {[r EXCEPT !.meaning = meaning] : r \in @}]

\* correct_personal_record: one more version of one record.
Corrected(decision, record, meaning) ==
    [version |-> decision.version + 1,
     status |-> decision.status,
     records |-> decision.records \cup
        {[r EXCEPT !.version = @ + 1, !.status = "proposed", !.meaning = meaning] :
            r \in {s \in Current(decision.records) : s.record = record}}]

\* confirm_reckoning: one more version of every record, with its meaning.
Confirmed(decision) ==
    [version |-> decision.version + 1,
     status |-> "confirmed",
     records |-> decision.records \cup
        {[r EXCEPT !.version = @ + 1, !.status = "confirmed"] :
            r \in Current(decision.records)}]

=============================================================================
