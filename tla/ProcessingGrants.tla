-------------------------- MODULE ProcessingGrants --------------------------
(***************************************************************************)
(* Processing grants (processing.py): which categories of context may be   *)
(* sent to a model destination.  The grants of all destinations are one    *)
(* JSON file, rewritten whole under a file lock; the user changes a grant  *)
(* from a page that shows its version; every start of the program creates  *)
(* the first grant of a cloud destination if it finds none; and every run  *)
(* reads the grant and then calls the provider.                            *)
(***************************************************************************)
EXTENDS Integers, FiniteSets

CONSTANTS
    Cloud, Local,   \* the destinations, by kind
    Categories,     \* the categories of context
    Request,        \* the one no run can do without (current-request)
    Editors,        \* pages on which the user edits a grant
    Starters,       \* starts of the program
    Runs,           \* runs of a model
    MaxVersion      \* bound: versions of a grant

Destinations == Cloud \cup Local
None         == [version |-> 0, allowed |-> {}]

VARIABLES
    file,       \* the file: [Destinations -> [version, allowed]], 0 for none
    editor,     \* the version every page shows
    starter,    \* the destination every start has found without a grant, if any
    run,        \* what every run was allowed and has sent
    chosen      \* the last scope the user saved for every destination, which
                \* the code does not keep apart from the file

vars == <<file, editor, starter, run, chosen>>

TypeOK ==
    /\ file \in [Destinations -> [version : 0..MaxVersion, allowed : SUBSET Categories]]
    /\ DOMAIN editor = Editors /\ DOMAIN starter = Starters /\ DOMAIN run = Runs

Unset      == [pc |-> "idle", to |-> "none", version |-> 0]
NotRunning == [pc |-> "idle", to |-> "none", since |-> 0, sent |-> {}]

Init ==
    /\ file = [d \in Destinations |-> None]
    /\ editor = [e \in Editors |-> Unset]
    /\ starter = [s \in Starters |-> {}]
    /\ run = [r \in Runs |-> NotRunning]
    /\ chosen = [d \in Destinations |-> None]

\* ProcessingScope.review: a local destination needs no grant.
Allowed(d) == IF file[d].version = 0 /\ d \in Local THEN Categories ELSE file[d].allowed

\* Saved over whatever version there is (a mutant).
SaveAnyway(d, allowed, expected) ==
    file' = [file EXCEPT ![d] = [version |-> expected + 1, allowed |-> allowed]]

\* save, under the file lock: a compare-and-set of one destination's version.
Save(d, allowed, expected) ==
    /\ file[d].version = expected
    /\ file' = [file EXCEPT ![d] = [version |-> expected + 1, allowed |-> allowed]]

\* The processing-scope page, and ProcessingScope.change when it is posted.
ShowScope(e, d) ==
    /\ editor[e].pc = "idle"
    /\ editor' = [editor EXCEPT ![e] = [pc |-> "shown", to |-> d, version |-> file[d].version]]
    /\ UNCHANGED <<file, starter, run, chosen>>

ChangeScope(e, allowed) ==
    LET d == editor[e].to IN
    /\ editor[e].pc = "shown"
    /\ file[d].version < MaxVersion
    /\ Save(d, allowed, editor[e].version)
    /\ chosen' = [chosen EXCEPT ![d] = file'[d]]
    /\ editor' = [editor EXCEPT ![e] = Unset]
    /\ UNCHANGED <<starter, run>>

ChangeConflict(e) ==
    /\ editor[e].pc = "shown"
    /\ file[editor[e].to].version # editor[e].version
    /\ editor' = [editor EXCEPT ![e] = Unset]
    /\ UNCHANGED <<file, starter, run, chosen>>

\* ensure_initial_processing_grant: a cloud destination without a grant is
\* found, then its first full grant is saved, or the save is refused.
LookForGrant(s, d) ==
    /\ starter[s] = {}
    /\ file[d].version = 0
    /\ starter' = [starter EXCEPT ![s] = {d}]
    /\ UNCHANGED <<file, editor, run, chosen>>

CreateFirstGrant(s, d) ==
    /\ d \in starter[s]
    /\ Save(d, Categories, 0)
    /\ starter' = [starter EXCEPT ![s] = {}]
    /\ UNCHANGED <<editor, run, chosen>>

FirstGrantConflict(s, d) ==
    /\ d \in starter[s]
    /\ file[d].version # 0
    /\ starter' = [starter EXCEPT ![s] = {}]
    /\ UNCHANGED <<file, editor, run, chosen>>

\* A run begins; "since" is the version then in force, which it does not read.
BeginRun(r, d) ==
    /\ run[r].pc = "idle"
    /\ run' = [run EXCEPT ![r] = [pc |-> "begun", to |-> d, since |-> file[d].version,
                                  sent |-> {}]]
    /\ UNCHANGED <<file, editor, starter, chosen>>

\* Everything is sent once anything may be (a mutant).
EvaluateWhole(r) ==
    /\ run[r].pc = "begun"
    /\ run' = [run EXCEPT ![r] = IF Allowed(run[r].to) # {}
                                 THEN [@ EXCEPT !.pc = "sent", !.sent = Categories]
                                 ELSE NotRunning]
    /\ UNCHANGED <<file, editor, starter, chosen>>

\* evaluate: the file is read afresh; without the request itself nothing runs.
Evaluate(r) ==
    /\ run[r].pc = "begun"
    /\ LET allowed == Allowed(run[r].to) IN
       run' = [run EXCEPT ![r] = IF Request \in allowed
                                 THEN [@ EXCEPT !.pc = "sent", !.sent = allowed]
                                 ELSE NotRunning]
    /\ UNCHANGED <<file, editor, starter, chosen>>

Finish(r) ==
    /\ run[r].pc = "sent"
    /\ run' = [run EXCEPT ![r] = NotRunning]
    /\ UNCHANGED <<file, editor, starter, chosen>>

Next ==
    \/ \E e \in Editors : \/ ChangeConflict(e)
                          \/ \E d \in Destinations : ShowScope(e, d)
                          \/ \E allowed \in SUBSET Categories : ChangeScope(e, allowed)
    \/ \E s \in Starters, d \in Cloud :
         LookForGrant(s, d) \/ CreateFirstGrant(s, d) \/ FirstGrantConflict(s, d)
    \/ \E r \in Runs : \/ Evaluate(r) \/ Finish(r)
                       \/ \E d \in Destinations : BeginRun(r, d)

Spec == Init /\ [][Next]_vars

-----------------------------------------------------------------------------
\* What the user saved stays in force: the file holds, for every destination,
\* the user's latest scope, or the first full grant of a cloud destination for
\* which the user has saved none.  No start widens a scope, none is lost to a
\* change of another destination, and a local destination is never given one.
UsersScopeInForce ==
    \A d \in Destinations :
      \/ file[d] = chosen[d]
      \/ /\ chosen[d].version = 0 /\ d \in Cloud
         /\ file[d] = [version |-> 1, allowed |-> Categories]

\* While a run holds what it was allowed, a category that is withdrawn may still
\* be sent; but not one that was withdrawn before the run began and stayed out.
SentWasGranted ==
    \A r \in Runs : run[r].pc = "sent" =>
      /\ Request \in run[r].sent
      /\ run[r].since = file[run[r].to].version => run[r].sent \subseteq Allowed(run[r].to)
==============================================================================
