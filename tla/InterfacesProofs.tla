-------------------------- MODULE InterfacesProofs --------------------------
(***************************************************************************)
(* Theorems about the components between a person and the stores, for any  *)
(* records, pages, callers, chats and bounds.  The components share no     *)
(* state, so a step of the whole is a step of one of them or leaves it     *)
(* alone: each invariant is proved of its component and then of the whole. *)
(***************************************************************************)
EXTENDS MCInterfaces, ListFacts, FiniteSetTheorems, TLAPS

-----------------------------------------------------------------------------
(* Personal context.                                                       *)

\* What an operation has read is the current version until somebody saves
\* another one, or until the record is suppressed for good.
CallerTyped ==
    C!TypeOK /\ \A c \in Keepers :
        /\ keeper[c].op \in C!Operations \cup {"idle", "retain"}
        /\ keeper[c].rec \subseteq Records /\ keeper[c].todo \subseteq Records
        /\ keeper[c].read \in [n : 0..MaxVersion, status : C!Statuses, permitted : BOOLEAN]
        /\ keeper[c].op \in C!Operations \ {"delete"} => keeper[c].read.n < MaxVersion

ReadsStand ==
    \A c \in Keepers : \A r \in keeper[c].rec :
        r \notin suppressed =>
            /\ keeper[c].read.n <= current[r].n
            /\ keeper[c].read.n = current[r].n => keeper[c].read = current[r]

PermittedWasApproved ==
    \A r \in Records :
        /\ current[r].n = 0 => current[r] = C!NoVersion
        /\ current[r].permitted => r \in approved

ContextInv == CallerTyped /\ C!DeletedForGood /\ ReadsStand /\ PermittedWasApproved

LEMMA ContextInit == C!Init => ContextInv
<1> SUFFICES ASSUME C!Init PROVE ContextInv
  OBVIOUS
<1>1. /\ current = [r \in Records |-> C!NoVersion] /\ suppressed = {} /\ approved = {}
      /\ keeper = [c \in Keepers |-> C!Idle]
  BY DEF C!Init
<1>2. C!NoVersion \in [n : 0..MaxVersion, status : C!Statuses, permitted : BOOLEAN]
      /\ C!NoVersion.n = 0 /\ C!NoVersion.permitted = FALSE
  BY BoundsAssumption DEF C!NoVersion, C!Version, C!Statuses
<1>3. CallerTyped
  BY <1>1, <1>2 DEF CallerTyped, C!TypeOK, C!Idle, C!Operations, C!Becomes
<1> QED BY <1>1, <1>2, <1>3 DEF ContextInv, C!DeletedForGood, ReadsStand, PermittedWasApproved, C!Idle

\* The states an operation starts from.
LEMMA ContextTyped ==
    ASSUME CallerTyped
    PROVE  /\ current \in [Records -> [n : 0..MaxVersion, status : C!Statuses, permitted : BOOLEAN]]
           /\ suppressed \subseteq Records /\ approved \subseteq Records /\ DOMAIN keeper = Keepers
           /\ C!NoVersion \in [n : 0..MaxVersion, status : C!Statuses, permitted : BOOLEAN]
           /\ C!NoVersion.n = 0 /\ C!NoVersion.permitted = FALSE
BY BoundsAssumption DEF CallerTyped, C!TypeOK, C!NoVersion, C!Version, C!Statuses

\* What an operation may keep.
Keepable(doing) ==
    /\ doing.op \in C!Operations \cup {"idle", "retain"}
    /\ doing.rec \subseteq Records /\ doing.todo \subseteq Records
    /\ doing.read \in [n : 0..MaxVersion, status : C!Statuses, permitted : BOOLEAN]
    /\ doing.op \in C!Operations \ {"delete"} => doing.read.n < MaxVersion

LEMMA IdleKeepable ==
    ASSUME CallerTyped PROVE Keepable(C!Idle) /\ C!Idle.rec = {}
BY ContextTyped DEF C!Idle, Keepable, C!Operations, C!Becomes

LEMMA CallersKeep ==
    ASSUME CallerTyped, NEW c \in Keepers, NEW doing, Keepable(doing),
           keeper' = [keeper EXCEPT ![c] = doing],
           current' \in [Records -> [n : 0..MaxVersion, status : C!Statuses, permitted : BOOLEAN]],
           suppressed' \subseteq Records, approved' \subseteq Records
    PROVE  /\ CallerTyped' /\ keeper'[c] = doing
           /\ \A d \in Keepers \ {c} : keeper'[d] = keeper[d]
<1>1. keeper'[c] = doing /\ \A d \in Keepers \ {c} : keeper'[d] = keeper[d]
  BY ContextTyped
<1>2. DOMAIN keeper' = Keepers
  BY ContextTyped
<1> QED BY <1>1, <1>2 DEF CallerTyped, C!TypeOK, Keepable

\* An operation that reads, gives up or ends touches no record.
LEMMA ReaderStep ==
    ASSUME ContextInv, NEW c \in Keepers, NEW doing, Keepable(doing),
           keeper' = [keeper EXCEPT ![c] = doing], UNCHANGED <<current, suppressed, approved>>,
           \A r \in doing.rec : doing.read = current[r]
    PROVE  ContextInv'
<1>1. \A r \in Records : current[r].n \in Nat
  BY ContextTyped, BoundsAssumption DEF ContextInv
<1>2. /\ CallerTyped' /\ keeper'[c] = doing
      /\ \A d \in Keepers \ {c} : keeper'[d] = keeper[d]
  BY CallersKeep, ContextTyped DEF ContextInv
<1>3. ReadsStand'
  BY <1>1, <1>2 DEF ContextInv, ReadsStand, Keepable
<1> QED BY <1>2, <1>3 DEF ContextInv, C!DeletedForGood, PermittedWasApproved

\* A version that is saved after a read follows the version that was read, and
\* is permitted only if that was or if the user approves the record.
LEMMA WriterStep ==
    ASSUME ContextInv, NEW c \in Keepers, NEW r \in Records, NEW version,
           keeper[c].op \in C!Operations \ {"delete"},
           version \in [n : Nat, status : C!Statuses, permitted : BOOLEAN],
           C!Written(c, keeper[c].op, r, version),
           approved' \in {approved, approved \cup {r}},
           version.permitted => r \in approved' \/ keeper[c].read.permitted
    PROVE  ContextInv'
<1> DEFINE next == [version EXCEPT !.n = keeper[c].read.n + 1]
<1>1. /\ keeper[c].rec = {r} /\ current[r].n = next.n - 1 /\ r \notin suppressed
      /\ current' = [current EXCEPT ![r] = next]
      /\ keeper' = [keeper EXCEPT ![c] = C!Idle] /\ UNCHANGED suppressed
  BY DEF C!Written, C!Save
<1>2. /\ keeper[c].read.n \in 0..MaxVersion /\ keeper[c].read.n < MaxVersion
      /\ next.n = keeper[c].read.n + 1 /\ next.permitted = version.permitted
      /\ next.n \in 0..MaxVersion
  BY BoundsAssumption DEF ContextInv, CallerTyped
<1>3. next \in [n : 0..MaxVersion, status : C!Statuses, permitted : BOOLEAN]
  BY <1>2
<1> HIDE DEF next
<1>4. \A q \in Records : current[q].n \in 0..MaxVersion
  BY ContextTyped DEF ContextInv
<1>5. current[r].n = keeper[c].read.n /\ keeper[c].read = current[r]
  <2>1. current[r].n = keeper[c].read.n
    BY <1>1, <1>2, <1>4, BoundsAssumption
  <2> QED BY <1>1, <2>1 DEF ContextInv, ReadsStand
<1>6. /\ current'[r] = next /\ \A q \in Records \ {r} : current'[q] = current[q]
      /\ current' \in [Records -> [n : 0..MaxVersion, status : C!Statuses, permitted : BOOLEAN]]
  BY <1>1, <1>3, ContextTyped DEF ContextInv
<1>7. /\ CallerTyped' /\ keeper'[c] = C!Idle
      /\ \A d \in Keepers \ {c} : keeper'[d] = keeper[d]
  BY <1>1, <1>6, CallersKeep, IdleKeepable, ContextTyped DEF ContextInv
<1>8. C!DeletedForGood'
  BY <1>1, <1>6, ContextTyped DEF ContextInv, C!DeletedForGood
<1>9. ReadsStand'
  <2>1. ASSUME NEW d \in Keepers, NEW q \in keeper'[d].rec, q \notin suppressed
        PROVE  /\ keeper'[d].read.n <= current'[q].n
               /\ keeper'[d].read.n = current'[q].n => keeper'[d].read = current'[q]
    <3>1. d # c /\ keeper'[d] = keeper[d] /\ q \in Records
      BY <1>7, <2>1, IdleKeepable DEF ContextInv, CallerTyped
    <3>2. keeper[d].read.n <= current[q].n
          /\ (keeper[d].read.n = current[q].n => keeper[d].read = current[q])
      BY <2>1, <3>1 DEF ContextInv, ReadsStand
    <3>3. keeper[d].read.n \in 0..MaxVersion
      BY DEF ContextInv, CallerTyped
    <3>4. CASE q = r
      BY <1>2, <1>4, <1>5, <1>6, <3>1, <3>2, <3>3, <3>4, BoundsAssumption
    <3>5. CASE q # r
      BY <1>6, <3>1, <3>2, <3>5
    <3> QED BY <3>4, <3>5
  <2> QED BY <1>1, <2>1 DEF ReadsStand
<1>10. PermittedWasApproved'
  <2>1. next.n # 0 /\ (next.permitted => r \in approved')
    BY <1>2, <1>5, BoundsAssumption DEF ContextInv, PermittedWasApproved
  <2> QED BY <1>6, <2>1 DEF ContextInv, PermittedWasApproved
<1> QED BY <1>7, <1>8, <1>9, <1>10 DEF ContextInv

LEMMA DeleteStep ==
    ASSUME ContextInv, NEW c \in Keepers, NEW r \in Records, C!Delete(c, r)
    PROVE  ContextInv'
<1> DEFINE doing == IF keeper[c].todo = {} THEN C!Idle
                    ELSE [C!Idle EXCEPT !.op = "retain", !.todo = keeper[c].todo]
<1>1. /\ current' = [current EXCEPT ![r] = C!NoVersion] /\ suppressed' = suppressed \cup {r}
      /\ approved' = approved \ {r} /\ keeper' = [keeper EXCEPT ![c] = doing]
  BY DEF C!Delete, C!DeleteRecord
<1>2. Keepable(doing) /\ doing.rec = {}
  BY IdleKeepable DEF ContextInv, CallerTyped, Keepable, C!Idle, C!Operations, C!Becomes
<1> HIDE DEF doing
<1>3. /\ current'[r] = C!NoVersion /\ \A q \in Records \ {r} : current'[q] = current[q]
      /\ current' \in [Records -> [n : 0..MaxVersion, status : C!Statuses, permitted : BOOLEAN]]
  BY <1>1, ContextTyped DEF ContextInv
<1>4. /\ CallerTyped' /\ keeper'[c] = doing
      /\ \A d \in Keepers \ {c} : keeper'[d] = keeper[d]
  BY <1>1, <1>2, <1>3, CallersKeep, ContextTyped DEF ContextInv
<1>5. C!DeletedForGood'
  BY <1>1, <1>3, ContextTyped DEF ContextInv, C!DeletedForGood
<1>6. ReadsStand'
  <2>1. ASSUME NEW d \in Keepers, NEW q \in keeper'[d].rec, q \notin suppressed'
        PROVE  /\ keeper'[d].read.n <= current'[q].n
               /\ keeper'[d].read.n = current'[q].n => keeper'[d].read = current'[q]
    <3>1. d # c /\ keeper'[d] = keeper[d] /\ q \in Records /\ q # r /\ q \notin suppressed
      BY <1>1, <1>2, <1>4, <2>1 DEF ContextInv, CallerTyped
    <3> QED BY <1>3, <3>1, <2>1 DEF ContextInv, ReadsStand
  <2> QED BY <2>1 DEF ReadsStand
<1>7. PermittedWasApproved'
  BY <1>1, <1>3, ContextTyped DEF ContextInv, PermittedWasApproved
<1> QED BY <1>4, <1>5, <1>6, <1>7 DEF ContextInv

LEMMA ContextNext == ContextInv /\ [C!Next]_contextVars => ContextInv'
<1> SUFFICES ASSUME ContextInv, [C!Next]_contextVars PROVE ContextInv'
  OBVIOUS
<1>1. CASE UNCHANGED contextVars
  BY <1>1 DEF contextVars, ContextInv, CallerTyped, C!TypeOK, C!DeletedForGood, ReadsStand,
              PermittedWasApproved
<1> USE DEF C!Operations, C!Becomes
<1>2. ASSUME NEW c \in Keepers, NEW r \in Records, C!Finish(c, r) PROVE ContextInv'
  <2>1. /\ keeper[c].read.status \in C!Statuses /\ keeper[c].read.permitted \in BOOLEAN
        /\ keeper[c].read \in [n : Nat, status : C!Statuses, permitted : BOOLEAN]
    BY BoundsAssumption DEF ContextInv, CallerTyped
  <2>2. ASSUME NEW permitted \in BOOLEAN, C!Remember(c, r, permitted) PROVE ContextInv'
    <3>1. C!Version(1, "active", permitted) \in [n : Nat, status : C!Statuses, permitted : BOOLEAN]
      BY DEF C!Version, C!Statuses
    <3>2. keeper[c].op = "remember"
      BY <2>2 DEF C!Remember, C!Written
    <3> QED BY <2>2, <3>1, <3>2, WriterStep DEF C!Remember
  <2>3. CASE C!Propose(c, r)
    <3>1. /\ C!Version(1, "proposed", FALSE) \in [n : Nat, status : C!Statuses, permitted : BOOLEAN]
          /\ ~C!Version(1, "proposed", FALSE).permitted
      BY DEF C!Version, C!Statuses
    <3>2. keeper[c].op = "propose"
      BY <2>3 DEF C!Propose, C!Written
    <3> QED BY <2>3, <3>1, <3>2, WriterStep DEF C!Propose
  <2>4. CASE C!Correct(c, r)
    <3>1. keeper[c].op = "correct"
      BY <2>4 DEF C!Correct, C!Written
    <3> QED BY <2>1, <2>4, <3>1, WriterStep DEF C!Correct
  <2>5. CASE C!Confirm(c, r)
    <3> DEFINE version == [keeper[c].read EXCEPT !.status = "active", !.permitted = TRUE]
    <3>1. version \in [n : Nat, status : C!Statuses, permitted : BOOLEAN]
      BY <2>1 DEF C!Statuses
    <3>2. keeper[c].op = "confirm" /\ C!Written(c, "confirm", r, version)
          /\ approved' = approved \cup {r}
      BY <2>5 DEF C!Confirm, C!Written
    <3> HIDE DEF version
    <3> QED BY <3>1, <3>2, WriterStep
  <2>6. CASE C!Delete(c, r)
    BY <2>6, DeleteStep
  <2>7. CASE C!Conflict(c, r)
    BY <2>7, ReaderStep, IdleKeepable DEF C!Conflict, ContextInv
  <2>8. ASSUME NEW op \in DOMAIN C!Becomes, C!Transition(c, r, op) PROVE ContextInv'
    <3> DEFINE version == [keeper[c].read EXCEPT !.status = C!Becomes[op]]
    <3>1. /\ version \in [n : Nat, status : C!Statuses, permitted : BOOLEAN]
          /\ version.permitted = keeper[c].read.permitted
      BY <2>1 DEF C!Statuses
    <3>2. keeper[c].op = op /\ C!Written(c, op, r, version) /\ approved' = approved
      BY <2>8 DEF C!Transition, C!Written
    <3>3. op \in C!Operations \ {"delete"}
      OBVIOUS
    <3> HIDE DEF version
    <3> QED BY <3>1, <3>2, <3>3, WriterStep
  <2> QED BY <1>2, <2>2, <2>3, <2>4, <2>5, <2>6, <2>7, <2>8 DEF C!Finish
<1>3. ASSUME NEW c \in Keepers, NEW r \in Records, C!RetainNext(c, r) PROVE ContextInv'
  <2> DEFINE doing == IF current[r].n = 0 THEN C!Idle
                      ELSE [op |-> "delete", rec |-> {r}, read |-> current[r],
                            todo |-> keeper[c].todo \ {r}]
  <2>1. keeper' = [keeper EXCEPT ![c] = doing] /\ UNCHANGED <<current, suppressed, approved>>
    BY <1>3 DEF C!RetainNext
  <2>2. Keepable(doing)
    BY IdleKeepable, ContextTyped DEF ContextInv, CallerTyped, Keepable
  <2>3. \A q \in doing.rec : doing.read = current[q]
    BY IdleKeepable DEF ContextInv
  <2> HIDE DEF doing
  <2> QED BY <2>1, <2>2, <2>3, ReaderStep
<1>4. ASSUME NEW c \in Keepers, NEW r \in Records, NEW op \in C!Operations, C!Read(c, op, r)
      PROVE  ContextInv'
  <2> DEFINE doing == [op |-> op, rec |-> {r}, read |-> current[r], todo |-> {}]
  <2>1. keeper' = [keeper EXCEPT ![c] = doing] /\ UNCHANGED <<current, suppressed, approved>>
        /\ (current[r].n < MaxVersion \/ op = "delete")
    BY <1>4 DEF C!Read
  <2>2. Keepable(doing) /\ \A q \in doing.rec : doing.read = current[q]
    BY <2>1, ContextTyped DEF ContextInv, Keepable
  <2> HIDE DEF doing
  <2> QED BY <2>1, <2>2, ReaderStep
<1>5. ASSUME NEW c \in Keepers, C!EnforceRetention(c) PROVE ContextInv'
  <2> DEFINE doing == [C!Idle EXCEPT !.op = "retain", !.todo = C!Expired]
  <2>1. keeper' = [keeper EXCEPT ![c] = doing] /\ UNCHANGED <<current, suppressed, approved>>
    BY <1>5 DEF C!EnforceRetention
  <2>2. Keepable(doing) /\ doing.rec = {}
    BY ExpiringAssumption, IdleKeepable DEF ContextInv, Keepable, C!Idle, C!Expired
  <2> HIDE DEF doing
  <2> QED BY <2>1, <2>2, ReaderStep
<1> QED BY <1>1, <1>2, <1>3, <1>4, <1>5 DEF C!Next

-----------------------------------------------------------------------------
(* Processing grants.                                                      *)

Grants == [version : 0..MaxGrants, allowed : SUBSET Categories]

\* A run began at a version the file has reached.
RunsKnown ==
    \A r \in Runs : run[r].pc \in {"begun", "sent"} =>
        /\ run[r].to \in G!Destinations /\ run[r].since \in Nat
        /\ run[r].since <= file[run[r].to].version

Running == [pc : {"idle", "begun", "sent"}, to : G!Destinations \cup {"none"}, since : Nat,
            sent : SUBSET Categories]

PagesKnown == \A e \in Editors : editor[e].pc = "shown" => editor[e].to \in G!Destinations

GrantsInv ==
    /\ G!TypeOK /\ run \in [Runs -> Running] /\ chosen \in [G!Destinations -> Grants]
    /\ PagesKnown /\ RunsKnown /\ G!UsersScopeInForce /\ G!SentWasGranted

LEMMA GrantsInit == G!Init => GrantsInv
<1> SUFFICES ASSUME G!Init PROVE GrantsInv
  OBVIOUS
<1>1. /\ file = [d \in G!Destinations |-> G!None] /\ chosen = [d \in G!Destinations |-> G!None]
      /\ editor = [e \in Editors |-> G!Unset] /\ starter = [s \in Starters |-> {}]
      /\ run = [r \in Runs |-> G!NotRunning]
  BY DEF G!Init
<1>2. G!None \in Grants
  BY BoundsAssumption DEF G!None, Grants
<1>3. G!TypeOK
  BY <1>1, <1>2 DEF G!TypeOK, Grants
<1>4. run \in [Runs -> Running] /\ chosen \in [G!Destinations -> Grants]
  BY <1>1, <1>2 DEF G!NotRunning, Running
<1> QED BY <1>1, <1>3, <1>4 DEF GrantsInv, PagesKnown, RunsKnown, G!UsersScopeInForce, G!SentWasGranted,
          G!Unset, G!NotRunning

\* A step that leaves the file alone, and one that saves the next version.
LEMMA FileStays ==
    ASSUME GrantsInv, UNCHANGED <<file, chosen>>,
           DOMAIN editor' = Editors, DOMAIN starter' = Starters, run' \in [Runs -> Running],
           PagesKnown', RunsKnown', G!SentWasGranted'
    PROVE  GrantsInv'
BY DEF GrantsInv, G!TypeOK, G!UsersScopeInForce

LEMMA FileGrows ==
    ASSUME GrantsInv, NEW d \in G!Destinations, NEW allowed \in SUBSET Categories,
           file' = [file EXCEPT ![d] = [version |-> file[d].version + 1, allowed |-> allowed]],
           file[d].version < MaxGrants, UNCHANGED run,
           DOMAIN editor' = Editors, DOMAIN starter' = Starters,
           chosen' \in [G!Destinations -> Grants], PagesKnown', G!UsersScopeInForce'
    PROVE  GrantsInv'
<1>1. file \in [G!Destinations -> Grants]
  BY DEF GrantsInv, G!TypeOK, Grants
<1>2. /\ file'[d].version = file[d].version + 1 /\ file[d].version \in Nat
      /\ \A c \in G!Destinations \ {d} : file'[c] = file[c]
      /\ \A c \in G!Destinations : file[c].version \in Nat
  BY <1>1, BoundsAssumption DEF Grants
<1>3. [version |-> file[d].version + 1, allowed |-> allowed] \in Grants
  BY <1>2, BoundsAssumption DEF Grants
<1>4. file' \in [G!Destinations -> Grants]
  BY <1>1, <1>3
<1>5. RunsKnown'
  BY <1>2 DEF GrantsInv, RunsKnown
<1>6. G!SentWasGranted'
  <2>1. ASSUME NEW r \in Runs, run[r].pc = "sent"
        PROVE  /\ Request \in run[r].sent
               /\ run[r].since = file'[run[r].to].version =>
                     run[r].sent \subseteq G!Allowed(run[r].to)'
    <3>1. /\ run[r].to \in G!Destinations /\ run[r].since \in Nat
          /\ run[r].since <= file[run[r].to].version /\ Request \in run[r].sent
          /\ run[r].since = file[run[r].to].version => run[r].sent \subseteq G!Allowed(run[r].to)
      BY <2>1 DEF GrantsInv, RunsKnown, G!SentWasGranted
    <3>2. CASE run[r].to = d
      BY <1>2, <3>1, <3>2
    <3>3. CASE run[r].to # d
      <4>1. file'[run[r].to] = file[run[r].to]
        BY <1>2, <3>1, <3>3
      <4>2. G!Allowed(run[r].to)' = G!Allowed(run[r].to)
        BY <4>1 DEF G!Allowed
      <4> QED BY <3>1, <4>1, <4>2
    <3> QED BY <3>2, <3>3
  <2> QED BY <2>1 DEF G!SentWasGranted
<1> QED BY <1>4, <1>5, <1>6 DEF GrantsInv, G!TypeOK, Grants

LEMMA GrantsNext == GrantsInv /\ [G!Next]_grantsVars => GrantsInv'
<1> SUFFICES ASSUME GrantsInv, [G!Next]_grantsVars PROVE GrantsInv'
  OBVIOUS
<1>0. /\ file \in [G!Destinations -> Grants] /\ DOMAIN editor = Editors
      /\ DOMAIN starter = Starters /\ run \in [Runs -> Running]
      /\ chosen \in [G!Destinations -> Grants]
      /\ PagesKnown /\ RunsKnown /\ G!UsersScopeInForce /\ G!SentWasGranted
  BY DEF GrantsInv, G!TypeOK, Grants
<1>1. CASE UNCHANGED grantsVars
  BY <1>1, <1>0, FileStays DEF grantsVars, PagesKnown, RunsKnown, G!SentWasGranted, G!Allowed
\* Pages and starts.
<1>2. ASSUME UNCHANGED <<file, run, chosen>>, DOMAIN editor' = Editors,
             DOMAIN starter' = Starters, PagesKnown'
      PROVE  GrantsInv'
  BY <1>0, <1>2, FileStays DEF RunsKnown, G!SentWasGranted, G!Allowed
<1>3. ASSUME NEW e \in Editors,
             G!ChangeConflict(e) \/ \E d \in G!Destinations : G!ShowScope(e, d)
      PROVE  GrantsInv'
  BY <1>0, <1>2, <1>3 DEF G!ChangeConflict, G!ShowScope, PagesKnown, G!Unset
<1>4. ASSUME NEW e \in Editors, NEW allowed \in SUBSET Categories, G!ChangeScope(e, allowed)
      PROVE  GrantsInv'
  <2> DEFINE d == editor[e].to
  <2>1. /\ d \in G!Destinations /\ file[d].version < MaxGrants
        /\ file' = [file EXCEPT ![d] = [version |-> file[d].version + 1, allowed |-> allowed]]
        /\ chosen' = [chosen EXCEPT ![d] = file'[d]]
        /\ editor' = [editor EXCEPT ![e] = G!Unset] /\ UNCHANGED <<starter, run>>
    BY <1>0, <1>4 DEF G!ChangeScope, G!Save, PagesKnown
  <2> HIDE DEF d
  <2>2. DOMAIN editor' = Editors /\ PagesKnown'
    BY <1>0, <2>1 DEF PagesKnown, G!Unset
  <2>3. G!UsersScopeInForce' /\ chosen' \in [G!Destinations -> Grants]
    <3>1. \A c \in G!Destinations \ {d} : file'[c] = file[c] /\ chosen'[c] = chosen[c]
      BY <1>0, <2>1
    <3>2. chosen'[d] = file'[d] /\ file'[d] = [version |-> file[d].version + 1, allowed |-> allowed]
      BY <1>0, <2>1
    <3>3. file'[d] \in Grants
      BY <1>0, <2>1, <3>2, BoundsAssumption DEF Grants
    <3>4. chosen' \in [G!Destinations -> Grants]
      BY <1>0, <2>1, <3>3
    <3> QED BY <1>0, <3>1, <3>2, <3>4 DEF G!UsersScopeInForce
  <2> QED BY <1>0, <2>1, <2>2, <2>3, FileGrows
<1>5. ASSUME NEW s \in Starters, NEW d \in Cloud,
             G!LookForGrant(s, d) \/ G!FirstGrantConflict(s, d)
      PROVE  GrantsInv'
  BY <1>0, <1>2, <1>5 DEF G!LookForGrant, G!FirstGrantConflict, PagesKnown
<1>6. ASSUME NEW s \in Starters, NEW d \in Cloud, G!CreateFirstGrant(s, d)
      PROVE  GrantsInv'
  <2>1. /\ d \in G!Destinations /\ file[d].version = 0
        /\ file' = [file EXCEPT ![d] = [version |-> 0 + 1, allowed |-> Categories]]
        /\ DOMAIN starter' = Starters /\ UNCHANGED <<editor, run, chosen>>
    BY <1>0, <1>6 DEF G!CreateFirstGrant, G!Save, G!Destinations
  <2>2. G!UsersScopeInForce'
    <3>1. file'[d] = [version |-> 1, allowed |-> Categories] /\ chosen[d].version = 0
      BY <1>0, <2>1 DEF G!UsersScopeInForce
    <3>2. \A c \in G!Destinations \ {d} : file'[c] = file[c]
      BY <1>0, <2>1
    <3> QED BY <1>0, <2>1, <3>1, <3>2 DEF G!UsersScopeInForce
  <2>3. PagesKnown' /\ DOMAIN editor' = Editors /\ file[d].version < MaxGrants
        /\ chosen' \in [G!Destinations -> Grants]
        /\ Categories \in SUBSET Categories
    BY <1>0, <2>1, BoundsAssumption DEF PagesKnown
  <2> QED BY <2>1, <2>2, <2>3, FileGrows
\* Runs.
<1>7. ASSUME NEW r \in Runs, NEW doing \in Running, run' = [run EXCEPT ![r] = doing],
             UNCHANGED <<file, editor, starter, chosen>>,
             doing.pc \in {"begun", "sent"} =>
                /\ doing.to \in G!Destinations /\ doing.since \in Nat
                /\ doing.since <= file[doing.to].version,
             doing.pc = "sent" => Request \in doing.sent /\ doing.sent = G!Allowed(doing.to)
      PROVE  GrantsInv'
  <2>1. /\ run'[r] = doing /\ run' \in [Runs -> Running]
        /\ \A q \in Runs \ {r} : run'[q] = run[q]
    BY <1>0, <1>7
  <2>2. RunsKnown' /\ PagesKnown'
    BY <1>0, <1>7, <2>1 DEF RunsKnown, PagesKnown
  <2>3. \A d : G!Allowed(d)' = G!Allowed(d)
    BY <1>7 DEF G!Allowed
  <2>4. G!SentWasGranted'
    BY <1>0, <1>7, <2>1, <2>3 DEF G!SentWasGranted
  <2> QED BY <1>0, <1>7, <2>1, <2>2, <2>4, FileStays
<1>8. ASSUME NEW r \in Runs, NEW d \in G!Destinations, G!BeginRun(r, d) PROVE GrantsInv'
  <2> DEFINE doing == [pc |-> "begun", to |-> d, since |-> file[d].version, sent |-> {}]
  <2>1. run' = [run EXCEPT ![r] = doing] /\ UNCHANGED <<file, editor, starter, chosen>>
    BY <1>8 DEF G!BeginRun
  <2>2. file[d].version \in Nat
    BY <1>0, BoundsAssumption DEF Grants
  <2>3. /\ doing.to = d /\ doing.since = file[d].version /\ doing.pc = "begun"
        /\ doing \in Running
    BY <2>2 DEF Running
  <2> HIDE DEF doing
  <2>4. /\ doing.to \in G!Destinations /\ doing.since \in Nat
        /\ doing.since <= file[doing.to].version /\ ~(doing.pc = "sent")
    BY <2>2, <2>3
  <2> QED BY <1>7, <2>1, <2>3, <2>4
<1>9. G!NotRunning.pc = "idle" /\ G!NotRunning \in Running
  BY DEF G!NotRunning, Running
<1>10. ASSUME NEW r \in Runs, G!Finish(r) PROVE GrantsInv'
  BY <1>7, <1>9, <1>10 DEF G!Finish
<1>11. ASSUME NEW r \in Runs, G!Evaluate(r) PROVE GrantsInv'
  <2> DEFINE allowed == G!Allowed(run[r].to)
             doing == [run[r] EXCEPT !.pc = "sent", !.sent = allowed]
  <2>1. /\ run[r].pc = "begun" /\ UNCHANGED <<file, editor, starter, chosen>>
        /\ run' = [run EXCEPT ![r] = IF Request \in allowed THEN doing ELSE G!NotRunning]
    BY <1>11 DEF G!Evaluate
  <2>2. CASE Request \in allowed
    <3>1. /\ doing.to = run[r].to /\ doing.since = run[r].since /\ doing.sent = allowed
          /\ doing \in Running
      <4>1. allowed \in SUBSET Categories
        BY <1>0, <2>1 DEF G!Allowed, RunsKnown, Grants
      <4> HIDE DEF allowed
      <4>2. run[r] \in Running
        BY <1>0
      <4> QED BY <4>1, <4>2 DEF Running
    <3>2. run[r].to \in G!Destinations /\ run[r].since \in Nat
          /\ run[r].since <= file[run[r].to].version
      BY <1>0, <2>1 DEF RunsKnown
    <3>3. run' = [run EXCEPT ![r] = doing]
      BY <2>1, <2>2
    <3> HIDE DEF doing
    <3> QED BY <1>7, <2>1, <2>2, <3>1, <3>2, <3>3
  <2>3. CASE Request \notin allowed
    BY <1>7, <1>9, <2>1, <2>3
  <2> QED BY <2>2, <2>3
<1> QED BY <1>1, <1>3, <1>4, <1>5, <1>6, <1>8, <1>10, <1>11 DEF G!Next

-----------------------------------------------------------------------------
(* The sessions of a channel.                                              *)

\* No session, or one of the rows.
Known(rows, s) == s = Nothing \/ s \in DOMAIN rows

\* A page is never ahead of the selection.  While its rendering is half done it
\* shows the selection of the revision at which the rendering began.
PageBehind ==
    /\ selected.rev \in Nat /\ page.rev \in 0..selected.rev /\ page.began \in 0..selected.rev
    /\ page.pc \in {"half", "done"}
    /\ page.began = selected.rev /\ (page.pc = "done" => page.rev = selected.rev) =>
          page.sid = selected.sid

SessionsKnown ==
    /\ Known(sessions, selected.sid) /\ Known(sessions, page.sid)
    /\ DOMAIN caller = Callers
    /\ \A c \in Callers : caller[c].pc \in {"idle", "none", "has"} /\ Known(sessions, caller[c].sid)

SelectionInv == PageBehind /\ SessionsKnown

LEMMA SelectionInit == S!Init => SelectionInv
BY DEF S!Init, SelectionInv, PageBehind, SessionsKnown, Known

LEMMA SelectionNext == SelectionInv /\ [S!Next]_sessionsVars => SelectionInv'
<1> SUFFICES ASSUME SelectionInv, [S!Next]_sessionsVars PROVE SelectionInv'
  OBVIOUS
<1> DEFINE Goal == SelectionInv'
<1>1. CASE UNCHANGED sessionsVars
  BY <1>1 DEF sessionsVars, SelectionInv, PageBehind, SessionsKnown, Known
\* Sessions are only added.
<1>2. ASSUME NEW s, NEW origin, S!InsertSession(s, origin)
      PROVE  s \in DOMAIN sessions' /\ \A t : Known(sessions, t) => Known(sessions', t)
  BY <1>2 DEF S!InsertSession, Known
\* A selection leaves every page behind.
<1>3. ASSUME NEW s, S!SelectionBecomes(s), UNCHANGED page
      PROVE  PageBehind' /\ selected'.sid = s
  BY <1>3 DEF S!SelectionBecomes, SelectionInv, PageBehind
<1>4. ASSUME NEW s, S!CreateSession(s) PROVE Goal
  <2>1. \A t : Known(sessions, t) => Known(sessions', t)
    BY <1>2, <1>4 DEF S!CreateSession
  <2> QED BY <1>4, <2>1 DEF S!CreateSession, SelectionInv, PageBehind, SessionsKnown, Known
<1>5. ASSUME NEW s, NEW origin, NEW expected, S!CreateAndSelect(s, origin, expected), UNCHANGED page
      PROVE  PageBehind' /\ Known(sessions', s) /\ selected'.sid = s /\ \A t : Known(sessions, t) => Known(sessions', t)
  <2>1. s \in DOMAIN sessions' /\ \A t : Known(sessions, t) => Known(sessions', t)
    BY <1>2, <1>5 DEF S!CreateAndSelect
  <2>2. PageBehind' /\ selected'.sid = s
    BY <1>3, <1>5 DEF S!CreateAndSelect
  <2> QED BY <2>1, <2>2 DEF Known
<1>6. ASSUME NEW s, S!NewSession(s) \/ S!StartFirstSession(s) PROVE Goal
  <2>1. UNCHANGED <<page, caller>>
    BY <1>6 DEF S!NewSession, S!StartFirstSession
  <2>2. PICK origin, expected : S!CreateAndSelect(s, origin, expected)
    BY <1>6 DEF S!NewSession, S!StartFirstSession
  <2>3. PageBehind' /\ Known(sessions', s) /\ selected'.sid = s /\ \A t : Known(sessions, t) => Known(sessions', t)
    BY <1>5, <2>1, <2>2
  <2> QED BY <2>1, <2>3 DEF SelectionInv, SessionsKnown, Known
<1>7. ASSUME NEW s, S!SelectSession(s) PROVE Goal
  <2>1. s \in DOMAIN sessions /\ UNCHANGED <<sessions, page, caller>> /\ S!SelectionBecomes(s)
    BY <1>7 DEF S!SelectSession, S!Exists
  <2>2. PageBehind' /\ selected'.sid = s
    BY <1>3, <2>1
  <2> QED BY <2>1, <2>2 DEF SelectionInv, SessionsKnown, Known
<1>8. CASE S!RenderSession
  BY <1>8 DEF S!RenderSession, SelectionInv, PageBehind, SessionsKnown, Known
<1>9. CASE S!RenderRevision
  <2> DEFINE rendered == [page EXCEPT !.rev = selected.rev, !.pc = "done"]
  <2>1. page' = rendered /\ page.pc = "half" /\ UNCHANGED <<sessions, selected, caller>>
    BY <1>9 DEF S!RenderRevision
  <2>2. rendered.sid = page.sid /\ rendered.began = page.began
    OBVIOUS
  <2>3. \/ rendered.rev = selected.rev /\ rendered.pc = "done"
        \/ rendered = page
    OBVIOUS
  <2> HIDE DEF rendered
  <2> QED BY <2>1, <2>2, <2>3 DEF SelectionInv, PageBehind, SessionsKnown, Known
\* A request keeps the session it found or created.
<1>10. ASSUME NEW c \in Callers, NEW doing, Known(sessions', doing.sid), doing.pc \in {"idle", "none", "has"},
              caller' = [caller EXCEPT ![c] = doing], \A t : Known(sessions, t) => Known(sessions', t)
       PROVE  /\ DOMAIN caller' = Callers
              /\ \A d \in Callers : /\ caller'[d].pc \in {"idle", "none", "has"}
                                    /\ Known(sessions', caller'[d].sid)
  <2>1. DOMAIN caller = Callers
    BY DEF SelectionInv, SessionsKnown
  <2>2. caller'[c] = doing /\ DOMAIN caller' = Callers
    BY <1>10, <2>1
  <2>3. \A d \in Callers \ {c} : caller'[d] = caller[d]
    BY <1>10, <2>1
  <2>4. \A d \in Callers : caller[d].pc \in {"idle", "none", "has"} /\ Known(sessions, caller[d].sid)
    BY DEF SelectionInv, SessionsKnown
  <2>5. ASSUME NEW d \in Callers \ {c}
        PROVE  caller'[d].pc \in {"idle", "none", "has"} /\ Known(sessions', caller'[d].sid)
    <3>1. Known(sessions', caller[d].sid) /\ caller'[d] = caller[d]
      BY <2>3, <2>4, <1>10 DEF Known
    <3> QED BY <2>4, <3>1 DEF Known
  <2> QED BY <1>10, <2>2, <2>5 DEF Known
<1>11. ASSUME NEW c \in Callers, S!LookUp(c) PROVE Goal
  <2> DEFINE doing == [pc |-> IF selected.sid = Nothing THEN "none" ELSE "has", sid |-> selected.sid]
  <2>1. caller' = [caller EXCEPT ![c] = doing] /\ UNCHANGED <<sessions, selected, page>>
    BY <1>11 DEF S!LookUp
  <2>2. Known(sessions', doing.sid) /\ doing.pc \in {"idle", "none", "has"} /\ \A t : Known(sessions, t) => Known(sessions', t)
    BY <2>1 DEF SelectionInv, SessionsKnown, Known
  <2> HIDE DEF doing
  <2>3. /\ DOMAIN caller' = Callers
        /\ \A d \in Callers : caller'[d].pc \in {"idle", "none", "has"} /\ Known(sessions', caller'[d].sid)
    BY <1>10, <2>1, <2>2
  <2> QED BY <2>1, <2>3 DEF SelectionInv, PageBehind, SessionsKnown, Known
<1>12. ASSUME NEW c \in Callers, S!EnsureSelected(c) PROVE Goal
  <2>0. UNCHANGED page
    BY <1>12 DEF S!EnsureSelected
  <2>1. CASE caller' = [caller EXCEPT ![c] = [pc |-> "has", sid |-> selected.sid]]
              /\ UNCHANGED <<sessions, selected>>
    <3> DEFINE doing == [pc |-> "has", sid |-> selected.sid]
    <3>1. Known(sessions', doing.sid) /\ doing.pc \in {"idle", "none", "has"} /\ \A t : Known(sessions, t) => Known(sessions', t)
      BY <2>1 DEF SelectionInv, SessionsKnown, Known
    <3>2. caller' = [caller EXCEPT ![c] = doing]
      BY <2>1
    <3> HIDE DEF doing
    <3>3. /\ DOMAIN caller' = Callers
          /\ \A d \in Callers : caller'[d].pc \in {"idle", "none", "has"} /\ Known(sessions', caller'[d].sid)
      BY <1>10, <3>1, <3>2
    <3> QED BY <2>0, <2>1, <3>3 DEF SelectionInv, PageBehind, SessionsKnown, Known
  <2>2. ASSUME NEW s, S!CreateAndSelect(s, "first-use", Nothing),
               caller' = [caller EXCEPT ![c] = [pc |-> "has", sid |-> s]]
        PROVE  Goal
    <3> DEFINE doing == [pc |-> "has", sid |-> s]
    <3>1. PageBehind' /\ Known(sessions', s) /\ selected'.sid = s /\ \A t : Known(sessions, t) => Known(sessions', t)
      BY <1>5, <2>0, <2>2
    <3>2. doing.sid = s /\ doing.pc = "has" /\ caller' = [caller EXCEPT ![c] = doing]
      BY <2>2
    <3> HIDE DEF doing
    <3>3. /\ DOMAIN caller' = Callers
          /\ \A d \in Callers : caller'[d].pc \in {"idle", "none", "has"} /\ Known(sessions', caller'[d].sid)
      <4>1. Known(sessions', doing.sid)
        BY <3>1, <3>2 DEF Known
      <4> QED BY <1>10, <3>1, <3>2, <4>1
    <3>4. Known(sessions', page.sid)
      BY <2>0, <3>1 DEF SelectionInv, SessionsKnown, Known
    <3> QED BY <2>0, <3>1, <3>3, <3>4 DEF SelectionInv, SessionsKnown, Known
  <2> QED BY <1>12, <2>1, <2>2 DEF S!EnsureSelected
<1> QED BY <1>1, <1>4, <1>6, <1>7, <1>8, <1>9, <1>11, <1>12 DEF S!Next

-----------------------------------------------------------------------------
(* One run of a model.                                                     *)

Spoken == {"model", "replacement", "emergency", "uncertain"}
InDanger == task.clauses \cap {"self", "other"} # {}

\* Nothing is said, recorded or kept before the answer is dealt with.
NothingYet == reply = Nothing /\ record = Nothing /\ left = {} /\ gained = {} /\ outcome = Nothing

StagesHold ==
    /\ stage = "asked" => NothingYet /\ attempts = 0
    /\ stage \in {"calling", "answered", "failed"} => NothingYet /\ ~InDanger
    /\ stage = "calling" => attempts <= MaxRetries
    /\ stage = "answered" => reported = attempts
    /\ stage = "writing" => outcome = Nothing

\* What the caller is about to get is on record, and what is left of the
\* transcript is the user's message before the answer.
SpeechRecorded ==
    /\ reply \in Spoken =>
          /\ record # Nothing /\ record.status # "failed" /\ record.calls = attempts
          /\ record.status = "succeeded" =>
                ~task.limited /\ task.clauses = {"none"} /\ reply = "model"
          /\ task.kept => "user" \in left \cup gained
    /\ "assistant" \in left \cup gained => reply \in Spoken
    /\ "assistant" \in gained => "user" \notin left
    /\ outcome \in Spoken => outcome = reply /\ left = {}

RunInv == R!TypeOK /\ StagesHold /\ SpeechRecorded /\ R!SpeechIsSafe

LEMMA RunInit == R!Init => RunInv
<1> SUFFICES ASSUME R!Init PROVE RunInv
  OBVIOUS
<1>1. R!TypeOK
  BY BoundsAssumption DEF R!Init, R!TypeOK, R!Answers, R!Replies
<1>2. R!Useless.unquoted = FALSE /\ R!Useless.quoted = FALSE
  BY DEF R!Useless
<1> QED BY <1>1, <1>2, NothingAssumption DEF R!Init, RunInv, StagesHold, NothingYet, SpeechRecorded,
           R!SpeechIsSafe, Spoken

\* What the application says itself, and when the danger is none.
LEMMA Responses ==
    ASSUME NEW clauses
    PROVE  /\ R!DangerResponse(R!Danger(clauses)) = Nothing =>
                 clauses \cap {"self", "other"} = {}
           /\ R!DangerResponse(R!Danger(clauses)) # Nothing =>
                 /\ R!DangerResponse(R!Danger(clauses)) \in {"emergency", "uncertain"}
                 /\ clauses \cap {"self", "other"} # {} =>
                       R!DangerResponse(R!Danger(clauses)) = "emergency"
           /\ clauses \in (SUBSET R!ClauseKinds) \ {{}} /\ R!Danger(clauses) = "none" =>
                 clauses = {"none"}
<1>1. R!Danger(clauses) \in {"self", "other"} <=> clauses \cap {"self", "other"} # {}
  BY DEF R!Danger
<1>2. R!DangerResponse(R!Danger(clauses)) # Nothing <=>
        R!Danger(clauses) \in {"self", "other", "ambiguous"}
  BY NothingAssumption DEF R!DangerResponse
<1>3. /\ R!Danger(clauses) \in {"self", "other"} => R!DangerResponse(R!Danger(clauses)) = "emergency"
      /\ R!Danger(clauses) = "ambiguous" => R!DangerResponse(R!Danger(clauses)) = "uncertain"
  BY DEF R!DangerResponse
<1>4. ASSUME clauses \in (SUBSET R!ClauseKinds) \ {{}}, R!Danger(clauses) = "none"
      PROVE  clauses = {"none"}
  <2>1. "self" \notin clauses /\ "other" \notin clauses /\ "ambiguous" \notin clauses
        /\ clauses \cap {"quotation", "historical", "hypothetical"} = {}
    BY <1>4 DEF R!Danger
  <2>2. \A k \in clauses : k = "none"
    BY <1>4, <2>1 DEF R!ClauseKinds
  <2>3. PICK k \in clauses : TRUE
    BY <1>4
  <2>4. \A n \in {"none"} : n \in clauses
    BY <2>2, <2>3
  <2>5. clauses \subseteq {"none"} /\ {"none"} \subseteq clauses
    BY <2>2, <2>4
  <2> QED BY <2>5, Zenon
<1> QED BY <1>1, <1>2, <1>3, <1>4

LEMMA TasksAsked ==
    ASSUME task \in R!Tasks
    PROVE  /\ task.clauses \in (SUBSET R!ClauseKinds) \ {{}}
           /\ task.kind # "message" =>
                 ~task.limited /\ ~task.kept /\ task.clauses = {"none"}
<1>1. CASE task \in [kind : {"message"}, clauses : (SUBSET R!ClauseKinds) \ {{}},
                    limited : BOOLEAN, kept : BOOLEAN]
  BY <1>1
<1>2. CASE task \in [kind : {"reckoning"}, clauses : {{"none"}}, limited : {FALSE}, kept : {FALSE}]
  <2>1. task.clauses = {"none"} /\ task.limited = FALSE /\ task.kept = FALSE
    BY <1>2
  <2>2. {"none"} \in (SUBSET R!ClauseKinds) \ {{}}
    BY DEF R!ClauseKinds
  <2>3. task.clauses \in (SUBSET R!ClauseKinds) \ {{}}
    <3> DEFINE K == (SUBSET R!ClauseKinds) \ {{}}
    <3>1. {"none"} \in K
      BY <2>2
    <3> HIDE DEF K
    <3>2. task.clauses \in K
      BY <2>1, <3>1, Zenon
    <3> QED BY <3>2 DEF K
  <2> QED BY <2>1, <2>3
<1> QED BY <1>1, <1>2 DEF R!Tasks

LEMMA RunNext == RunInv /\ [R!Next]_runsVars => RunInv'
<1> SUFFICES ASSUME RunInv, [R!Next]_runsVars PROVE RunInv'
  OBVIOUS
<1> DEFINE Goal == RunInv'
<1>1. CASE UNCHANGED runsVars
  BY <1>1 DEF runsVars, RunInv, R!TypeOK, StagesHold, NothingYet, InDanger, SpeechRecorded,
              R!SpeechIsSafe
<1>2. R!TypeOK /\ StagesHold /\ SpeechRecorded /\ R!SpeechIsSafe
  BY DEF RunInv
<1>3. ASSUME NEW status \in {"succeeded", "limited", "failed"}, NEW calls \in 0..MaxRetries + 1,
             NEW roles \in SUBSET {"user", "assistant"}, NEW says \in R!Replies,
             R!Recorded(status, calls, roles, says), NothingYet,
             InDanger => attempts = 0 /\ says = "emergency",
             says = "model" => ~content.unquoted /\ (content.quoted => content.framed),
             "assistant" \in roles => says \in Spoken,
             says \in Spoken =>
                /\ status # "failed" /\ calls = attempts /\ (task.kept => "user" \in roles)
                /\ status = "succeeded" =>
                      ~task.limited /\ task.clauses = {"none"} /\ says = "model"
      PROVE  Goal
  <2> DEFINE entry == [status |-> status, calls |-> calls]
  <2>1. /\ record' = entry /\ left' = (IF task.kept THEN roles ELSE {})
        /\ reply' = says /\ stage' = "writing"
        /\ UNCHANGED <<task, attempts, content, reported, gained, outcome>>
    BY <1>3 DEF R!Recorded
  <2>2. entry.status = status /\ entry.calls = calls /\ entry # Nothing
        /\ entry \in [status : {"succeeded", "limited", "failed"}, calls : 0..MaxRetries + 1]
    BY NothingAssumption
  <2> HIDE DEF entry
  <2>3. R!TypeOK'
    BY <1>2, <2>1, <2>2 DEF R!TypeOK
  <2>4. StagesHold'
    BY <1>3, <2>1 DEF StagesHold, NothingYet
  <2>5. SpeechRecorded'
    BY <1>3, <2>1, <2>2, NothingAssumption DEF SpeechRecorded, NothingYet, Spoken
  <2>6. R!SpeechIsSafe'
    BY <1>2, <1>3, <2>1 DEF R!SpeechIsSafe, InDanger
  <2> QED BY <2>3, <2>4, <2>5, <2>6 DEF RunInv
<1>4. CASE R!Safeguard
  <2> DEFINE response == R!DangerResponse(R!Danger(task.clauses))
  <2>1. stage = "asked" /\ response # Nothing
        /\ R!Recorded("limited", 0, {"user", "assistant"}, response)
    BY <1>4 DEF R!Safeguard
  <2>2. response \in {"emergency", "uncertain"} /\ (InDanger => response = "emergency")
    BY <2>1, Responses DEF InDanger
  <2>3. NothingYet /\ attempts = 0
    BY <1>2, <2>1 DEF StagesHold
  <2> HIDE DEF response
  <2>4. response \in R!Replies /\ response \in Spoken /\ response # "model"
    BY <2>2 DEF R!Replies, Spoken
  <2>5. 0 \in 0..MaxRetries + 1
    BY BoundsAssumption
  <2> QED BY <1>3, <2>1, <2>2, <2>3, <2>4, <2>5
<1>5. CASE R!Send
  <2>1. ~InDanger
    <3>1. CASE task.kind = "message"
      BY <1>5, <3>1, Responses DEF R!Send, InDanger
    <3>2. CASE task.kind # "message"
      BY <1>2, <3>2, TasksAsked DEF R!TypeOK, InDanger
    <3> QED BY <3>1, <3>2
  <2>2. /\ stage = "asked" /\ stage' = "calling"
        /\ UNCHANGED <<task, attempts, content, reported, record, left, gained, reply, outcome>>
    BY <1>5 DEF R!Send
  <2>3. R!TypeOK' /\ StagesHold'
    BY <1>2, <2>1, <2>2, BoundsAssumption DEF R!TypeOK, StagesHold, NothingYet, InDanger
  <2> QED BY <1>2, <2>2, <2>3 DEF RunInv, SpeechRecorded, R!SpeechIsSafe
\* The end of a run before anything was said.
<1>6. ASSUME stage \in {"asked", "calling"}, outcome' = "raised", stage' = "done",
             attempts' \in 0..MaxRetries + 1, attempts' # attempts => stage = "calling",
             UNCHANGED <<task, content, reported, record, left, gained, reply>>
      PROVE  Goal
  <2>1. NothingYet
    BY <1>2, <1>6 DEF StagesHold
  <2>2. R!TypeOK'
    BY <1>2, <1>6 DEF R!TypeOK, R!Replies
  <2>3. StagesHold'
    BY <1>6 DEF StagesHold
  <2>4. SpeechRecorded'
    BY <1>6, <2>1, NothingAssumption DEF SpeechRecorded, NothingYet, Spoken
  <2>5. R!SpeechIsSafe'
    BY <1>2, <1>6, <2>1, NothingAssumption DEF StagesHold, R!SpeechIsSafe, InDanger, NothingYet
  <2> QED BY <2>2, <2>3, <2>4, <2>5 DEF RunInv
<1>7. CASE R!Refuse
  BY <1>2, <1>6, <1>7 DEF R!Refuse, R!TypeOK
<1>8. stage = "calling" => attempts + 1 \in 0..MaxRetries + 1
  BY <1>2, BoundsAssumption DEF R!TypeOK, StagesHold
<1>9. CASE R!Unexpected
  BY <1>6, <1>8, <1>9 DEF R!Unexpected
\* One request and what becomes of it.
<1>10. ASSUME NEW next \in {"calling", "answered", "failed"}, NEW report \in 0..MaxRetries + 1,
              R!Attempt(next, report), content' \in R!Answers,
              next = "calling" => attempts < MaxRetries,
              next = "answered" => report = attempts + 1
       PROVE  Goal
  <2>1. /\ stage = "calling" /\ attempts' = attempts + 1 /\ stage' = next /\ reported' = report
        /\ UNCHANGED <<task, record, left, gained, reply, outcome>>
    BY <1>10 DEF R!Attempt
  <2>2. NothingYet /\ ~InDanger
    BY <1>2, <2>1 DEF StagesHold
  <2>3. R!TypeOK'
    BY <1>2, <1>8, <1>10, <2>1 DEF R!TypeOK
  <2>4. StagesHold'
    BY <1>2, <1>10, <2>1, <2>2, BoundsAssumption DEF R!TypeOK, StagesHold, NothingYet, InDanger
  <2>5. SpeechRecorded' /\ R!SpeechIsSafe'
    BY <2>1, <2>2, NothingAssumption DEF SpeechRecorded, R!SpeechIsSafe, NothingYet, InDanger, Spoken
  <2> QED BY <2>3, <2>4, <2>5 DEF RunInv
<1>11. content \in R!Answers /\ 0 \in 0..MaxRetries + 1
  BY <1>2, BoundsAssumption DEF R!TypeOK
<1>12. ASSUME NEW answer \in R!Answers, R!Answer(answer) PROVE Goal
  <2>1. R!Attempt("answered", attempts + 1) /\ content' = answer
    BY <1>12 DEF R!Answer, R!Calls
  <2>2. stage = "calling"
    BY <2>1 DEF R!Attempt
  <2> QED BY <1>8, <1>10, <1>12, <2>1, <2>2
<1>13. CASE R!Unreachable
  <2>1. content' = content
    BY <1>13 DEF R!Unreachable
  <2>2. CASE attempts < MaxRetries /\ R!Attempt("calling", 0)
    BY <1>10, <1>11, <2>1, <2>2
  <2>3. CASE R!Attempt("failed", attempts + 1)
    <3>1. stage = "calling"
      BY <2>3 DEF R!Attempt
    <3> QED BY <1>8, <1>10, <1>11, <2>1, <2>3, <3>1
  <2> QED BY <1>13, <2>2, <2>3 DEF R!Unreachable, R!Calls
<1>14. CASE R!Rejected
  <2>1. R!Attempt("failed", attempts + 1) /\ content' = content
    BY <1>14 DEF R!Rejected, R!Calls
  <2>2. stage = "calling"
    BY <2>1 DEF R!Attempt
  <2> QED BY <1>8, <1>10, <1>11, <2>1, <2>2
<1>15. CASE R!CutOff
  <2>1. R!Attempt("failed", 0) /\ content' = content
    BY <1>15 DEF R!CutOff
  <2> QED BY <1>10, <1>11, <2>1
\* A failed run says nothing.
<1>16. CASE R!Fail \/ R!Unusable
  <2>1. stage \in {"failed", "answered"} /\ R!Recorded("failed", reported, {"user"}, "raised")
    BY <1>16 DEF R!Fail, R!Unusable
  <2>2. NothingYet /\ ~InDanger /\ reported \in 0..MaxRetries + 1
    BY <1>2, <2>1 DEF StagesHold, R!TypeOK
  <2>3. "raised" \in R!Replies /\ "raised" \notin Spoken
    BY DEF R!Replies, Spoken
  <2> QED BY <1>3, <2>1, <2>2, <2>3
<1>17. stage = "answered" => NothingYet /\ ~InDanger /\ reported = attempts
                             /\ reported \in 0..MaxRetries + 1
  BY <1>2 DEF StagesHold, R!TypeOK
<1>18. R!Policy(content) = "allow" => ~content.unquoted /\ (content.quoted => content.framed)
  BY DEF R!Policy
<1>19. CASE R!Deliver
  <2> DEFINE spoken == IF R!Policy(content) = "allow" THEN "model" ELSE "replacement"
             full == ~task.limited /\ spoken = "model" /\ R!Danger(task.clauses) = "none"
             status == IF full THEN "succeeded" ELSE "limited"
  <2>1. stage = "answered" /\ R!Recorded(status, reported, {"user", "assistant"}, spoken)
    BY <1>19 DEF R!Deliver
  <2>2. spoken \in {"model", "replacement"} /\ (spoken = "model" => R!Policy(content) = "allow")
    OBVIOUS
  <2>3. full => ~task.limited /\ task.clauses = {"none"} /\ spoken = "model"
    BY <1>2, TasksAsked, Responses DEF R!TypeOK
  <2>4. status \in {"succeeded", "limited"} /\ (status = "succeeded" => full)
    OBVIOUS
  <2> HIDE DEF spoken, full, status
  <2>5. spoken \in R!Replies /\ spoken \in Spoken
    BY <2>2 DEF R!Replies, Spoken
  <2> QED BY <1>3, <1>17, <1>18, <2>1, <2>2, <2>3, <2>4, <2>5
<1>20. CASE R!Reckon
  <2>1. stage = "answered" /\ task.kind # "message"
    BY <1>20 DEF R!Reckon, R!ToUser
  <2>2. ~task.limited /\ ~task.kept /\ task.clauses = {"none"}
    BY <1>2, <2>1, TasksAsked DEF R!TypeOK
  <2>3. "raised" \in R!Replies /\ "raised" \notin Spoken /\ "model" \in R!Replies
    BY DEF R!Replies, Spoken
  <2>4. CASE R!Policy(content) = "allow" /\ R!Recorded("succeeded", reported, {}, "model")
    BY <1>3, <1>17, <1>18, <2>1, <2>2, <2>3, <2>4
  <2>5. CASE R!Recorded("limited", reported, {}, "raised")
    BY <1>3, <1>17, <2>1, <2>2, <2>3, <2>5
  <2> QED BY <1>20, <2>4, <2>5 DEF R!Reckon
<1>21. ASSUME NEW role \in {"user", "assistant"}, R!Append(role) PROVE Goal
  <2>1. /\ stage = "writing" /\ role \in left /\ (role = "assistant" => "user" \notin left)
        /\ left' = left \ {role} /\ gained' = gained \cup {role}
        /\ UNCHANGED <<task, stage, attempts, content, reported, record, reply, outcome>>
    BY <1>21 DEF R!Append
  <2>2. R!TypeOK' /\ StagesHold' /\ R!SpeechIsSafe'
    BY <1>2, <2>1 DEF R!TypeOK, StagesHold, R!SpeechIsSafe
  <2>3. SpeechRecorded'
    BY <1>2, <2>1, NothingAssumption DEF StagesHold, SpeechRecorded, Spoken
  <2> QED BY <2>2, <2>3 DEF RunInv
<1>22. CASE R!Tell
  <2>1. /\ stage = "writing" /\ left = {} /\ outcome' = reply /\ stage' = "done"
        /\ UNCHANGED <<task, attempts, content, reported, record, left, gained, reply>>
    BY <1>22 DEF R!Tell
  <2> QED BY <1>2, <2>1 DEF RunInv, R!TypeOK, StagesHold, SpeechRecorded, R!SpeechIsSafe
<1>23. CASE R!Die
  BY <1>2, <1>23 DEF R!Die, RunInv, R!TypeOK, StagesHold, SpeechRecorded, R!SpeechIsSafe
<1> QED BY <1>1, <1>4, <1>5, <1>7, <1>9, <1>12, <1>13, <1>14, <1>15, <1>16, <1>19, <1>20, <1>21,
           <1>22, <1>23 DEF R!Next

-----------------------------------------------------------------------------
(* Decisions made by conversation.                                         *)

Writes == {"confirm", "correct"}

\* What is proposed has a version, and what a live receipt or an effect names
\* was shown.
ShownStands ==
    /\ \A d \in Decisions : decision[d].status # "none" => decision[d].version >= 1
    /\ \A t \in Tokens : receipt[t].state = "live" =>
          <<receipt[t].decision, receipt[t].version>> \in shown

\* An effect is the operation stored under its identifier; what is stored names
\* a decision.
OperationsStand ==
    /\ operation[Nothing] = D!None
    /\ \A o \in Ops : operation[o].kind # "none" => operation[o].decision \in Decisions
    /\ \A e \in effects : operation[e.op] = e.change /\ e.change.kind \in Writes
                          /\ <<e.change.decision, e.change.version>> \in shown

\* A reply about to be applied was shown, or its operation is taken; a message
\* on its way to the model changed nothing.
RequestStands ==
    /\ at = "applying" =>
          /\ request.op \in Ops /\ request.reply.kind \in Writes
          /\ request.reply.decision \in Decisions
          /\ \/ operation[request.op] # D!None
             \/ <<request.reply.decision, request.reply.version>> \in shown
    /\ at \in {"received", "model"} => \A e \in effects : e.op # request.op

DialogueInv == D!TypeOK /\ ShownStands /\ OperationsStand /\ RequestStands

LEMMA NoneTyped ==
    /\ D!None \in D!Operations /\ D!None.kind = "none" /\ D!None.decision = Nothing
    /\ D!NoRequest \in [op : Ops \cup {Nothing}, text : D!Messages,
                        token : Tokens \cup {Nothing}, reply : D!Operations]
BY BoundsAssumption DEF D!None, D!Operations, D!Kinds, D!Messages, D!NoRequest

LEMMA DialogueInit == D!Init => DialogueInv
<1> SUFFICES ASSUME D!Init PROVE DialogueInv
  OBVIOUS
<1>1. D!TypeOK
  BY NoneTyped, BoundsAssumption DEF D!Init, D!TypeOK
<1>2. ShownStands /\ RequestStands
  BY DEF D!Init, ShownStands, RequestStands
<1>3. OperationsStand
  BY NoneTyped DEF D!Init, OperationsStand
<1> QED BY <1>1, <1>2, <1>3 DEF DialogueInv

\* A step that leaves the operations, the effects and the request alone.
LEMMA DialogueAround ==
    ASSUME DialogueInv, D!TypeOK', ShownStands', shown \subseteq shown',
           UNCHANGED <<operation, effects>>, UNCHANGED <<request, at>> \/ at' = "idle"
    PROVE  DialogueInv'
<1>1. OperationsStand'
  BY DEF DialogueInv, OperationsStand
<1>2. RequestStands'
  BY DEF DialogueInv, RequestStands
<1> QED BY <1>1, <1>2 DEF DialogueInv

\* A request that goes on.
LEMMA DialogueGoes ==
    ASSUME DialogueInv, NEW where \in {"idle", "received", "applying", "noting", "model"},
           NEW o \in Ops \cup {Nothing}, NEW text \in D!Messages,
           NEW token \in Tokens \cup {Nothing}, NEW intent \in D!Operations,
           D!Go(where, o, text, token, intent),
           where = "applying" =>
              /\ o \in Ops /\ intent.kind \in Writes /\ intent.decision \in Decisions
              /\ operation[o] # D!None \/ <<intent.decision, intent.version>> \in shown,
           where \in {"received", "model"} => \A e \in effects : e.op # o
    PROVE  DialogueInv'
<1> DEFINE carried == [op |-> o, text |-> text, token |-> token, reply |-> intent]
<1>1. /\ at' = where /\ request' = (IF where = "idle" THEN D!NoRequest ELSE carried)
      /\ UNCHANGED <<decision, operation, receipt, shown, effects>>
  BY DEF D!Go
<1>2. carried \in [op : Ops \cup {Nothing}, text : D!Messages,
                   token : Tokens \cup {Nothing}, reply : D!Operations]
      /\ carried.op = o /\ carried.reply = intent
  OBVIOUS
<1> HIDE DEF carried
<1>3. D!TypeOK'
  BY <1>1, <1>2, NoneTyped DEF DialogueInv, D!TypeOK
<1>4. ShownStands' /\ OperationsStand'
  BY <1>1 DEF DialogueInv, ShownStands, OperationsStand
<1>5. RequestStands'
  BY <1>1, <1>2 DEF RequestStands
<1> QED BY <1>3, <1>4, <1>5 DEF DialogueInv

LEMMA EffectsTaken ==
    ASSUME DialogueInv, NEW e \in effects
    PROVE  e.op \in Ops /\ operation[e.op] # D!None
<1>1. e \in [op : Ops, change : D!Operations]
  BY DEF DialogueInv, D!TypeOK
<1>2. operation[e.op].kind # "none"
  BY DEF DialogueInv, OperationsStand, Writes
<1> QED BY <1>1, <1>2, NoneTyped

LEMMA DialogueStart ==
    ASSUME DialogueInv, NEW d \in Decisions, NEW o \in Ops \cup {Nothing}, D!Start(d, o)
    PROVE  DialogueInv'
<1> DEFINE new == [version |-> 1, status |-> "proposed"]
           entry == [kind |-> "start", decision |-> d, version |-> 0, text |-> "other"]
<1>1. /\ decision' = [decision EXCEPT ![d] = new]
      /\ UNCHANGED <<receipt, request, at, shown, effects>>
  BY DEF D!Start
<1>2. new \in [version : 0..MaxVersion, status : {"none", "proposed", "confirmed"}]
      /\ new.version = 1
  BY BoundsAssumption
<1>3. entry \in D!Operations /\ entry.kind = "start" /\ entry.decision = d
  BY BoundsAssumption DEF D!Operations, D!Kinds, D!Messages
<1>4. \/ UNCHANGED operation
      \/ o \in Ops /\ operation[o] = D!None /\ operation' = [operation EXCEPT ![o] = entry]
  BY NothingAssumption DEF D!Start
<1> HIDE DEF new, entry
<1>5. D!TypeOK'
  BY <1>1, <1>2, <1>3, <1>4 DEF DialogueInv, D!TypeOK
<1>6. ShownStands'
  BY <1>1, <1>2 DEF DialogueInv, D!TypeOK, ShownStands
<1>7. CASE UNCHANGED operation
  BY <1>1, <1>5, <1>6, <1>7, DialogueAround
<1>8. CASE o \in Ops /\ operation[o] = D!None /\ operation' = [operation EXCEPT ![o] = entry]
  <2>1. DOMAIN operation = Ops \cup {Nothing} /\ Nothing \notin Ops
    BY NothingAssumption DEF DialogueInv, D!TypeOK
  <2>2. operation'[o] = entry /\ \A p \in (Ops \cup {Nothing}) \ {o} : operation'[p] = operation[p]
    BY <1>8, <2>1
  <2>3. \A e \in effects : e.op \in Ops \ {o}
    BY <1>8, EffectsTaken
  <2>4. OperationsStand'
    BY <1>1, <1>3, <1>8, <2>1, <2>2, <2>3 DEF DialogueInv, OperationsStand
  <2>5. RequestStands'
    BY <1>1, <1>3, <1>8, <2>1, <2>2, NoneTyped DEF DialogueInv, RequestStands
  <2> QED BY <1>5, <1>6, <2>4, <2>5 DEF DialogueInv
<1> QED BY <1>4, <1>7, <1>8

LEMMA DialogueElsewhere ==
    ASSUME DialogueInv, NEW d \in Decisions, NEW kind \in Writes, D!Elsewhere(d, kind)
    PROVE  DialogueInv'
<1> DEFINE new == D!Changed(d, kind)
<1>1. /\ decision[d].version < MaxVersion /\ decision' = [decision EXCEPT ![d] = new]
      /\ UNCHANGED <<operation, receipt, request, at, shown, effects>>
  BY DEF D!Elsewhere
<1>2. new \in [version : 0..MaxVersion, status : {"none", "proposed", "confirmed"}]
      /\ new.version >= 1
  BY <1>1, BoundsAssumption DEF DialogueInv, D!TypeOK, D!Changed
<1> HIDE DEF new
<1>3. D!TypeOK' /\ ShownStands'
  BY <1>1, <1>2 DEF DialogueInv, D!TypeOK, ShownStands
<1> QED BY <1>1, <1>3, DialogueAround

LEMMA DialogueRender ==
    ASSUME DialogueInv, NEW t \in Tokens, D!Render(t)
    PROVE  DialogueInv'
<1>1. PICK d \in D!Proposed :
        /\ shown' = shown \cup {<<d, decision[d].version>>}
        /\ \E out \in SUBSET D!Live :
              receipt' = [u \in Tokens |->
                  IF u = t THEN [state |-> "live", decision |-> d, version |-> decision[d].version]
                  ELSE IF u \in out THEN [receipt[u] EXCEPT !.state = "gone"]
                  ELSE receipt[u]]
  BY DEF D!Render
<1>2. UNCHANGED <<decision, operation, request, at, effects>>
  BY DEF D!Render
<1>3. d \in Decisions /\ decision[d].version \in 1..MaxVersion
  BY BoundsAssumption DEF DialogueInv, D!Proposed, D!TypeOK, ShownStands
<1> DEFINE new == [state |-> "live", decision |-> d, version |-> decision[d].version]
<1>4. new \in [state : {"unused", "live", "gone"}, decision : Decisions \cup {Nothing},
               version : 0..MaxVersion]
      /\ new.decision = d /\ new.version = decision[d].version
  BY <1>3
<1>5. PICK out : receipt' = [u \in Tokens |-> IF u = t THEN new
                                 ELSE IF u \in out THEN [receipt[u] EXCEPT !.state = "gone"]
                                 ELSE receipt[u]]
  BY <1>1
<1> HIDE DEF new
<1>6. \A u \in Tokens : receipt[u] \in [state : {"unused", "live", "gone"},
                            decision : Decisions \cup {Nothing}, version : 0..MaxVersion]
  BY DEF DialogueInv, D!TypeOK
<1>7. ASSUME NEW u \in Tokens
      PROVE  /\ receipt'[u] \in [state : {"unused", "live", "gone"},
                                 decision : Decisions \cup {Nothing}, version : 0..MaxVersion]
             /\ receipt'[u].state = "live" => receipt'[u] = new \/ receipt'[u] = receipt[u]
  <2>1. CASE u = t
    BY <1>4, <1>5, <2>1
  <2>2. CASE u # t /\ u \in out
    <3> DEFINE gone == [receipt[u] EXCEPT !.state = "gone"]
    <3>1. receipt'[u] = gone
      BY <1>5, <2>2
    <3>2. gone \in [state : {"unused", "live", "gone"},
                    decision : Decisions \cup {Nothing}, version : 0..MaxVersion]
          /\ gone.state = "gone"
      BY <1>6
    <3> QED BY <3>1, <3>2
  <2>3. CASE u # t /\ u \notin out
    BY <1>5, <1>6, <2>3
  <2> QED BY <2>1, <2>2, <2>3
<1>8. shown' \subseteq Decisions \X (1..MaxVersion)
  BY <1>1, <1>3 DEF DialogueInv, D!TypeOK
<1>9. D!TypeOK'
  <2>1. receipt' \in [Tokens -> [state : {"unused", "live", "gone"},
                                 decision : Decisions \cup {Nothing}, version : 0..MaxVersion]]
    BY <1>5, <1>7
  <2> QED BY <1>2, <1>8, <2>1 DEF DialogueInv, D!TypeOK
<1>10. ShownStands'
  <2>1. \A u \in Tokens : receipt'[u].state = "live" =>
           <<receipt'[u].decision, receipt'[u].version>> \in shown'
    BY <1>1, <1>4, <1>7 DEF DialogueInv, ShownStands
  <2> QED BY <1>2, <2>1 DEF DialogueInv, ShownStands
<1> QED BY <1>1, <1>2, <1>9, <1>10, DialogueAround

\* Receipts only end.
LEMMA ReceiptsEnd ==
    ASSUME DialogueInv, NEW ended,
           receipt' = [t \in Tokens |-> IF t \in ended THEN [receipt[t] EXCEPT !.state = "gone"]
                                        ELSE receipt[t]]
    PROVE  /\ receipt' \in [Tokens -> [state : {"unused", "live", "gone"},
                               decision : Decisions \cup {Nothing}, version : 0..MaxVersion]]
           /\ \A t \in Tokens : receipt'[t].state = "live" => receipt'[t] = receipt[t]
<1>1. ASSUME NEW t \in Tokens
      PROVE  /\ receipt'[t] \in [state : {"unused", "live", "gone"},
                                 decision : Decisions \cup {Nothing}, version : 0..MaxVersion]
             /\ receipt'[t].state = "live" => receipt'[t] = receipt[t]
  <2> DEFINE gone == [receipt[t] EXCEPT !.state = "gone"]
  <2>1. receipt[t] \in [state : {"unused", "live", "gone"},
                        decision : Decisions \cup {Nothing}, version : 0..MaxVersion]
    BY DEF DialogueInv, D!TypeOK
  <2>2. gone \in [state : {"unused", "live", "gone"},
                  decision : Decisions \cup {Nothing}, version : 0..MaxVersion]
        /\ gone.state = "gone"
    BY <2>1
  <2>3. receipt'[t] = gone \/ receipt'[t] = receipt[t]
    OBVIOUS
  <2> HIDE DEF gone
  <2> QED BY <2>1, <2>2, <2>3
<1> QED BY <1>1

LEMMA DialogueForgets ==
    ASSUME DialogueInv, (\E t \in Tokens : D!Expire(t)) \/ D!Restart
    PROVE  DialogueInv'
<1>1. PICK ended : receipt' = [t \in Tokens |-> IF t \in ended
                        THEN [receipt[t] EXCEPT !.state = "gone"] ELSE receipt[t]]
  <2>1. ASSUME NEW t \in Tokens, D!Expire(t)
        PROVE  receipt' = [u \in Tokens |-> IF u \in {t}
                        THEN [receipt[u] EXCEPT !.state = "gone"] ELSE receipt[u]]
    <3>1. DOMAIN receipt = Tokens /\ receipt = [u \in Tokens |-> receipt[u]]
      BY DEF DialogueInv, D!TypeOK
    <3> QED BY <2>1, <3>1 DEF D!Expire
  <2> QED BY <2>1 DEF D!Restart
<1>2. UNCHANGED <<decision, operation, shown, effects>>
  BY DEF D!Expire, D!Restart
<1>3. \/ UNCHANGED <<request, at>>
      \/ at' = "idle" /\ request' = D!NoRequest
  BY DEF D!Expire, D!Restart
<1>4. D!TypeOK' /\ ShownStands'
  <2>1. /\ receipt' \in [Tokens -> [state : {"unused", "live", "gone"},
                               decision : Decisions \cup {Nothing}, version : 0..MaxVersion]]
        /\ \A t \in Tokens : receipt'[t].state = "live" => receipt'[t] = receipt[t]
    BY <1>1, ReceiptsEnd
  <2> QED BY <1>2, <1>3, <2>1, NoneTyped DEF DialogueInv, D!TypeOK, ShownStands
<1> QED BY <1>2, <1>3, <1>4, DialogueAround

LEMMA DialogueReceive ==
    ASSUME DialogueInv, NEW o \in Ops \cup {Nothing}, NEW text \in D!Messages,
           NEW token \in Tokens \cup {Nothing}, D!Receive(o, text, token)
    PROVE  DialogueInv'
<1>1. operation[o] \in D!Operations
  BY DEF DialogueInv, D!TypeOK
<1>2. CASE ~D!Replayed(o) /\ D!Go("received", o, text, token, D!None)
  <2>1. \A e \in effects : e.op # o
    BY <1>2 DEF DialogueInv, OperationsStand, D!Replayed, Writes
  <2> QED BY <1>2, <2>1, DialogueGoes, NoneTyped
<1>3. CASE D!Go("idle", o, text, token, D!None)
  BY <1>3, DialogueGoes, NoneTyped
<1>4. CASE D!Replayed(o) /\ D!Go("applying", o, text, token, operation[o])
  <2>1. operation[o].kind \in Writes /\ operation[o] # D!None /\ o \in Ops
    BY <1>4, NoneTyped DEF DialogueInv, OperationsStand, D!Replayed, Writes
  <2>2. operation[o].decision \in Decisions
    BY <2>1 DEF DialogueInv, OperationsStand, Writes
  <2> DEFINE intent == operation[o]
  <2>3. intent \in D!Operations /\ intent.kind \in Writes /\ intent.decision \in Decisions
        /\ D!Go("applying", o, text, token, intent)
    BY <1>1, <1>4, <2>1, <2>2
  <2>4. operation[o] # D!None
    BY <2>1
  <2> HIDE DEF intent
  <2> QED BY <2>1, <2>3, <2>4, DialogueGoes
<1> QED BY <1>2, <1>3, <1>4 DEF D!Receive

LEMMA DialogueInterpret ==
    ASSUME DialogueInv, D!Interpret
    PROVE  DialogueInv'
<1> DEFINE o == request.op
           text == request.text
           token == request.token
<1>1. o \in Ops \cup {Nothing} /\ text \in D!Messages /\ token \in Tokens \cup {Nothing}
  BY DEF DialogueInv, D!TypeOK
<1>2. at = "received" /\ \A e \in effects : e.op # o
  BY DEF DialogueInv, RequestStands, D!Interpret
<1>3. ASSUME NEW where \in {"idle", "noting", "model"}, D!Go(where, o, text, token, D!None)
      PROVE  DialogueInv'
  <2>1. where \in {"received", "model"} => \A e \in effects : e.op # o
    BY <1>2
  <2> HIDE DEF o, text, token
  <2> QED BY <1>1, <1>3, <2>1, DialogueGoes, NoneTyped
<1>4. ASSUME NEW d \in D!Proposed, D!Instructs(text), D!Bound(token, d, o) # 0, o # Nothing,
             D!Go("applying", o, text, token,
                  [kind |-> text, decision |-> d, version |-> D!Bound(token, d, o), text |-> text])
      PROVE  DialogueInv'
  <2> DEFINE version == D!Bound(token, d, o)
             intent == [kind |-> text, decision |-> d, version |-> version, text |-> text]
  <2>1. text \in Writes /\ text \in D!Kinds /\ d \in Decisions /\ o \in Ops
    BY <1>1, <1>4 DEF D!Instructs, Writes, D!Kinds, D!Proposed
  <2>2. token \in Tokens /\ receipt[token].state = "live"
    BY <1>4 DEF D!Bound, D!Live
  <2>3. <<receipt[token].decision, receipt[token].version>> \in shown
        /\ receipt[token].version \in 0..MaxVersion /\ decision[d].version \in 0..MaxVersion
    BY <2>1, <2>2 DEF DialogueInv, ShownStands, D!TypeOK
  <2>4. \/ receipt[token].decision = d /\ version = receipt[token].version
        \/ operation[o].decision = d /\ version = receipt[token].version
    BY <1>4 DEF D!Bound
  <2>5. version \in 0..MaxVersion
    BY <2>3, <2>4
  <2>6. operation[o] # D!None \/ <<d, version>> \in shown
    BY <2>1, <2>3, <2>4, NoneTyped, NothingAssumption
  <2> HIDE DEF version, o, text, token
  <2>7. /\ intent \in D!Operations /\ intent.kind \in Writes /\ intent.decision = d
        /\ intent.version = version
    BY <1>1, <2>1, <2>5 DEF D!Operations
  <2>8. D!Go("applying", o, text, token, intent)
    BY <1>4 DEF version
  <2> HIDE DEF intent
  <2> QED BY <1>1, <2>1, <2>6, <2>7, <2>8, DialogueGoes
<1> QED BY <1>3, <1>4 DEF D!Interpret

LEMMA DialogueApply ==
    ASSUME DialogueInv, D!Apply
    PROVE  DialogueInv'
<1> DEFINE o == request.op
           intent == request.reply
<1>1. /\ at = "applying" /\ o \in Ops /\ intent.kind \in Writes /\ intent.decision \in Decisions
      /\ operation[o] # D!None \/ <<intent.decision, intent.version>> \in shown
      /\ intent \in D!Operations
  BY DEF DialogueInv, D!TypeOK, RequestStands, D!Apply
<1>2. UNCHANGED <<receipt, shown>>
  BY DEF D!Apply
<1>3. \/ at' = "idle" /\ request' = D!NoRequest
      \/ at' = "noting" /\ UNCHANGED request
  BY DEF D!Apply
<1>4. CASE UNCHANGED <<decision, operation, effects>>
  <2>1. D!TypeOK' /\ ShownStands' /\ OperationsStand'
    BY <1>2, <1>3, <1>4, NoneTyped DEF DialogueInv, D!TypeOK, ShownStands, OperationsStand
  <2>2. RequestStands'
    BY <1>3 DEF RequestStands
  <2> QED BY <2>1, <2>2 DEF DialogueInv
\* The operation completes.
<1>5. ASSUME operation[o] = D!None, operation' = [operation EXCEPT ![o] = intent],
             \/ UNCHANGED <<decision, effects>>
             \/ /\ decision[intent.decision].version < MaxVersion
                /\ decision' = [decision EXCEPT ![intent.decision] =
                                   D!Changed(intent.decision, intent.kind)]
                /\ effects' = effects \cup {[op |-> o, change |-> intent]}
      PROVE  DialogueInv'
  <2> DEFINE new == D!Changed(intent.decision, intent.kind)
             effect == [op |-> o, change |-> intent]
  <2>1. <<intent.decision, intent.version>> \in shown
    BY <1>1, <1>5
  <2>2. DOMAIN operation = Ops \cup {Nothing} /\ Nothing \notin Ops
    BY NothingAssumption DEF DialogueInv, D!TypeOK
  <2>3. decision[intent.decision].version < MaxVersion =>
          /\ new \in [version : 0..MaxVersion, status : {"none", "proposed", "confirmed"}]
          /\ new.version >= 1
    BY <1>1, BoundsAssumption DEF DialogueInv, D!TypeOK, D!Changed
  <2>4. effect.op = o /\ effect.change = intent /\ effect \in [op : Ops, change : D!Operations]
    BY <1>1
  <2> HIDE DEF o, intent, new, effect
  <2>5. operation'[o] = intent /\ \A p \in (Ops \cup {Nothing}) \ {o} : operation'[p] = operation[p]
    BY <1>1, <1>5, <2>2
  <2>6. effects' \subseteq effects \cup {effect}
    BY <1>5 DEF effect
  <2>7. D!TypeOK'
    <3>1. decision' \in [Decisions -> [version : 0..MaxVersion,
                                       status : {"none", "proposed", "confirmed"}]]
      BY <1>1, <1>5, <2>3 DEF DialogueInv, D!TypeOK, new
    <3>2. operation' \in [Ops \cup {Nothing} -> D!Operations]
      BY <1>1, <1>5 DEF DialogueInv, D!TypeOK
    <3>3. effects' \subseteq [op : Ops, change : D!Operations]
      BY <2>4, <2>6 DEF DialogueInv, D!TypeOK
    <3> QED BY <1>2, <1>3, <3>1, <3>2, <3>3, NoneTyped DEF DialogueInv, D!TypeOK
  <2>8. ShownStands'
    BY <1>1, <1>2, <1>5, <2>3 DEF DialogueInv, D!TypeOK, ShownStands, new
  <2>9. OperationsStand'
    <3>1. \A e \in effects : e.op \in Ops \ {o}
      BY <1>5, EffectsTaken DEF o
    <3>2. \A e \in effects' : operation'[e.op] = e.change /\ e.change.kind \in Writes
                              /\ <<e.change.decision, e.change.version>> \in shown
      BY <1>1, <2>1, <2>4, <2>5, <2>6, <3>1 DEF DialogueInv, OperationsStand
    <3>3. operation'[Nothing] = D!None
      BY <1>1, <2>2, <2>5 DEF DialogueInv, OperationsStand
    <3> QED BY <1>1, <1>2, <2>5, <3>2, <3>3 DEF DialogueInv, OperationsStand
  <2>10. RequestStands'
    BY <1>3 DEF RequestStands
  <2> QED BY <2>7, <2>8, <2>9, <2>10 DEF DialogueInv
<1> QED BY <1>4, <1>5 DEF D!Apply

LEMMA DialogueNext == DialogueInv /\ [D!Next]_dialogueVars => DialogueInv'
<1> SUFFICES ASSUME DialogueInv, [D!Next]_dialogueVars PROVE DialogueInv'
  OBVIOUS
<1>1. CASE UNCHANGED dialogueVars
  BY <1>1 DEF dialogueVars, DialogueInv, D!TypeOK, ShownStands, OperationsStand, RequestStands
<1>2. CASE D!Note \/ D!TakeTurn
  <2>1. /\ at' = "idle" /\ request' = D!NoRequest
        /\ UNCHANGED <<decision, operation, receipt, shown, effects>>
    BY <1>2 DEF D!Note, D!TakeTurn
  <2>2. D!TypeOK' /\ ShownStands'
    BY <2>1, NoneTyped DEF DialogueInv, D!TypeOK, ShownStands
  <2> QED BY <2>1, <2>2, DialogueAround
<1> QED BY <1>1, <1>2, DialogueStart, DialogueElsewhere, DialogueRender, DialogueForgets,
           DialogueReceive, DialogueInterpret, DialogueApply DEF D!Next, Writes

-----------------------------------------------------------------------------
(* The pairing of a Telegram chat.                                         *)

Texts == [chat : P!Chats, text : {"connect", "talk"}]
SentTyped ==
    /\ DOMAIN sent = Bots
    /\ \A b \in Bots : sent[b] \in Seq(Texts) /\ Len(sent[b]) <= LastUpdate

\* What is held or accepted did arrive.
ArrivedFirst ==
    /\ \A b \in Bots : \A u \in held[b] : u \in 1..Len(sent[b])
    /\ \A b \in Bots, u \in P!Updates : <<b, u>> \in accepted \cup turns => u \in 1..Len(sent[b])

\* A private chat that gave the code of a pairing.
Owner(chat) ==
    /\ chat \in Private
    /\ \E b \in Bots : \E u \in DOMAIN sent[b] : sent[b][u] = [chat |-> chat, text |-> "connect"]

OwnersKnown ==
    /\ pairing.chat # Nothing => Owner(pairing.chat)
    /\ settings.chat # Nothing => Owner(settings.chat)
    /\ poller.bot # Nothing => Owner(poller.chat)

OwnersAnswered ==
    \A b \in Bots, u \in P!Updates : <<b, u>> \in turns => Owner(sent[b][u].chat)

PairingTyped ==
    /\ SentTyped
    /\ held \in [Bots -> SUBSET P!Updates]
    /\ pairing \in [bot : Bots \cup {Nothing}, next : 0..LastUpdate + 1,
                    polls : 0..Polls, chat : P!Chats \cup {Nothing}]
    /\ settings \in [bot : Bots \cup {Nothing}, chat : P!Chats \cup {Nothing}]
    /\ poller \in [bot : Bots \cup {Nothing}, chat : P!Chats \cup {Nothing}]
    /\ offset \in 0..LastUpdate + 1
    /\ accepted \subseteq Bots \X P!Updates /\ turns \subseteq Bots \X P!Updates
    /\ paired \in [Bots -> 0..LastUpdate]

PairingInv == PairingTyped /\ ArrivedFirst /\ OwnersKnown /\ OwnersAnswered

LEMMA NoPairingTyped ==
    /\ P!NoPairing \in [bot : Bots \cup {Nothing}, next : 0..LastUpdate + 1,
                        polls : 0..Polls, chat : P!Chats \cup {Nothing}]
    /\ P!NoPairing.bot = Nothing /\ P!NoPairing.chat = Nothing
    /\ P!NoSettings \in [bot : Bots \cup {Nothing}, chat : P!Chats \cup {Nothing}]
    /\ P!NoSettings.bot = Nothing /\ P!NoSettings.chat = Nothing
BY BoundsAssumption DEF P!NoPairing, P!NoSettings

LEMMA PairingInit == P!Init => PairingInv
<1> SUFFICES ASSUME P!Init PROVE PairingInv
  OBVIOUS
<1>1. SentTyped
  BY BoundsAssumption DEF P!Init, SentTyped
<1>2. PairingTyped
  BY <1>1, NoPairingTyped, BoundsAssumption DEF P!Init, PairingTyped
<1>3. ArrivedFirst /\ OwnersKnown /\ OwnersAnswered
  BY NoPairingTyped DEF P!Init, ArrivedFirst, OwnersKnown, OwnersAnswered
<1> QED BY <1>2, <1>3 DEF PairingInv

\* What arrived stays.
LEMMA ArrivalsStay ==
    ASSUME PairingInv, NEW b \in Bots, NEW chat \in P!Chats, NEW text \in {"connect", "talk"},
           P!Arrive(b, chat, text)
    PROVE  /\ SentTyped' /\ Len(sent[b]) + 1 \in P!Updates
           /\ \A c \in Bots : \A u \in 1..Len(sent[c]) :
                 u \in 1..Len(sent'[c]) /\ sent'[c][u] = sent[c][u]
           /\ Len(sent'[b]) = Len(sent[b]) + 1
<1> DEFINE message == [chat |-> chat, text |-> text]
<1>1. message \in Texts
  BY DEF Texts
<1>2. sent' = [sent EXCEPT ![b] = Append(sent[b], message)] /\ Len(sent[b]) + 1 \in P!Updates
  BY DEF P!Arrive
<1> HIDE DEF message
<1>3. /\ DOMAIN sent = Bots
      /\ \A c \in Bots : sent[c] \in Seq(Texts) /\ Len(sent[c]) <= LastUpdate
  BY DEF PairingInv, PairingTyped, SentTyped
<1>4. /\ DOMAIN sent' = Bots /\ sent'[b] = Append(sent[b], message)
      /\ \A c \in Bots \ {b} : sent'[c] = sent[c]
  BY <1>2, <1>3
<1>5. /\ Append(sent[b], message) \in Seq(Texts)
      /\ Len(Append(sent[b], message)) = Len(sent[b]) + 1
      /\ \A u \in 1..Len(sent[b]) : Append(sent[b], message)[u] = sent[b][u]
  BY <1>1, <1>3
<1>6. Len(sent[b]) \in Nat /\ Len(sent[b]) + 1 <= LastUpdate
  BY <1>2, <1>3, BoundsAssumption DEF P!Updates
<1>7. SentTyped'
  BY <1>3, <1>4, <1>5, <1>6 DEF SentTyped
<1>8. ASSUME NEW c \in Bots, NEW u \in 1..Len(sent[c])
      PROVE  u \in 1..Len(sent'[c]) /\ sent'[c][u] = sent[c][u]
  <2>1. CASE c = b
    BY <1>4, <1>5, <1>6, <2>1
  <2>2. CASE c # b
    BY <1>4, <2>2
  <2> QED BY <2>1, <2>2
<1> QED BY <1>2, <1>4, <1>5, <1>7, <1>8

LEMMA PairingArrive ==
    ASSUME PairingInv, NEW b \in Bots, NEW chat \in P!Chats, NEW text \in {"connect", "talk"},
           P!Arrive(b, chat, text)
    PROVE  PairingInv'
<1> DEFINE new == Len(sent[b]) + 1
<1>1. /\ SentTyped' /\ new \in P!Updates /\ Len(sent'[b]) = new
      /\ \A c \in Bots : \A u \in 1..Len(sent[c]) :
            u \in 1..Len(sent'[c]) /\ sent'[c][u] = sent[c][u]
  BY ArrivalsStay
<1>2. /\ held' = [held EXCEPT ![b] = held[b] \cup {new}]
      /\ UNCHANGED <<pairing, settings, poller, offset, accepted, turns, paired>>
  BY DEF P!Arrive
<1>3. new \in 1..new
  BY <1>1 DEF P!Updates
<1> HIDE DEF new
<1>4. PairingTyped'
  BY <1>1, <1>2 DEF PairingInv, PairingTyped
<1>5. ArrivedFirst'
  <2>1. \A c \in Bots : \A u \in held'[c] : u \in held[c] \/ (c = b /\ u = new)
    BY <1>2 DEF PairingInv, PairingTyped
  <2>2. \A c \in Bots : \A u \in held'[c] : u \in 1..Len(sent'[c])
    BY <1>1, <1>3, <2>1 DEF PairingInv, ArrivedFirst
  <2> QED BY <1>1, <1>2, <2>2 DEF PairingInv, ArrivedFirst, P!Updates
<1>6. \A c \in Bots : DOMAIN sent[c] = 1..Len(sent[c]) /\ DOMAIN sent'[c] = 1..Len(sent'[c])
  BY <1>1 DEF PairingInv, PairingTyped, SentTyped
<1>7. ASSUME NEW who, Owner(who) PROVE Owner(who)'
  BY <1>1, <1>6, <1>7 DEF Owner
<1>8. OwnersKnown'
  BY <1>2, <1>7 DEF PairingInv, OwnersKnown
<1>9. OwnersAnswered'
  <2>1. ASSUME NEW c \in Bots, NEW u \in P!Updates, <<c, u>> \in turns
        PROVE  Owner(sent[c][u].chat) /\ sent'[c][u] = sent[c][u]
    <3>1. u \in 1..Len(sent[c])
      BY <2>1 DEF PairingInv, ArrivedFirst
    <3> QED BY <1>1, <2>1, <3>1 DEF PairingInv, OwnersAnswered
  <2>2. ASSUME NEW c \in Bots, NEW u \in P!Updates, <<c, u>> \in turns
        PROVE  Owner(sent[c][u].chat)'
    <3>1. Owner(sent[c][u].chat) /\ sent'[c][u] = sent[c][u]
      BY <2>1, <2>2
    <3>2. PICK who : who = sent[c][u].chat
      OBVIOUS
    <3>3. Owner(who)' /\ who = sent'[c][u].chat
      BY <1>7, <3>1, <3>2
    <3> QED BY <3>3 DEF Owner
  <2> QED BY <1>2, <2>2 DEF OwnersAnswered, P!Updates
<1> QED BY <1>4, <1>5, <1>8, <1>9 DEF PairingInv

\* A step that receives no message and answers none.
LEMMA PairingAround ==
    ASSUME PairingInv, PairingTyped', UNCHANGED <<sent, turns>>,
           \A b \in Bots : held'[b] \subseteq held[b],
           \A b \in Bots, u \in P!Updates : <<b, u>> \in accepted' =>
              <<b, u>> \in accepted \/ u \in held[b],
           pairing'.chat # Nothing => Owner(pairing'.chat),
           settings'.chat # Nothing => Owner(settings'.chat),
           poller'.bot # Nothing => Owner(poller'.chat)
    PROVE  PairingInv'
<1>1. ArrivedFirst'
  BY DEF PairingInv, ArrivedFirst, P!Updates
<1>2. OwnersKnown'
  BY DEF OwnersKnown, Owner
<1>3. OwnersAnswered'
  BY DEF PairingInv, OwnersAnswered, Owner, P!Updates
<1> QED BY <1>1, <1>2, <1>3 DEF PairingInv

\* What one getUpdates returns.
LEMMA BatchTyped ==
    ASSUME PairingInv, NEW b \in Bots, NEW next
    PROVE  /\ P!Kept(b, next) \subseteq held[b]
           /\ P!Kept(b, next) \subseteq P!Updates
           /\ P!Kept(b, next) # {} =>
                 (CHOOSE u \in P!Kept(b, next) : \A v \in P!Kept(b, next) : v <= u) \in P!Updates
<1> DEFINE batch == P!Kept(b, next)
<1>1. batch \subseteq held[b] /\ held[b] \subseteq P!Updates
  BY DEF P!Kept, PairingInv, PairingTyped
<1> HIDE DEF batch
<1>2. ASSUME batch # {} PROVE \E u \in batch : \A v \in batch : v <= u
  BY <1>1, <1>2, BoundsAssumption, Greatest DEF P!Updates
<1>3. batch # {} => (CHOOSE u \in batch : \A v \in batch : v <= u) \in P!Updates
  BY <1>1, <1>2
<1> QED BY <1>1, <1>3 DEF batch

LEMMA PairingLook ==
    ASSUME PairingInv, P!Look
    PROVE  PairingInv'
<1> DEFINE b == pairing.bot
           batch == P!Kept(b, pairing.next)
           matches == {u \in batch : P!Matches(b, u)}
           first == CHOOSE u \in matches : \A v \in matches : u <= v
           last == CHOOSE u \in batch : \A v \in batch : v <= u
<1>1. b \in Bots /\ pairing.chat = Nothing /\ pairing.polls < Polls
  BY DEF P!Look, PairingInv, PairingTyped
<1>2. held' = [held EXCEPT ![b] = batch] /\ UNCHANGED <<sent, settings, poller, offset, accepted, turns>>
  BY DEF P!Look
<1>3. /\ batch \subseteq held[b] /\ batch \subseteq P!Updates
      /\ batch # {} => last \in P!Updates
  BY <1>1, BatchTyped
<1>4. /\ held' \in [Bots -> SUBSET P!Updates]
      /\ \A c \in Bots : held'[c] \subseteq held[c]
  <2> HIDE DEF b, batch
  <2> QED BY <1>1, <1>2, <1>3 DEF PairingInv, PairingTyped
<1>5. /\ pairing.polls + 1 \in 0..Polls /\ pairing.next \in 0..LastUpdate + 1
      /\ pairing.bot \in Bots
  BY <1>1, BoundsAssumption DEF PairingInv, PairingTyped
\* The pairing found its owner.
<1>6. ASSUME NEW chat, chat = Nothing \/ Owner(chat), NEW n \in 0..LastUpdate + 1,
             NEW p \in 0..Polls,
             pairing' = [bot |-> b, next |-> n, polls |-> p, chat |-> chat],
             paired' \in [Bots -> 0..LastUpdate]
      PROVE  PairingInv'
  <2> DEFINE found == [bot |-> b, next |-> n, polls |-> p, chat |-> chat]
  <2>1. /\ found \in [bot : Bots \cup {Nothing}, next : 0..LastUpdate + 1,
                      polls : 0..Polls, chat : P!Chats \cup {Nothing}]
        /\ found.chat = chat
    BY <1>1, <1>6 DEF Owner, P!Chats
  <2>2. pairing' = found
    BY <1>6
  <2> HIDE DEF b, batch, found
  <2>3. PairingTyped'
    BY <1>2, <1>4, <1>6, <2>1, <2>2 DEF PairingInv, PairingTyped, SentTyped
  <2> QED BY <1>2, <1>4, <1>6, <2>1, <2>2, <2>3, PairingAround DEF PairingInv, OwnersKnown
<1>7. pairing = [bot |-> b, next |-> pairing.next, polls |-> pairing.polls, chat |-> pairing.chat]
  BY DEF PairingInv, PairingTyped
<1>8. CASE matches # {}
  <2>1. matches \subseteq Nat
    BY <1>3 DEF P!Updates
  <2>2. first \in matches
    <3> HIDE DEF matches
    <3>1. \E u \in matches : \A v \in matches : u <= v
      BY <1>8, <2>1, Least
    <3> QED BY <3>1
  <2>3. first \in batch /\ P!Matches(b, first)
    BY <2>2
  <2> HIDE DEF first, matches, batch
  <2>4. first \in 1..Len(sent[b]) /\ first \in 1..LastUpdate
    BY <1>1, <1>3, <2>3 DEF PairingInv, ArrivedFirst, P!Updates
  <2>5. sent[b][first] \in Texts /\ first \in DOMAIN sent[b]
    BY <1>1, <2>4 DEF PairingInv, PairingTyped, SentTyped
  <2>6. sent[b][first] = [chat |-> sent[b][first].chat, text |-> "connect"]
        /\ sent[b][first].chat \in Private
    BY <2>3, <2>5 DEF Texts, P!Matches
  <2>7. Owner(sent[b][first].chat)
    BY <1>1, <2>5, <2>6 DEF Owner
  <2>8. /\ pairing' = [pairing EXCEPT !.polls = pairing.polls + 1, !.next = first + 1,
                                      !.chat = sent[b][first].chat]
        /\ paired' = [paired EXCEPT ![b] = first]
    BY <1>8 DEF P!Look, first, matches, batch
  <2>9. pairing' = [bot |-> b, next |-> first + 1, polls |-> pairing.polls + 1,
                    chat |-> sent[b][first].chat]
    BY <1>7, <2>8
  <2>10. first + 1 \in 0..LastUpdate + 1 /\ paired' \in [Bots -> 0..LastUpdate]
    <3>1. first \in Nat /\ first <= LastUpdate
      BY <2>4
    <3>2. first \in 0..LastUpdate /\ first + 1 \in 0..LastUpdate + 1
      BY <3>1, BoundsAssumption
    <3>3. paired \in [Bots -> 0..LastUpdate]
      BY DEF PairingInv, PairingTyped
    <3> QED BY <2>8, <3>2, <3>3
  <2> HIDE DEF b
  <2> QED BY <1>5, <1>6, <2>7, <2>9, <2>10
<1>9. CASE matches = {}
  <2> DEFINE n == IF batch = {} THEN pairing.next ELSE last + 1
  <2>1. /\ pairing' = [pairing EXCEPT !.polls = pairing.polls + 1, !.next = n]
        /\ UNCHANGED paired
    BY <1>9 DEF P!Look
  <2>2. n \in 0..LastUpdate + 1
    <3> HIDE DEF batch, last
    <3> QED BY <1>3, <1>5, BoundsAssumption DEF P!Updates
  <2> HIDE DEF n
  <2>3. pairing' = [bot |-> b, next |-> n, polls |-> pairing.polls + 1, chat |-> Nothing]
    BY <1>1, <1>7, <2>1
  <2> HIDE DEF b
  <2> QED BY <1>5, <1>6, <2>1, <2>2, <2>3 DEF PairingInv, PairingTyped
<1> QED BY <1>8, <1>9

LEMMA PairingSettles ==
    ASSUME PairingInv,
           \/ \E b \in Bots : P!Pair(b) \/ P!Reuse(b)
           \/ P!Save \/ P!GiveUp \/ P!StartGateway \/ P!StopGateway
    PROVE  PairingInv'
<1>1. UNCHANGED <<sent, held, offset, accepted, turns, paired>>
  BY DEF P!Pair, P!Reuse, P!Save, P!GiveUp, P!StartGateway, P!StopGateway
<1>2. /\ \A b \in Bots : held'[b] \subseteq held[b]
      /\ \A b \in Bots, u \in P!Updates : <<b, u>> \in accepted' =>
              <<b, u>> \in accepted \/ u \in held[b]
  BY <1>1
<1>3. OwnersKnown
  BY DEF PairingInv
<1>4. ASSUME \/ UNCHANGED pairing
             \/ pairing'.chat = Nothing
                /\ pairing' \in [bot : Bots \cup {Nothing}, next : 0..LastUpdate + 1,
                        polls : 0..Polls, chat : P!Chats \cup {Nothing}],
             \/ UNCHANGED settings
             \/ settings' \in [bot : Bots \cup {Nothing}, chat : P!Chats \cup {Nothing}]
                /\ (settings'.chat # Nothing => Owner(settings'.chat)),
             \/ UNCHANGED poller
             \/ poller' \in [bot : Bots \cup {Nothing}, chat : P!Chats \cup {Nothing}]
                /\ (poller'.bot # Nothing => Owner(poller'.chat))
      PROVE  PairingInv'
  <2>1. PairingTyped'
    BY <1>1, <1>4 DEF PairingInv, PairingTyped, SentTyped
  <2> QED BY <1>1, <1>2, <1>3, <1>4, <2>1, PairingAround DEF OwnersKnown
<1>5. ASSUME NEW b \in Bots, P!Pair(b) PROVE PairingInv'
  <2> DEFINE begun == [P!NoPairing EXCEPT !.bot = b]
  <2>1. pairing' = begun /\ UNCHANGED <<settings, poller>>
    BY <1>5 DEF P!Pair
  <2>2. begun.chat = Nothing
        /\ begun \in [bot : Bots \cup {Nothing}, next : 0..LastUpdate + 1,
                      polls : 0..Polls, chat : P!Chats \cup {Nothing}]
    BY NoPairingTyped
  <2> HIDE DEF begun
  <2> QED BY <1>4, <2>1, <2>2
<1>6. ASSUME NEW b \in Bots, P!Reuse(b) PROVE PairingInv'
  <2> DEFINE reused == [settings EXCEPT !.bot = b]
  <2>1. settings' = reused /\ UNCHANGED <<pairing, poller>>
    BY <1>6 DEF P!Reuse
  <2>2. reused.chat = settings.chat
        /\ reused \in [bot : Bots \cup {Nothing}, chat : P!Chats \cup {Nothing}]
    BY DEF PairingInv, PairingTyped
  <2> HIDE DEF reused
  <2> QED BY <1>3, <1>4, <2>1, <2>2 DEF OwnersKnown
<1>7. CASE P!Save
  <2> DEFINE saved == [bot |-> pairing.bot, chat |-> pairing.chat]
  <2>1. settings' = saved /\ pairing' = P!NoPairing /\ UNCHANGED poller
    BY <1>7 DEF P!Save
  <2>2. saved.chat = pairing.chat
        /\ saved \in [bot : Bots \cup {Nothing}, chat : P!Chats \cup {Nothing}]
    BY DEF PairingInv, PairingTyped
  <2> HIDE DEF saved
  <2> QED BY <1>3, <1>4, <2>1, <2>2, NoPairingTyped DEF OwnersKnown
<1>8. CASE P!GiveUp
  BY <1>4, <1>8, NoPairingTyped DEF P!GiveUp
<1>9. CASE P!StartGateway
  BY <1>3, <1>4, <1>9 DEF P!StartGateway, OwnersKnown, PairingInv, PairingTyped
<1>10. CASE P!StopGateway
  BY <1>4, <1>10, NoPairingTyped DEF P!StopGateway
<1> QED BY <1>5, <1>6, <1>7, <1>8, <1>9, <1>10

LEMMA PairingPoll ==
    ASSUME PairingInv, P!Poll
    PROVE  PairingInv'
<1> DEFINE b == poller.bot
           batch == P!Kept(b, offset)
           last == CHOOSE u \in batch : \A v \in batch : v <= u
<1>1. b \in Bots
  BY DEF P!Poll, PairingInv, PairingTyped
<1>2. /\ held' = [held EXCEPT ![b] = batch]
      /\ accepted' = accepted \cup ({b} \X batch)
      /\ offset' = (IF batch = {} THEN offset ELSE last + 1)
      /\ UNCHANGED <<sent, pairing, settings, poller, turns, paired>>
  BY DEF P!Poll
<1>3. /\ batch \subseteq held[b] /\ batch \subseteq P!Updates
      /\ batch # {} => last \in P!Updates
  BY <1>1, BatchTyped
<1> HIDE DEF b, batch, last
<1>4. /\ held' \in [Bots -> SUBSET P!Updates]
      /\ \A c \in Bots : held'[c] \subseteq held[c]
  BY <1>1, <1>2, <1>3 DEF PairingInv, PairingTyped
<1>5. offset' \in 0..LastUpdate + 1
  BY <1>2, <1>3, BoundsAssumption DEF PairingInv, PairingTyped, P!Updates
<1>6. accepted' \subseteq Bots \X P!Updates
  BY <1>1, <1>2, <1>3 DEF PairingInv, PairingTyped
<1>7. PairingTyped'
  BY <1>2, <1>4, <1>5, <1>6 DEF PairingInv, PairingTyped, SentTyped
<1>8. \A c \in Bots, u \in P!Updates : <<c, u>> \in accepted' => <<c, u>> \in accepted \/ u \in held[c]
  BY <1>2, <1>3
<1> QED BY <1>2, <1>4, <1>7, <1>8, PairingAround DEF PairingInv, OwnersKnown

LEMMA PairingHandle ==
    ASSUME PairingInv, NEW b \in Bots, NEW u \in P!Updates, P!Handle(b, u)
    PROVE  PairingInv'
<1>1. /\ poller.bot # Nothing /\ <<b, u>> \in accepted /\ sent[b][u].chat = poller.chat
      /\ turns' = turns \cup {<<b, u>>}
      /\ UNCHANGED <<sent, held, pairing, settings, poller, offset, accepted, paired>>
  BY DEF P!Handle, P!Authorized
<1>2. PairingTyped'
  BY <1>1 DEF PairingInv, PairingTyped, SentTyped
<1>3. ArrivedFirst'
  BY <1>1 DEF PairingInv, ArrivedFirst, P!Updates
<1>4. OwnersKnown'
  BY <1>1 DEF PairingInv, OwnersKnown, Owner
<1>5. Owner(sent[b][u].chat)
  BY <1>1 DEF PairingInv, OwnersKnown
<1>6. OwnersAnswered'
  <2>1. \A c \in Bots, v \in P!Updates : <<c, v>> \in turns' => Owner(sent[c][v].chat)
    BY <1>1, <1>5 DEF PairingInv, OwnersAnswered
  <2> QED BY <1>1, <2>1 DEF OwnersAnswered, Owner, P!Updates
<1> QED BY <1>2, <1>3, <1>4, <1>6 DEF PairingInv

LEMMA PairingNext == PairingInv /\ [P!Next]_pairingVars => PairingInv'
<1> SUFFICES ASSUME PairingInv, [P!Next]_pairingVars PROVE PairingInv'
  OBVIOUS
<1>1. CASE UNCHANGED pairingVars
  <2>1. /\ sent' = sent /\ held' = held /\ accepted' = accepted /\ turns' = turns
        /\ pairing' = pairing /\ settings' = settings /\ poller' = poller
        /\ offset' = offset /\ paired' = paired
    BY <1>1 DEF pairingVars
  <2>2. PairingTyped'
    BY Zenon, <2>1 DEF PairingInv, PairingTyped, SentTyped, P!Updates
  <2>3. ArrivedFirst'
    BY Zenon, <2>1 DEF PairingInv, ArrivedFirst, P!Updates
  <2>4. OwnersKnown'
    BY Zenon, <2>1 DEF PairingInv, OwnersKnown, Owner
  <2>5. OwnersAnswered'
    BY Zenon, <2>1 DEF PairingInv, OwnersAnswered, Owner, P!Updates
  <2> QED BY <2>2, <2>3, <2>4, <2>5 DEF PairingInv
<1> QED BY <1>1, PairingArrive, PairingLook, PairingSettles, PairingPoll, PairingHandle DEF P!Next

-----------------------------------------------------------------------------
(* Conversation turns.                                                     *)

Entries == {"user", "assistant"} \X (Sent \cup Posts)
Points == {"idle", "known", "loaded", "asked", "answered", "stored", "told", "refused", "dead"}
Working == [pc : Points,
            sid : T!Sids \cup {Nothing}, expected : Nat, history : Seq(Entries),
            pending : SUBSET Sent, base : Seq(Entries)]
Posting == [pc : {"idle", "read", "done", "refused"}, sid : T!Sids \cup {Nothing}, expected : Nat]

TurnsTyped ==
    T!TypeOK /\ send \in [Sent -> Working] /\ post \in [Posts -> Posting]

\* A transcript that another one goes on from, and one that goes on from it
\* with nothing but what some turns say.
Extends(h, t) == Len(h) <= Len(t) /\ \A i \in 1..Len(h) : t[i] = h[i]
GoesOnWith(h, t, open) == Extends(h, t) /\ \A i \in (Len(h) + 1)..Len(t) : t[i][2] \in open

Pending(tn, s) == {o \in Sent : tn[o].sid = s /\ tn[o].state = "pending"}

\* What the call x of message m and its turn t know of the session: while its
\* revision is the one the call has read, the turns that are open were open
\* then, and nothing else has been said since the history was loaded.
CallHolds(m, x, t, rv, tr, tn, rn) ==
    /\ x.pc # "idle" => x.sid \in T!Sids
    /\ x.pc \in {"idle", "known", "loaded"} => t = T!NoTurn
    /\ x.pc \in {"asked", "answered"} => t.state = "pending" /\ t.sid = x.sid
    /\ x.pc = "answered" => m \in rn
    /\ x.pc = "stored" => t.state = "completed"
    /\ t.state = "none" => t = T!NoTurn
    /\ t.state # "none" => t.sid \in T!Sids /\ t.from < rv[t.sid]
    /\ x.pc \in {"known", "loaded"} =>
          /\ x.expected <= rv[x.sid]
          /\ x.expected = rv[x.sid] => Pending(tn, x.sid) \subseteq x.pending
    /\ x.pc = "loaded" =>
          /\ Extends(x.history, tr[x.sid])
          /\ x.expected = rv[x.sid] => GoesOnWith(x.history, tr[x.sid], x.pending)
    /\ x.pc \in {"asked", "answered"} => GoesOnWith(x.history, x.base, x.pending)

PostHolds(x, rv) ==
    x.pc # "idle" => x.sid \in T!Sids /\ (x.pc = "read" => x.expected <= rv[x.sid])

CallsHold == \A m \in Sent : CallHolds(m, send[m], turn[m], revision, transcript, turn, runs)
PostsHold == \A p \in Posts : PostHolds(post[p], revision)

TurnsInv ==
    /\ TurnsTyped /\ CallsHold /\ PostsHold
    /\ T!TranscriptTellsTheTurns /\ T!TurnsAreSerialised /\ T!QuietWhenDone

\* What a quiet session is: nobody has it busy who is not at work or dead.
Quiet(ac, sd) ==
    \A s \in T!Sids : ac[s] # "idle" =>
       \E m \in Sent : sd[m].sid = s /\ sd[m].pc \notin {"idle", "told", "refused"}

LEMMA QuietIs == TurnsTyped => (T!QuietWhenDone <=> Quiet(activity, send))
BY DEF TurnsTyped, T!QuietWhenDone, Quiet, T!Live, Working, Points

\* The numbers of some turns.
Reserved(tn, s) == {m \in Sent : tn[m].sid = s}
Serial(tn) ==
    \A m, o \in Sent :
      /\ tn[m].state # "none" => tn[m].pos < Cardinality(Reserved(tn, tn[m].sid))
      /\ (m # o /\ tn[m].state # "none" /\ tn[o].sid = tn[m].sid) =>
           /\ tn[m].pos # tn[o].pos
           /\ tn[m].pos < tn[o].pos => tn[m].from < tn[o].from

LEMMA CardinalityIs == \A X : T!Cardinality(X) = Cardinality(X)
BY Zenon DEF T!Cardinality, Cardinality

LEMMA SerialIs == T!TurnsAreSerialised <=> Serial(turn)
<1>1. \A s : T!NextPosition(s) = Cardinality(Reserved(turn, s))
  BY CardinalityIs DEF Reserved, T!NextPosition
<1> QED BY Zenon, <1>1 DEF T!TurnsAreSerialised, Serial

\* What the transcripts tr say of message m.
SaidIn(tr, s, m) == {i \in DOMAIN tr[s] : tr[s][i][2] = m}
Tells(m, t, tr, rn) ==
    IF t.state = "completed"
    THEN /\ m \in rn
         /\ \E i \in DOMAIN tr[t.sid] :
              /\ SaidIn(tr, t.sid, m) = {i, i + 1}
              /\ tr[t.sid][i] = <<"user", m>> /\ tr[t.sid][i + 1] = <<"assistant", m>>
         /\ \A s \in T!Sids \ {t.sid} : SaidIn(tr, s, m) = {}
    ELSE \A s \in T!Sids : SaidIn(tr, s, m) = {}

LEMMA TellsIs ==
    T!TranscriptTellsTheTurns <=> \A m \in Sent : Tells(m, turn[m], transcript, runs)
BY DEF T!TranscriptTellsTheTurns, Tells, SaidIn, T!Said, T!User, T!Assistant

LEMMA TurnsInit == T!Init => TurnsInv
<1> SUFFICES ASSUME T!Init PROVE TurnsInv
  OBVIOUS
<1>1. /\ \A m \in Sent : /\ send[m] = T!Idle /\ turn[m] = T!NoTurn
      /\ \A s \in T!Sids : transcript[s] = <<>> /\ activity[s] = "idle"
      /\ \A p \in Posts : post[p] = [pc |-> "idle", sid |-> Nothing, expected |-> 0]
  BY DEF T!Init
<1>2. TurnsTyped
  <2>1. T!TypeOK
    <3>1. T!NoTurn \in [state : {"none", "pending", "completed", "failed"},
                        sid : T!Sids \cup {Nothing}, pos : Nat, from : Nat]
      BY DEF T!NoTurn
    <3>2. <<>> \in Seq({"user", "assistant"} \X (Sent \cup Posts))
      OBVIOUS
    <3> QED BY <3>1, <3>2 DEF T!Init, T!TypeOK
  <2>2. T!Idle \in Working
    BY DEF T!Idle, Working, Points
  <2>3. send \in [Sent -> Working]
    BY <2>2 DEF T!Init
  <2>4. post \in [Posts -> Posting]
    BY DEF T!Init, Posting
  <2> QED BY <2>1, <2>3, <2>4 DEF TurnsTyped
<1>3. CallsHold /\ PostsHold
  BY <1>1 DEF CallsHold, PostsHold, CallHolds, PostHolds, T!Idle, T!NoTurn
<1>4. T!TranscriptTellsTheTurns
  <2>1. \A m \in Sent : Tells(m, turn[m], transcript, runs)
    BY <1>1 DEF Tells, SaidIn, T!NoTurn
  <2> QED BY <2>1, TellsIs
<1>5. T!TurnsAreSerialised
  BY <1>1 DEF T!TurnsAreSerialised, T!NoTurn
<1>6. T!QuietWhenDone
  BY <1>1 DEF T!QuietWhenDone
<1> QED BY <1>2, <1>3, <1>4, <1>5, <1>6 DEF TurnsInv

\* How a session moves on, as far as the others have to know.
Moves(s, rv, tr, tn, rv2, tr2, tn2) ==
    /\ rv[s] <= rv2[s] /\ Extends(tr[s], tr2[s])
    /\ rv2[s] = rv[s] =>
          /\ Pending(tn2, s) \subseteq Pending(tn, s)
          /\ \A i \in (Len(tr[s]) + 1)..Len(tr2[s]) : tr2[s][i][2] \in Pending(tn, s)

\* What a call knows stays true while its session moves on.
LEMMA CallStands ==
    ASSUME NEW m, NEW x \in Working, NEW t, t.from \in Nat, runs \subseteq runs',
           revision \in [T!Sids -> Nat], revision' \in [T!Sids -> Nat],
           transcript \in [T!Sids -> Seq(Entries)], transcript' \in [T!Sids -> Seq(Entries)],
           CallHolds(m, x, t, revision, transcript, turn, runs),
           \A s \in T!Sids : Moves(s, revision, transcript, turn, revision', transcript', turn')
    PROVE  CallHolds(m, x, t, revision', transcript', turn', runs')
<1>1. t.state # "none" => t.sid \in T!Sids /\ t.from < revision'[t.sid]
  BY DEF CallHolds, Moves
<1>2. ASSUME x.pc \in {"known", "loaded"}
      PROVE  /\ x.expected <= revision'[x.sid]
             /\ x.expected = revision'[x.sid] => x.expected = revision[x.sid] /\ revision'[x.sid] = revision[x.sid]
                                           /\ Pending(turn', x.sid) \subseteq x.pending
  <2>1. /\ x.sid \in T!Sids /\ x.expected <= revision[x.sid]
        /\ x.expected = revision[x.sid] => Pending(turn, x.sid) \subseteq x.pending
    BY <1>2 DEF CallHolds
  <2>2. /\ x.expected \in Nat /\ revision[x.sid] \in Nat /\ revision'[x.sid] \in Nat
        /\ revision[x.sid] <= revision'[x.sid]
        /\ revision'[x.sid] = revision[x.sid] => Pending(turn', x.sid) \subseteq Pending(turn, x.sid)
    BY <2>1 DEF Moves, Working, Points
  <2> QED BY <2>1, <2>2
<1>3. ASSUME x.pc = "loaded"
      PROVE  /\ Extends(x.history, transcript'[x.sid])
             /\ x.expected = revision'[x.sid] => GoesOnWith(x.history, transcript'[x.sid], x.pending)
  <2> DEFINE h == x.history
             u == transcript[x.sid]
             v == transcript'[x.sid]
  <2>1. /\ x.sid \in T!Sids /\ Extends(h, u)
        /\ x.expected = revision[x.sid] => GoesOnWith(h, u, x.pending) /\ Pending(turn, x.sid) \subseteq x.pending
    BY <1>3 DEF CallHolds
  <2>2. /\ Extends(u, v)
        /\ revision'[x.sid] = revision[x.sid] =>
              \A i \in (Len(u) + 1)..Len(v) : v[i][2] \in Pending(turn, x.sid)
    BY <2>1 DEF Moves
  <2>3. Len(h) \in Nat /\ Len(u) \in Nat /\ Len(v) \in Nat
    BY <2>1 DEF Working, Points
  <2> HIDE DEF h, u, v
  <2>4. Extends(h, v)
    BY <2>1, <2>2, <2>3 DEF Extends
  <2>5. x.expected = revision'[x.sid] => GoesOnWith(h, v, x.pending)
    BY <1>2, <1>3, <2>1, <2>2, <2>3, <2>4 DEF Extends, GoesOnWith
  <2> QED BY <2>4, <2>5 DEF h, v
<1> QED BY <1>1, <1>2, <1>3 DEF CallHolds

\* A session that nobody touched has moved on by nothing.
LEMMA StayMoves ==
    ASSUME NEW s \in T!Sids, NEW rv \in [T!Sids -> Nat], NEW tr \in [T!Sids -> Seq(Entries)],
           NEW tn, NEW tn2, NEW rv2, NEW tr2, rv2[s] = rv[s], tr2[s] = tr[s],
           Pending(tn2, s) \subseteq Pending(tn, s)
    PROVE  Moves(s, rv, tr, tn, rv2, tr2, tn2)
<1>1. rv[s] \in Nat /\ Len(tr[s]) \in Nat
  OBVIOUS
<1> QED BY <1>1 DEF Moves, Extends

\* What is settled stays, and transcripts grow at their ends.
Settles ==
    /\ \A m \in Sent : turn[m].state \in {"completed", "failed"} => turn'[m] = turn[m]
    /\ \A s \in T!Sids : SubSeq(transcript'[s], 1, Len(transcript[s])) = transcript[s]

LEMMA BeginningIs ==
    ASSUME NEW h \in Seq(Entries), NEW t \in Seq(Entries), Extends(h, t)
    PROVE  SubSeq(t, 1, Len(h)) = h
<1>1. Len(h) \in Nat /\ Len(h) <= Len(t) /\ \A i \in 1..Len(h) : t[i] = h[i]
  BY DEF Extends
<1>2. SubSeq(t, 1, Len(h)) \in Seq(Entries) /\ Len(SubSeq(t, 1, Len(h))) = Len(h)
  BY <1>1
<1>3. \A i \in 1..Len(h) : SubSeq(t, 1, Len(h))[i] = h[i]
  BY <1>1
<1> QED BY <1>2, <1>3

\* What everybody may rely on.
LEMMA TurnsFacts ==
    ASSUME TurnsInv
    PROVE  /\ revision \in [T!Sids -> Nat] /\ transcript \in [T!Sids -> Seq(Entries)]
           /\ turn \in [Sent -> [state : {"none", "pending", "completed", "failed"},
                                 sid : T!Sids \cup {Nothing}, pos : Nat, from : Nat]]
           /\ activity \in [T!Sids -> {"idle", "listening", "reasoning"}]
           /\ runs \subseteq Sent /\ returning \in BOOLEAN
           /\ send \in [Sent -> Working] /\ post \in [Posts -> Posting]
           /\ \A m \in Sent : /\ CallHolds(m, send[m], turn[m], revision, transcript, turn, runs)
                              /\ Tells(m, turn[m], transcript, runs)
           /\ \A p \in Posts : PostHolds(post[p], revision)
           /\ Serial(turn) /\ Quiet(activity, send)
BY TellsIs, SerialIs, QuietIs DEF TurnsInv, TurnsTyped, T!TypeOK, Entries, CallsHold, PostsHold

\* A step of the calls M, or of a post, that the others can stand.
LEMMA TurnsStep ==
    ASSUME TurnsInv, NEW M \in SUBSET Sent,
           revision' \in [T!Sids -> Nat], transcript' \in [T!Sids -> Seq(Entries)],
           turn' \in [Sent -> [state : {"none", "pending", "completed", "failed"},
                               sid : T!Sids \cup {Nothing}, pos : Nat, from : Nat]],
           activity' \in [T!Sids -> {"idle", "listening", "reasoning"}],
           runs \subseteq runs', runs' \subseteq Sent, returning' \in BOOLEAN,
           send' \in [Sent -> Working], post' \in [Posts -> Posting],
           \A o \in Sent \ M : send'[o] = send[o] /\ turn'[o] = turn[o],
           \A o \in M : turn[o].state \in {"completed", "failed"} => turn'[o] = turn[o],
           \A s \in T!Sids : Moves(s, revision, transcript, turn, revision', transcript', turn'),
           \A o \in M : CallHolds(o, send'[o], turn'[o], revision', transcript', turn', runs'),
           \A p \in Posts : PostHolds(post'[p], revision') \/ post'[p] = post[p],
           \A o \in Sent : Tells(o, turn'[o], transcript', runs'),
           Serial(turn'), Quiet(activity', send')
    PROVE  TurnsInv' /\ Settles
<1>1. T!TypeOK' /\ TurnsTyped'
  BY DEF TurnsTyped, T!TypeOK, Entries, Working, Points, Posting
<1>2. ASSUME NEW o \in Sent
      PROVE  CallHolds(o, send'[o], turn'[o], revision', transcript', turn', runs')
  <2>1. CASE o \in M
    BY <2>1
  <2>2. CASE o \notin M
    <3>1. send'[o] = send[o] /\ turn'[o] = turn[o]
      BY <2>2
    <3>2. /\ CallHolds(o, send[o], turn[o], revision, transcript, turn, runs)
          /\ send[o] \in Working /\ turn[o].from \in Nat
          /\ revision \in [T!Sids -> Nat] /\ transcript \in [T!Sids -> Seq(Entries)]
      BY TurnsFacts
    <3>3. CallHolds(o, send[o], turn[o], revision', transcript', turn', runs')
      BY <3>2, CallStands
    <3> QED BY Zenon, <3>1, <3>3
  <2> QED BY <2>1, <2>2
<1>3. ASSUME NEW p \in Posts PROVE PostHolds(post'[p], revision')
  <2>1. CASE post'[p] = post[p]
    <3>1. PostHolds(post[p], revision) /\ post[p] \in Posting /\ revision \in [T!Sids -> Nat]
      BY TurnsFacts
    <3>2. \A s \in T!Sids : revision[s] <= revision'[s]
      BY DEF Moves
    <3>3. ASSUME post[p].sid \in T!Sids, post[p].expected <= revision[post[p].sid]
          PROVE  post[p].expected <= revision'[post[p].sid]
      <4>1. /\ revision[post[p].sid] \in Nat /\ revision'[post[p].sid] \in Nat
            /\ post[p].expected \in Nat
        BY <3>1, <3>3 DEF Posting
      <4> QED BY <3>2, <3>3, <4>1
    <3> QED BY <2>1, <3>1, <3>3 DEF PostHolds
  <2> QED BY <2>1
<1>4. T!TranscriptTellsTheTurns'
  BY DEF T!TranscriptTellsTheTurns, Tells, SaidIn, T!Said, T!User, T!Assistant
<1>5. T!TurnsAreSerialised'
  <2>1. \A s : T!NextPosition(s)' = Cardinality(Reserved(turn', s))
    BY CardinalityIs DEF Reserved, T!NextPosition
  <2> QED BY Zenon, <2>1 DEF T!TurnsAreSerialised, Serial
<1>6. T!QuietWhenDone'
  BY DEF T!QuietWhenDone, Quiet, T!Live, Working, Points
<1>7. Settles
  <2>1. \A m \in Sent : turn[m].state \in {"completed", "failed"} => turn'[m] = turn[m]
    OBVIOUS
  <2>2. ASSUME NEW s \in T!Sids
        PROVE  SubSeq(transcript'[s], 1, Len(transcript[s])) = transcript[s]
    <3>1. Extends(transcript[s], transcript'[s])
      BY DEF Moves
    <3>2. transcript[s] \in Seq(Entries) /\ transcript'[s] \in Seq(Entries)
      BY TurnsFacts
    <3> QED BY <3>1, <3>2, BeginningIs
  <2> QED BY <2>1, <2>2 DEF Settles
<1> QED BY <1>1, <1>2, <1>3, <1>4, <1>5, <1>6, <1>7 DEF TurnsInv, CallsHold, PostsHold

\* A step that says nothing and reserves no turn.
LEMMA SilentStep ==
    ASSUME TurnsInv, NEW M \in SUBSET Sent,
           revision' = revision, transcript' = transcript,
           turn' \in [Sent -> [state : {"none", "pending", "completed", "failed"},
                               sid : T!Sids \cup {Nothing}, pos : Nat, from : Nat]],
           \A o \in Sent : /\ turn'[o].sid = turn[o].sid /\ turn'[o].pos = turn[o].pos
                           /\ turn'[o].from = turn[o].from
                           /\ \/ turn'[o].state = turn[o].state
                              \/ turn[o].state = "pending" /\ turn'[o].state = "failed",
           activity' \in [T!Sids -> {"idle", "listening", "reasoning"}],
           runs \subseteq runs', runs' \subseteq Sent, returning' = returning,
           send' \in [Sent -> Working], post' \in [Posts -> Posting],
           \A o \in Sent \ M : send'[o] = send[o] /\ turn'[o] = turn[o],
           \A o \in M : CallHolds(o, send'[o], turn'[o], revision, transcript, turn', runs'),
           \A p \in Posts : PostHolds(post'[p], revision) \/ post'[p] = post[p],
           Quiet(activity', send')
    PROVE  TurnsInv' /\ Settles
<1>1. \A s \in T!Sids : Pending(turn', s) \subseteq Pending(turn, s)
  BY DEF Pending
<1>2. \A s \in T!Sids : Moves(s, revision, transcript, turn, revision', transcript', turn')
  BY <1>1, TurnsFacts, StayMoves
<1>3. Serial(turn')
  <2>1. \A s : Reserved(turn', s) = Reserved(turn, s)
    BY DEF Reserved
  <2>2. \A o \in Sent : (turn'[o].state # "none") = (turn[o].state # "none")
    OBVIOUS
  <2>3. Serial(turn)
    BY TurnsFacts
  <2>4. /\ \A s : Cardinality(Reserved(turn', s)) = Cardinality(Reserved(turn, s))
    BY Zenon, <2>1
  <2> QED BY <2>2, <2>3, <2>4 DEF Serial
<1>4. ASSUME NEW o \in Sent PROVE Tells(o, turn'[o], transcript', runs')
  <2>1. /\ (turn'[o].state = "completed") = (turn[o].state = "completed")
        /\ turn'[o].sid = turn[o].sid
    OBVIOUS
  <2>2. Tells(o, turn[o], transcript, runs)
    BY TurnsFacts
  <2>3. Tells(o, turn'[o], transcript, runs')
    BY <2>1, <2>2 DEF Tells
  <2> QED BY Zenon, <2>3
<1>5. \A o \in Sent : turn[o].state \in {"completed", "failed"} => turn'[o] = turn[o]
  <2>1. ASSUME NEW o \in Sent, turn[o].state \in {"completed", "failed"} PROVE turn'[o] = turn[o]
    <3>1. turn'[o].state = turn[o].state
      BY <2>1
    <3>2. turn[o] = [state |-> turn[o].state, sid |-> turn[o].sid, pos |-> turn[o].pos,
                     from |-> turn[o].from]
      BY TurnsFacts
    <3>3. turn'[o] = [state |-> turn'[o].state, sid |-> turn'[o].sid, pos |-> turn'[o].pos,
                      from |-> turn'[o].from]
      OBVIOUS
    <3>4. turn'[o].sid = turn[o].sid /\ turn'[o].pos = turn[o].pos /\ turn'[o].from = turn[o].from
      OBVIOUS
    <3> QED BY Zenon, <3>1, <3>2, <3>3, <3>4
  <2> QED BY <2>1
<1>6. /\ \A o \in M : CallHolds(o, send'[o], turn'[o], revision', transcript', turn', runs')
      /\ \A p \in Posts : PostHolds(post'[p], revision') \/ post'[p] = post[p]
  BY Zenon
<1>7. revision' \in [T!Sids -> Nat] /\ transcript' \in [T!Sids -> Seq(Entries)] /\ returning' \in BOOLEAN
  BY TurnsFacts
<1> QED BY ZenonT(30), <1>2, <1>3, <1>4, <1>5, <1>6, <1>7, TurnsStep

\* A call with one field set: everything else is as it was.
LEMMA PcSet ==
    ASSUME NEW f \in [Sent -> Working], NEW m \in Sent,
           NEW v \in Points
    PROVE  LET g == [f EXCEPT ![m].pc = v]
           IN  /\ g \in [Sent -> Working] /\ \A o \in Sent \ {m} : g[o] = f[o]
               /\ g[m].pc = v
               /\ g[m].sid = f[m].sid /\ g[m].expected = f[m].expected /\ g[m].history = f[m].history
               /\ g[m].pending = f[m].pending /\ g[m].base = f[m].base
<1> DEFINE r == [f[m] EXCEPT !.pc = v]
<1>1. r \in Working
  <2>1. ASSUME NEW x \in Working PROVE [x EXCEPT !.pc = v] \in Working
    BY DEF Working
  <2> QED BY <2>1
<1>2. r.pc = v
  BY DEF Working
<1>3. /\ r.sid = f[m].sid /\ r.expected = f[m].expected /\ r.history = f[m].history
      /\ r.pending = f[m].pending /\ r.base = f[m].base
  BY DEF Working
<1>4. [f EXCEPT ![m].pc = v] = [f EXCEPT ![m] = r]
  OBVIOUS
<1> HIDE DEF r
<1> QED BY <1>1, <1>2, <1>3, <1>4

LEMMA SidSet ==
    ASSUME NEW f \in [Sent -> Working], NEW m \in Sent,
           NEW v \in T!Sids \cup {Nothing}
    PROVE  LET g == [f EXCEPT ![m].sid = v]
           IN  /\ g \in [Sent -> Working] /\ \A o \in Sent \ {m} : g[o] = f[o]
               /\ g[m].sid = v
               /\ g[m].pc = f[m].pc /\ g[m].expected = f[m].expected /\ g[m].history = f[m].history
               /\ g[m].pending = f[m].pending /\ g[m].base = f[m].base
<1> DEFINE r == [f[m] EXCEPT !.sid = v]
<1>1. r \in Working
  <2>1. ASSUME NEW x \in Working PROVE [x EXCEPT !.sid = v] \in Working
    BY DEF Working, Points
  <2> QED BY <2>1
<1>2. r.sid = v
  BY DEF Working, Points
<1>3. /\ r.pc = f[m].pc /\ r.expected = f[m].expected /\ r.history = f[m].history
      /\ r.pending = f[m].pending /\ r.base = f[m].base
  BY DEF Working, Points
<1>4. [f EXCEPT ![m].sid = v] = [f EXCEPT ![m] = r]
  OBVIOUS
<1> HIDE DEF r
<1> QED BY <1>1, <1>2, <1>3, <1>4

LEMMA ExpectedSet ==
    ASSUME NEW f \in [Sent -> Working], NEW m \in Sent,
           NEW v \in Nat
    PROVE  LET g == [f EXCEPT ![m].expected = v]
           IN  /\ g \in [Sent -> Working] /\ \A o \in Sent \ {m} : g[o] = f[o]
               /\ g[m].expected = v
               /\ g[m].pc = f[m].pc /\ g[m].sid = f[m].sid /\ g[m].history = f[m].history
               /\ g[m].pending = f[m].pending /\ g[m].base = f[m].base
<1> DEFINE r == [f[m] EXCEPT !.expected = v]
<1>1. r \in Working
  <2>1. ASSUME NEW x \in Working PROVE [x EXCEPT !.expected = v] \in Working
    BY DEF Working, Points
  <2> QED BY <2>1
<1>2. r.expected = v
  BY DEF Working, Points
<1>3. /\ r.pc = f[m].pc /\ r.sid = f[m].sid /\ r.history = f[m].history
      /\ r.pending = f[m].pending /\ r.base = f[m].base
  BY DEF Working, Points
<1>4. [f EXCEPT ![m].expected = v] = [f EXCEPT ![m] = r]
  OBVIOUS
<1> HIDE DEF r
<1> QED BY <1>1, <1>2, <1>3, <1>4

LEMMA HistorySet ==
    ASSUME NEW f \in [Sent -> Working], NEW m \in Sent,
           NEW v \in Seq(Entries)
    PROVE  LET g == [f EXCEPT ![m].history = v]
           IN  /\ g \in [Sent -> Working] /\ \A o \in Sent \ {m} : g[o] = f[o]
               /\ g[m].history = v
               /\ g[m].pc = f[m].pc /\ g[m].sid = f[m].sid /\ g[m].expected = f[m].expected
               /\ g[m].pending = f[m].pending /\ g[m].base = f[m].base
<1> DEFINE r == [f[m] EXCEPT !.history = v]
<1>1. r \in Working
  <2>1. ASSUME NEW x \in Working PROVE [x EXCEPT !.history = v] \in Working
    BY DEF Working, Points
  <2> QED BY <2>1
<1>2. r.history = v
  BY DEF Working, Points
<1>3. /\ r.pc = f[m].pc /\ r.sid = f[m].sid /\ r.expected = f[m].expected
      /\ r.pending = f[m].pending /\ r.base = f[m].base
  BY DEF Working, Points
<1>4. [f EXCEPT ![m].history = v] = [f EXCEPT ![m] = r]
  OBVIOUS
<1> HIDE DEF r
<1> QED BY <1>1, <1>2, <1>3, <1>4

LEMMA PendingSet ==
    ASSUME NEW f \in [Sent -> Working], NEW m \in Sent,
           NEW v \in SUBSET Sent
    PROVE  LET g == [f EXCEPT ![m].pending = v]
           IN  /\ g \in [Sent -> Working] /\ \A o \in Sent \ {m} : g[o] = f[o]
               /\ g[m].pending = v
               /\ g[m].pc = f[m].pc /\ g[m].sid = f[m].sid /\ g[m].expected = f[m].expected
               /\ g[m].history = f[m].history /\ g[m].base = f[m].base
<1> DEFINE r == [f[m] EXCEPT !.pending = v]
<1>1. r \in Working
  <2>1. ASSUME NEW x \in Working PROVE [x EXCEPT !.pending = v] \in Working
    BY DEF Working, Points
  <2> QED BY <2>1
<1>2. r.pending = v
  BY DEF Working, Points
<1>3. /\ r.pc = f[m].pc /\ r.sid = f[m].sid /\ r.expected = f[m].expected
      /\ r.history = f[m].history /\ r.base = f[m].base
  BY DEF Working, Points
<1>4. [f EXCEPT ![m].pending = v] = [f EXCEPT ![m] = r]
  OBVIOUS
<1> HIDE DEF r
<1> QED BY <1>1, <1>2, <1>3, <1>4

LEMMA BaseSet ==
    ASSUME NEW f \in [Sent -> Working], NEW m \in Sent,
           NEW v \in Seq(Entries)
    PROVE  LET g == [f EXCEPT ![m].base = v]
           IN  /\ g \in [Sent -> Working] /\ \A o \in Sent \ {m} : g[o] = f[o]
               /\ g[m].base = v
               /\ g[m].pc = f[m].pc /\ g[m].sid = f[m].sid /\ g[m].expected = f[m].expected
               /\ g[m].history = f[m].history /\ g[m].pending = f[m].pending
<1> DEFINE r == [f[m] EXCEPT !.base = v]
<1>1. r \in Working
  <2>1. ASSUME NEW x \in Working PROVE [x EXCEPT !.base = v] \in Working
    BY DEF Working, Points
  <2> QED BY <2>1
<1>2. r.base = v
  BY DEF Working, Points
<1>3. /\ r.pc = f[m].pc /\ r.sid = f[m].sid /\ r.expected = f[m].expected
      /\ r.history = f[m].history /\ r.pending = f[m].pending
  BY DEF Working, Points
<1>4. [f EXCEPT ![m].base = v] = [f EXCEPT ![m] = r]
  OBVIOUS
<1> HIDE DEF r
<1> QED BY <1>1, <1>2, <1>3, <1>4

\* A call that is over.
LEMMA OverIs ==
    ASSUME TurnsInv, NEW m \in Sent, NEW pc \in {"told", "refused", "dead"},
           send' = T!Over(m, pc)
    PROVE  /\ send' \in [Sent -> Working] /\ \A o \in Sent \ {m} : send'[o] = send[o]
           /\ send'[m].pc = pc /\ send'[m].sid = send[m].sid
<1> DEFINE u == [T!Idle EXCEPT !.pc = pc]
           x == [u EXCEPT !.sid = send[m].sid]
<1>1. send \in [Sent -> Working]
  BY TurnsFacts
<1>2. T!Idle \in Working
  BY DEF T!Idle, Working, Points
<1>3. u \in Working /\ u.pc = pc
  <2> DEFINE w == T!Idle
  <2>1. w \in Working
    BY <1>2
  <2> HIDE DEF w
  <2>2. [w EXCEPT !.pc = pc] \in Working /\ [w EXCEPT !.pc = pc].pc = pc
    BY <2>1 DEF Working, Points
  <2> QED BY <2>2 DEF w
<1> HIDE DEF u
<1>4. x \in Working
  <2>1. send[m].sid \in T!Sids \cup {Nothing}
    BY <1>1 DEF Working, Points
  <2> QED BY <1>3, <2>1 DEF Working, Points
<1>5. x.sid = send[m].sid /\ x.pc = pc
  BY <1>3 DEF Working, Points
<1> HIDE DEF x
<1>6. send' = [send EXCEPT ![m] = x]
  BY Zenon DEF T!Over, u, x
<1> QED BY <1>1, <1>4, <1>5, <1>6

\* A session is quiet, or somebody has it busy, after a step of one call.
LEMMA QuietStep ==
    ASSUME TurnsInv, NEW m \in Sent, NEW s \in T!Sids, send' \in [Sent -> Working],
           \A o \in Sent \ {m} : send'[o] = send[o],
           send'[m].sid = s, send[m].pc \in {"idle", "told", "refused"} \/ send[m].sid = s,
           \A z \in T!Sids \ {s} : activity'[z] = activity[z],
           send'[m].pc \notin {"idle", "told", "refused"} \/ activity'[s] = "idle"
    PROVE  Quiet(activity', send')
<1>1. Quiet(activity, send)
  BY TurnsFacts
<1>2. ASSUME NEW z \in T!Sids, activity'[z] # "idle"
      PROVE  \E o \in Sent : send'[o].sid = z /\ send'[o].pc \notin {"idle", "told", "refused"}
  <2>1. CASE z = s
    BY <1>2, <2>1
  <2>2. CASE z # s
    <3>1. PICK o \in Sent : send[o].sid = z /\ send[o].pc \notin {"idle", "told", "refused"}
      BY <1>1, <1>2, <2>2 DEF Quiet
    <3>2. o # m
      BY <2>2, <3>1
    <3> QED BY <3>1, <3>2
  <2> QED BY <2>1, <2>2
<1> QED BY <1>2 DEF Quiet

LEMMA TurnsRead ==
    ASSUME TurnsInv, NEW m \in Sent, NEW s \in T!Sids, T!ReadRevision(m, s)
    PROVE  TurnsInv' /\ Settles
<1>1. /\ send[m].pc = "idle" /\ UNCHANGED <<revision, transcript, turn, activity, runs, returning, post>>
      /\ send \in [Sent -> Working] /\ revision \in [T!Sids -> Nat]
  BY TurnsFacts DEF T!ReadRevision, T!store
<1>2. Pending(turn, s) \subseteq Sent
  BY DEF Pending
<1>3. send' = [send EXCEPT ![m].pc = "known", ![m].sid = s, ![m].expected = revision[s],
                  ![m].pending = Pending(turn, s)]
  BY DEF T!ReadRevision, Pending
<1>4. /\ send' \in [Sent -> Working] /\ \A o \in Sent \ {m} : send'[o] = send[o]
      /\ send'[m].pc = "known" /\ send'[m].sid = s /\ send'[m].expected = revision[s]
      /\ send'[m].pending = Pending(turn, s)
  <2> DEFINE f == [send EXCEPT ![m].pc = "known"]
             g == [f EXCEPT ![m].sid = s]
             h == [g EXCEPT ![m].expected = revision[s]]
  <2>1. f \in [Sent -> Working] /\ f[m].pc = "known" /\ \A o \in Sent \ {m} : f[o] = send[o]
    <3>1. "known" \in Points
      BY DEF Points
    <3> QED BY <1>1, <3>1, PcSet
  <2>2. send' = [h EXCEPT ![m].pending = Pending(turn, s)]
    BY Zenon, <1>3
  <2> HIDE DEF f
  <2>3. /\ g \in [Sent -> Working] /\ g[m].pc = "known" /\ g[m].sid = s
        /\ \A o \in Sent \ {m} : g[o] = send[o]
    BY <2>1, SidSet
  <2> HIDE DEF g
  <2>4. /\ h \in [Sent -> Working] /\ h[m].pc = "known" /\ h[m].sid = s
        /\ h[m].expected = revision[s] /\ \A o \in Sent \ {m} : h[o] = send[o]
    <3>1. revision[s] \in Nat
      BY <1>1
    <3> QED BY <2>3, <3>1, ExpectedSet
  <2> HIDE DEF h
  <2> QED BY <1>2, <2>2, <2>4, PendingSet
<1>5. CallHolds(m, send'[m], turn'[m], revision, transcript, turn', runs')
  <2>1. CallHolds(m, send'[m], turn[m], revision, transcript, turn, runs)
    BY <1>1, <1>4, TurnsFacts DEF CallHolds
  <2> QED BY Zenon, <1>1, <2>1
<1>6. Quiet(activity', send')
  BY <1>1, <1>4, QuietStep
<1> QED BY <1>1, <1>4, <1>5, <1>6, TurnsFacts, SilentStep

LEMMA TurnsLoad ==
    ASSUME TurnsInv, NEW m \in Sent, T!LoadHistory(m)
    PROVE  TurnsInv' /\ Settles
<1> DEFINE s == send[m].sid
<1>1. /\ send[m].pc = "known" /\ UNCHANGED <<revision, transcript, turn, runs, returning, post>>
      /\ send \in [Sent -> Working] /\ revision \in [T!Sids -> Nat] /\ s \in T!Sids
      /\ transcript \in [T!Sids -> Seq(Entries)]
  BY TurnsFacts DEF T!LoadHistory, CallHolds
<1>2. /\ send' = [send EXCEPT ![m].pc = "loaded", ![m].history = transcript[s]]
      /\ activity' = [activity EXCEPT ![s] = "listening"]
  BY DEF T!LoadHistory
<1>3. /\ send' \in [Sent -> Working] /\ \A o \in Sent \ {m} : send'[o] = send[o]
      /\ send'[m].pc = "loaded" /\ send'[m].sid = s /\ send'[m].expected = send[m].expected
      /\ send'[m].pending = send[m].pending /\ send'[m].history = transcript[s]
  <2> DEFINE f == [send EXCEPT ![m].pc = "loaded"]
             h == transcript[s]
  <2>1. /\ f \in [Sent -> Working] /\ f[m].pc = "loaded" /\ f[m].sid = s
        /\ f[m].expected = send[m].expected /\ f[m].pending = send[m].pending
        /\ \A o \in Sent \ {m} : f[o] = send[o]
    <3>1. "loaded" \in Points /\ send \in [Sent -> Working]
      BY <1>1 DEF Points
    <3>2. /\ f \in [Sent -> Working] /\ f[m].pc = "loaded"
          /\ \A o \in Sent \ {m} : f[o] = send[o]
      BY <3>1, PcSet
    <3>3. /\ f[m].sid = send[m].sid /\ f[m].expected = send[m].expected
          /\ f[m].pending = send[m].pending
      BY <3>1, PcSet
    <3> QED BY <3>2, <3>3
  <2>2. send' = [f EXCEPT ![m].history = h] /\ h \in Seq(Entries)
    BY <1>1, <1>2
  <2> HIDE DEF f, h
  <2>3. /\ send' \in [Sent -> Working] /\ \A o \in Sent \ {m} : send'[o] = f[o]
        /\ send'[m].history = h /\ send'[m].pc = f[m].pc /\ send'[m].sid = f[m].sid
        /\ send'[m].expected = f[m].expected /\ send'[m].pending = f[m].pending
    BY <2>1, <2>2, HistorySet
  <2> QED BY <2>1, <2>3 DEF h
<1>4. /\ activity' \in [T!Sids -> {"idle", "listening", "reasoning"}]
      /\ \A z \in T!Sids \ {s} : activity'[z] = activity[z]
  BY <1>1, <1>2, TurnsFacts
<1>5. CallHolds(m, send'[m], turn'[m], revision, transcript, turn', runs')
  <2>1. Extends(transcript[s], transcript[s]) /\ GoesOnWith(transcript[s], transcript[s], send[m].pending)
    BY <1>1 DEF Extends, GoesOnWith
  <2>2. CallHolds(m, send'[m], turn[m], revision, transcript, turn, runs)
    BY <1>1, <1>3, <2>1, TurnsFacts DEF CallHolds
  <2> QED BY Zenon, <1>1, <2>2
<1> HIDE DEF s
<1>6. Quiet(activity', send')
  BY <1>1, <1>3, <1>4, QuietStep DEF s
<1> QED BY <1>1, <1>3, <1>4, <1>5, <1>6, TurnsFacts, SilentStep

\* A call that ends without completing its turn.
LEMMA TurnsAbandon ==
    ASSUME TurnsInv, NEW m \in Sent, NEW pc \in {"told", "refused"}, send[m].pc # "idle",
           T!Abandon(m, pc),
           revision' = revision, transcript' = transcript, returning' = returning,
           post' = post, runs \subseteq runs', runs' \subseteq Sent
    PROVE  TurnsInv' /\ Settles
<1> DEFINE s == send[m].sid
           tn == [turn EXCEPT ![m].state = "failed"]
<1>1. /\ send \in [Sent -> Working] /\ s \in T!Sids
      /\ turn \in [Sent -> [state : {"none", "pending", "completed", "failed"},
                            sid : T!Sids \cup {Nothing}, pos : Nat, from : Nat]]
      /\ CallHolds(m, send[m], turn[m], revision, transcript, turn, runs)
      /\ activity \in [T!Sids -> {"idle", "listening", "reasoning"}]
  BY TurnsFacts DEF CallHolds
<1>2. /\ turn' = IF turn[m].state = "pending" THEN tn ELSE turn
      /\ activity' = [activity EXCEPT ![s] = "idle"] /\ send' = T!Over(m, pc)
  BY DEF T!Abandon, T!FailTurn
<1>3. /\ send' \in [Sent -> Working] /\ \A o \in Sent \ {m} : send'[o] = send[o]
      /\ send'[m].pc = pc /\ send'[m].sid = s
  BY <1>2, OverIs
<1>4. /\ turn' \in [Sent -> [state : {"none", "pending", "completed", "failed"},
                             sid : T!Sids \cup {Nothing}, pos : Nat, from : Nat]]
      /\ \A o \in Sent \ {m} : turn'[o] = turn[o]
      /\ turn'[m].sid = turn[m].sid /\ turn'[m].pos = turn[m].pos /\ turn'[m].from = turn[m].from
      /\ \/ turn'[m] = turn[m]
         \/ turn[m].state = "pending" /\ turn'[m].state = "failed"
  BY <1>1, <1>2
<1>5. /\ activity' \in [T!Sids -> {"idle", "listening", "reasoning"}]
      /\ \A z \in T!Sids \ {s} : activity'[z] = activity[z] /\ activity'[s] = "idle"
  BY <1>1, <1>2
<1>6. CallHolds(m, send'[m], turn'[m], revision, transcript, turn', runs')
  BY <1>1, <1>3, <1>4 DEF CallHolds
<1> HIDE DEF s, tn
<1>7. activity'[s] = "idle"
  BY <1>1, <1>2
<1>8. Quiet(activity', send')
  BY <1>1, <1>3, <1>5, <1>7, QuietStep DEF s
<1>9. post' \in [Posts -> Posting]
  BY TurnsFacts
<1>10. \A o \in Sent : /\ turn'[o].sid = turn[o].sid /\ turn'[o].pos = turn[o].pos
                       /\ turn'[o].from = turn[o].from
                       /\ \/ turn'[o].state = turn[o].state
                          \/ turn[o].state = "pending" /\ turn'[o].state = "failed"
  BY <1>4
<1>11. /\ \A o \in Sent \ {m} : send'[o] = send[o] /\ turn'[o] = turn[o]
       /\ \A o \in {m} : CallHolds(o, send'[o], turn'[o], revision, transcript, turn', runs')
       /\ {m} \in SUBSET Sent
       /\ \A p \in Posts : PostHolds(post'[p], revision) \/ post'[p] = post[p]
  BY <1>3, <1>4, <1>6
<1> QED BY <1>3, <1>4, <1>5, <1>8, <1>9, <1>10, <1>11, SilentStep

LEMMA TurnsEnd ==
    ASSUME TurnsInv, NEW m \in Sent,
           \/ T!Blocked(m) \/ T!Conflict(m) \/ T!NoAnswer(m) \/ T!Tell(m) \/ T!FailAfterCommit(m)
    PROVE  TurnsInv' /\ Settles
<1>1. runs \subseteq Sent /\ runs \cup {m} \subseteq Sent
  BY TurnsFacts
<1>2. CASE T!Blocked(m) \/ T!Conflict(m) \/ T!FailAfterCommit(m)
  <2>1. /\ T!Abandon(m, "refused") /\ send[m].pc # "idle" /\ runs' = runs
        /\ UNCHANGED <<revision, transcript, returning, post>>
    BY <1>2 DEF T!Blocked, T!Conflict, T!FailAfterCommit
  <2> QED BY <1>1, <2>1, TurnsAbandon
<1>3. CASE T!NoAnswer(m)
  <2>1. /\ T!Abandon(m, "refused") /\ send[m].pc # "idle" /\ runs' \in {runs, runs \cup {m}}
        /\ UNCHANGED <<revision, transcript, returning, post>>
    BY <1>3 DEF T!NoAnswer
  <2> QED BY <1>1, <2>1, TurnsAbandon
<1>4. CASE T!Tell(m)
  <2>1. /\ send[m].pc = "stored" /\ turn' = turn /\ runs' = runs /\ send' = T!Over(m, "told")
        /\ activity' = [activity EXCEPT ![send[m].sid] = "idle"]
        /\ UNCHANGED <<revision, transcript, returning, post>>
    BY <1>4 DEF T!Tell
  <2>2. turn[m].state = "completed"
    BY <2>1, TurnsFacts DEF CallHolds
  <2>3. T!Abandon(m, "told")
    BY <2>1, <2>2 DEF T!Abandon, T!FailTurn
  <2> QED BY <1>1, <2>1, <2>3, TurnsAbandon
<1> QED BY <1>2, <1>3, <1>4

\* A step of one call that leaves the turns as they are.
LEMMA TurnsDie ==
    ASSUME TurnsInv, NEW m \in Sent, T!Die(m)
    PROVE  TurnsInv' /\ Settles
<1>1. /\ send[m].pc # "idle" /\ send' = T!Over(m, "dead")
      /\ UNCHANGED <<revision, transcript, turn, activity, runs, returning, post>>
  BY DEF T!Die, T!Live, T!store
<1>2. /\ send' \in [Sent -> Working] /\ \A o \in Sent \ {m} : send'[o] = send[o]
      /\ send'[m].pc = "dead" /\ send'[m].sid = send[m].sid /\ send[m].sid \in T!Sids
  BY <1>1, OverIs, TurnsFacts DEF CallHolds
<1>3. CallHolds(m, send'[m], turn'[m], revision, transcript, turn', runs')
  <2>1. CallHolds(m, send'[m], turn[m], revision, transcript, turn, runs)
    BY <1>2, TurnsFacts DEF CallHolds
  <2> QED BY Zenon, <1>1, <2>1
<1>4. Quiet(activity', send')
  BY <1>1, <1>2, QuietStep
<1> QED BY <1>1, <1>2, <1>3, <1>4, TurnsFacts, SilentStep

LEMMA TurnsAnswer ==
    ASSUME TurnsInv, NEW m \in Sent, T!Answer(m)
    PROVE  TurnsInv' /\ Settles
<1>1. /\ send[m].pc = "asked" /\ send' = [send EXCEPT ![m].pc = "answered"]
      /\ runs' = runs \cup {m}
      /\ UNCHANGED <<revision, transcript, turn, activity, returning, post>>
  BY DEF T!Answer
<1>2. /\ send' \in [Sent -> Working] /\ \A o \in Sent \ {m} : send'[o] = send[o]
      /\ send'[m].pc = "answered" /\ send'[m].sid = send[m].sid
      /\ send'[m].history = send[m].history /\ send'[m].base = send[m].base
      /\ send'[m].pending = send[m].pending
  <2>1. "answered" \in Points /\ send \in [Sent -> Working]
    BY TurnsFacts DEF Points
  <2> QED BY <1>1, <2>1, PcSet
<1>3. send[m].sid \in T!Sids
  BY <1>1, TurnsFacts DEF CallHolds
<1>4. CallHolds(m, send'[m], turn'[m], revision, transcript, turn', runs')
  <2>1. CallHolds(m, send'[m], turn[m], revision, transcript, turn, runs')
    BY <1>1, <1>2, TurnsFacts DEF CallHolds
  <2> QED BY Zenon, <1>1, <2>1
<1>5. Quiet(activity', send')
  BY <1>1, <1>2, <1>3, QuietStep
<1>6. runs \subseteq runs' /\ runs' \subseteq Sent
  BY <1>1, TurnsFacts
<1> QED BY ZenonT(30), <1>1, <1>2, <1>4, <1>5, <1>6, TurnsFacts, SilentStep

\* A new turn is numbered after the others, from the revision that was theirs.
LEMMA SerialReserved ==
    ASSUME TurnsInv, NEW m \in Sent, NEW s \in T!Sids, turn[m] = T!NoTurn,
           turn' = [turn EXCEPT ![m] = [state |-> "pending", sid |-> s,
                                        pos |-> Cardinality(Reserved(turn, s)),
                                        from |-> revision[s]]]
    PROVE  Serial(turn') /\ Cardinality(Reserved(turn, s)) \in Nat
<1> DEFINE n == Cardinality(Reserved(turn, s))
           tn == turn'
<1>1. /\ turn \in [Sent -> [state : {"none", "pending", "completed", "failed"},
                            sid : T!Sids \cup {Nothing}, pos : Nat, from : Nat]]
      /\ revision \in [T!Sids -> Nat] /\ Serial(turn)
      /\ \A o \in Sent : /\ turn[o].state = "none" => turn[o] = T!NoTurn
                         /\ turn[o].state # "none" =>
                               turn[o].sid \in T!Sids /\ turn[o].from < revision[turn[o].sid]
  BY TurnsFacts DEF CallHolds
<1>2. s # Nothing
  BY TurnsAssumption DEF T!Sids
<1>3. /\ \A o \in Sent \ {m} : tn[o] = turn[o]
      /\ tn[m].state = "pending" /\ tn[m].sid = s /\ tn[m].pos = n /\ tn[m].from = revision[s]
  BY <1>1
<1>4. m \notin Reserved(turn, s) /\ turn[m].sid = Nothing
  BY <1>2 DEF Reserved, T!NoTurn
<1>5. IsFiniteSet(Reserved(turn, s))
  <2>1. Reserved(turn, s) \subseteq Sent
    BY DEF Reserved
  <2> QED BY <2>1, TurnsAssumption, FS_Subset
<1>6. n \in Nat
  BY <1>5, FS_CardinalityType
<1>7. Reserved(tn, s) = Reserved(turn, s) \cup {m}
  BY <1>3 DEF Reserved
<1>8. Cardinality(Reserved(tn, s)) = n + 1
  BY <1>4, <1>5, <1>7, FS_AddElement
<1>9. \A z \in T!Sids \ {s} : Reserved(tn, z) = Reserved(turn, z)
  <2>1. ASSUME NEW z \in T!Sids \ {s} PROVE Reserved(tn, z) = Reserved(turn, z)
    <3>1. z # Nothing /\ z # s
      BY TurnsAssumption DEF T!Sids
    <3>2. \A o \in Sent : tn[o].sid = z <=> turn[o].sid = z
      BY <1>3, <1>4, <3>1
    <3> QED BY <3>2 DEF Reserved
  <2> QED BY <2>1
<1> HIDE DEF n, tn
<1>10. ASSUME NEW o \in Sent, turn[o].state # "none"
       PROVE  turn[o].pos < Cardinality(Reserved(turn, turn[o].sid))
  BY <1>1, <1>10 DEF Serial
<1>11. ASSUME NEW o \in Sent \ {m}, turn[o].sid = s
       PROVE  turn[o].pos \in Nat /\ turn[o].pos < n /\ turn[o].from < revision[s]
  <2>1. turn[o].state # "none"
    BY <1>1, <1>2, <1>11 DEF T!NoTurn
  <2> QED BY <1>1, <1>10, <1>11, <2>1 DEF n
<1>12. ASSUME NEW a \in Sent, tn[a].state # "none"
       PROVE  tn[a].pos < Cardinality(Reserved(tn, tn[a].sid))
  <2>1. CASE a = m
    BY <1>3, <1>6, <1>8, <2>1
  <2>2. CASE a # m /\ turn[a].sid = s
    BY <1>3, <1>6, <1>8, <1>11, <2>2
  <2>3. CASE a # m /\ turn[a].sid # s
    <3>1. tn[a] = turn[a] /\ turn[a].sid \in T!Sids \ {s}
      BY <1>1, <1>3, <1>12, <2>3
    <3> QED BY <1>9, <1>10, <1>12, <3>1
  <2> QED BY <2>1, <2>2, <2>3
<1>13. ASSUME NEW a \in Sent, NEW o \in Sent, a # o, tn[a].state # "none", tn[o].sid = tn[a].sid
       PROVE  tn[a].pos # tn[o].pos /\ (tn[a].pos < tn[o].pos => tn[a].from < tn[o].from)
  <2>1. CASE a = m
    BY <1>3, <1>6, <1>11, <1>13, <2>1
  <2>2. CASE o = m
    BY <1>3, <1>6, <1>11, <1>13, <2>2
  <2>3. CASE a # m /\ o # m
    BY <1>1, <1>3, <1>13, <2>3 DEF Serial
  <2> QED BY <2>1, <2>2, <2>3
<1>14. Serial(tn)
  BY <1>12, <1>13 DEF Serial
<1> QED BY <1>6, <1>14 DEF n, tn

\* Something is said in a session.
LEMMA Appends ==
    ASSUME TurnsInv, NEW s \in T!Sids, NEW es \in Seq(Entries), T!AppendEntries(s, es)
    PROVE  /\ transcript' \in [T!Sids -> Seq(Entries)]
           /\ \A z \in T!Sids \ {s} : transcript'[z] = transcript[z]
           /\ Len(transcript'[s]) = Len(transcript[s]) + Len(es)
           /\ \A i \in 1..Len(transcript[s]) : transcript'[s][i] = transcript[s][i]
           /\ \A i \in 1..Len(es) : transcript'[s][Len(transcript[s]) + i] = es[i]
<1> DEFINE t == transcript[s]
<1>1. transcript \in [T!Sids -> Seq(Entries)] /\ t \in Seq(Entries)
  BY TurnsFacts
<1>2. transcript' = [transcript EXCEPT ![s] = t \o es]
  BY Zenon DEF T!AppendEntries
<1> HIDE DEF t
<1>3. t \o es \in Seq(Entries)
  BY <1>1
<1>4. /\ Len(t \o es) = Len(t) + Len(es)
      /\ \A i \in 1..Len(t) : (t \o es)[i] = t[i]
      /\ \A i \in 1..Len(es) : (t \o es)[Len(t) + i] = es[i]
  BY <1>1
<1>5. /\ transcript' \in [T!Sids -> Seq(Entries)] /\ transcript'[s] = t \o es
      /\ \A z \in T!Sids \ {s} : transcript'[z] = transcript[z]
  BY <1>1, <1>2, <1>3
<1> QED BY <1>4, <1>5 DEF t

\* Nothing is said of a message that is not in what is said.
LEMMA Unmentioned ==
    ASSUME TurnsInv, NEW s \in T!Sids, NEW es \in Seq(Entries), T!AppendEntries(s, es),
           NEW o \in Sent, \A i \in 1..Len(es) : es[i][2] # o,
           turn'[o].state = "completed" => turn[o].state = "completed",
           turn[o].state = "completed" => turn'[o] = turn[o], runs \subseteq runs'
    PROVE  Tells(o, turn'[o], transcript', runs')
<1> DEFINE t == transcript[s]
           v == transcript'[s]
<1>1. /\ Len(t) \in Nat /\ Len(es) \in Nat /\ DOMAIN t = 1..Len(t)
      /\ DOMAIN v = 1..(Len(t) + Len(es)) /\ Len(v) = Len(t) + Len(es)
      /\ \A i \in 1..Len(t) : v[i] = t[i]
      /\ \A i \in 1..Len(es) : v[Len(t) + i] = es[i]
      /\ \A z \in T!Sids \ {s} : transcript'[z] = transcript[z]
  <2>1. t \in Seq(Entries) /\ v \in Seq(Entries)
    BY Appends, TurnsFacts
  <2>2. Len(v) = Len(t) + Len(es)
    BY Appends
  <2>3. DOMAIN t = 1..Len(t) /\ DOMAIN v = 1..Len(v) /\ Len(t) \in Nat /\ Len(es) \in Nat
    BY <2>1
  <2> QED BY <2>2, <2>3, Appends
<1>2. ASSUME NEW i \in (Len(t) + 1)..(Len(t) + Len(es)) PROVE v[i][2] # o
  <2>1. i - Len(t) \in 1..Len(es) /\ i = Len(t) + (i - Len(t))
    BY <1>1
  <2>2. v[Len(t) + (i - Len(t))] = es[i - Len(t)]
    BY <1>1, <2>1
  <2> QED BY <2>1, <2>2
<1>3. SaidIn(transcript', s, o) = SaidIn(transcript, s, o)
  <2>1. \A i : i \in DOMAIN v /\ v[i][2] = o <=> i \in DOMAIN t /\ t[i][2] = o
    <3>1. ASSUME NEW i \in DOMAIN v PROVE i \in DOMAIN t \/ i \in (Len(t) + 1)..(Len(t) + Len(es))
      BY <1>1
    <3>2. DOMAIN t \subseteq DOMAIN v
      BY <1>1
    <3>3. \A i \in DOMAIN t : v[i] = t[i]
      BY <1>1
    <3> HIDE DEF t, v
    <3> QED BY <1>2, <3>1, <3>2, <3>3
  <2> QED BY <2>1 DEF SaidIn
<1>4. \A z \in T!Sids : SaidIn(transcript', z, o) = SaidIn(transcript, z, o)
  <2>1. \A z \in T!Sids \ {s} : SaidIn(transcript', z, o) = SaidIn(transcript, z, o)
    BY <1>1 DEF SaidIn
  <2> QED BY <1>3, <2>1
<1>5. Tells(o, turn[o], transcript, runs)
  BY TurnsFacts
<1>6. CASE turn'[o].state = "completed"
  <2>1. turn'[o] = turn[o] /\ turn[o].state = "completed" /\ turn[o].sid \in T!Sids
    BY <1>6, TurnsFacts DEF CallHolds
  <2>2. PICK i \in DOMAIN transcript[turn[o].sid] :
              /\ SaidIn(transcript, turn[o].sid, o) = {i, i + 1}
              /\ transcript[turn[o].sid][i] = <<"user", o>>
              /\ transcript[turn[o].sid][i + 1] = <<"assistant", o>>
    BY <1>5, <2>1 DEF Tells
  <2>3. i + 1 \in DOMAIN transcript[turn[o].sid]
    BY <2>2 DEF SaidIn
  <2>4. \A z \in T!Sids : \A j \in DOMAIN transcript[z] :
           j \in DOMAIN transcript'[z] /\ transcript'[z][j] = transcript[z][j]
    <3>1. DOMAIN t \subseteq DOMAIN v /\ \A j \in DOMAIN t : v[j] = t[j]
      BY <1>1
    <3> QED BY <1>1, <3>1
  <2>5. /\ SaidIn(transcript', turn[o].sid, o) = {i, i + 1} /\ i \in DOMAIN transcript'[turn[o].sid]
        /\ transcript'[turn[o].sid][i] = <<"user", o>>
        /\ transcript'[turn[o].sid][i + 1] = <<"assistant", o>>
    BY <1>4, <2>1, <2>2, <2>3, <2>4
  <2>6. o \in runs' /\ \A z \in T!Sids \ {turn[o].sid} : SaidIn(transcript', z, o) = {}
    BY <1>4, <1>5, <2>1 DEF Tells
  <2>7. Tells(o, turn[o], transcript', runs')
    BY <2>1, <2>5, <2>6 DEF Tells
  <2> QED BY Zenon, <2>1, <2>7
<1>7. CASE turn'[o].state # "completed"
  <2>1. turn[o].state # "completed"
    BY <1>7
  <2> QED BY <1>4, <1>5, <1>7, <2>1 DEF Tells
<1> QED BY <1>6, <1>7

LEMMA TurnsReserve ==
    ASSUME TurnsInv, NEW m \in Sent, T!Reserve(m)
    PROVE  TurnsInv' /\ Settles
<1> DEFINE s == send[m].sid
           n == Cardinality(Reserved(turn, s))
           b == transcript[s]
<1>1. /\ send[m].pc = "loaded" /\ revision[s] = send[m].expected
      /\ UNCHANGED <<transcript, runs, returning, post>>
      /\ CallHolds(m, send[m], turn[m], revision, transcript, turn, runs)
      /\ send \in [Sent -> Working] /\ revision \in [T!Sids -> Nat]
      /\ transcript \in [T!Sids -> Seq(Entries)]
      /\ activity \in [T!Sids -> {"idle", "listening", "reasoning"}]
      /\ turn \in [Sent -> [state : {"none", "pending", "completed", "failed"},
                            sid : T!Sids \cup {Nothing}, pos : Nat, from : Nat]]
  BY TurnsFacts DEF T!Reserve, T!ReserveTurn, T!AdvanceSession
<1>2. /\ s \in T!Sids /\ turn[m] = T!NoTurn /\ GoesOnWith(send[m].history, b, send[m].pending)
  BY <1>1 DEF CallHolds
<1>3. /\ revision' = [revision EXCEPT ![s] = @ + 1]
      /\ activity' = [activity EXCEPT ![s] = "reasoning"]
      /\ send' = [send EXCEPT ![m].pc = "asked", ![m].base = b]
  BY DEF T!Reserve, T!ReserveTurn, T!AdvanceSession
<1>4. turn' = [turn EXCEPT ![m] = [state |-> "pending", sid |-> s, pos |-> n, from |-> revision[s]]]
  <2>1. T!NextPosition(s) = n
    BY CardinalityIs DEF Reserved, T!NextPosition
  <2>2. turn' = [turn EXCEPT ![m] = [state |-> "pending", sid |-> s, pos |-> T!NextPosition(s),
                                     from |-> send[m].expected]]
    BY Zenon DEF T!Reserve, T!ReserveTurn
  <2> QED BY Zenon, <1>1, <2>1, <2>2
<1>5. Serial(turn') /\ n \in Nat
  BY <1>2, <1>4, SerialReserved
<1>6. /\ send' \in [Sent -> Working] /\ \A o \in Sent \ {m} : send'[o] = send[o]
      /\ send'[m].pc = "asked" /\ send'[m].sid = s /\ send'[m].base = b
      /\ send'[m].pending = send[m].pending /\ send'[m].history = send[m].history
  <2> DEFINE f == [send EXCEPT ![m].pc = "asked"]
  <2>1. "asked" \in Points /\ send \in [Sent -> Working]
    BY TurnsFacts DEF Points
  <2>2. /\ f \in [Sent -> Working] /\ f[m].pc = "asked"
        /\ \A o \in Sent \ {m} : f[o] = send[o]
    BY <2>1, PcSet
  <2>3. f[m].sid = s /\ f[m].history = send[m].history /\ f[m].pending = send[m].pending
    BY <2>1, PcSet
  <2>4. send' = [f EXCEPT ![m].base = b] /\ b \in Seq(Entries)
    BY <1>1, <1>2, <1>3
  <2> HIDE DEF f, b
  <2>5. /\ send' \in [Sent -> Working] /\ \A o \in Sent \ {m} : send'[o] = f[o]
        /\ send'[m].base = b /\ send'[m].pc = f[m].pc /\ send'[m].sid = f[m].sid
        /\ send'[m].history = f[m].history /\ send'[m].pending = f[m].pending
    BY <2>2, <2>4, BaseSet
  <2> QED BY <2>2, <2>3, <2>5
<1> HIDE DEF s, n, b
<1>7. /\ activity' \in [T!Sids -> {"idle", "listening", "reasoning"}]
      /\ \A z \in T!Sids \ {s} : activity'[z] = activity[z]
      /\ revision' \in [T!Sids -> Nat] /\ revision'[s] = revision[s] + 1
      /\ \A z \in T!Sids \ {s} : revision'[z] = revision[z]
  BY <1>1, <1>2, <1>3
<1>8. /\ turn' \in [Sent -> [state : {"none", "pending", "completed", "failed"},
                             sid : T!Sids \cup {Nothing}, pos : Nat, from : Nat]]
      /\ \A o \in Sent \ {m} : turn'[o] = turn[o]
      /\ turn'[m].state = "pending" /\ turn'[m].sid = s /\ turn'[m].from = revision[s]
  BY <1>1, <1>2, <1>4, <1>5
<1>9. CallHolds(m, send'[m], turn'[m], revision', transcript', turn', runs')
  <2>1. revision[s] < revision'[s]
    BY <1>1, <1>2, <1>7
  <2> QED BY <1>2, <1>6, <1>8, <2>1 DEF CallHolds
<1>10. Quiet(activity', send')
  BY <1>1, <1>2, <1>6, <1>7, QuietStep DEF s
<1>11. ASSUME NEW z \in T!Sids
       PROVE  Moves(z, revision, transcript, turn, revision', transcript', turn')
  <2>1. CASE z = s
    <3>1. revision[s] \in Nat /\ Len(transcript[s]) \in Nat
      BY <1>1, <1>2
    <3> QED BY <1>1, <1>7, <2>1, <3>1 DEF Moves, Extends
  <2>2. CASE z # s
    <3>1. revision'[z] = revision[z] /\ transcript'[z] = transcript[z]
      BY <1>1, <1>7, <2>2
    <3>2. Pending(turn', z) \subseteq Pending(turn, z)
      BY <1>8, <2>2 DEF Pending
    <3> QED BY <1>1, <3>1, <3>2, StayMoves
  <2> QED BY <2>1, <2>2
<1>12. ASSUME NEW o \in Sent PROVE Tells(o, turn'[o], transcript', runs')
  <2>1. Tells(o, turn[o], transcript, runs)
    BY TurnsFacts
  <2>2. CASE o = m
    <3>1. \A z \in T!Sids : SaidIn(transcript, z, m) = {}
      BY <1>2, <2>1, <2>2 DEF Tells, T!NoTurn
    <3>2. Tells(m, turn'[m], transcript, runs')
      BY <1>8, <3>1 DEF Tells
    <3> QED BY Zenon, <1>1, <2>2, <3>2
  <2>3. CASE o # m
    <3>1. turn'[o] = turn[o]
      BY <1>8, <2>3
    <3> QED BY Zenon, <1>1, <2>1, <3>1
  <2> QED BY <2>2, <2>3
<1>13. \A o \in {m} : turn[o].state \in {"completed", "failed"} => turn'[o] = turn[o]
  BY <1>2 DEF T!NoTurn
<1>14. /\ transcript' \in [T!Sids -> Seq(Entries)] /\ runs \subseteq runs' /\ runs' \subseteq Sent
       /\ returning' \in BOOLEAN /\ post' \in [Posts -> Posting]
       /\ \A p \in Posts : PostHolds(post'[p], revision') \/ post'[p] = post[p]
  BY <1>1, TurnsFacts
<1>15. /\ {m} \in SUBSET Sent
       /\ \A o \in Sent \ {m} : send'[o] = send[o] /\ turn'[o] = turn[o]
       /\ \A o \in {m} : CallHolds(o, send'[o], turn'[o], revision', transcript', turn', runs')
  BY <1>6, <1>8, <1>9
<1> QED BY <1>5, <1>6, <1>7, <1>8, <1>10, <1>11, <1>12, <1>13, <1>14, <1>15, TurnsStep

\* The turn of a call completes: its exchange is said, and nobody else's.
LEMMA TurnsComplete ==
    ASSUME TurnsInv, NEW m \in Sent, T!Complete(m)
    PROVE  TurnsInv' /\ Settles
<1> DEFINE s == send[m].sid
           es == <<T!User(m), T!Assistant(m)>>
           t == transcript[s]
           v == transcript'[s]
<1>1. /\ send[m].pc = "answered" /\ turn[m].state = "pending" /\ turn[m].sid = s /\ s \in T!Sids
      /\ m \in runs /\ T!AppendEntries(s, es)
      /\ turn' = [turn EXCEPT ![m].state = "completed"]
      /\ send' = [send EXCEPT ![m].pc = "stored"]
      /\ returning' = TRUE /\ UNCHANGED <<revision, activity, runs, post>>
  BY TurnsFacts DEF T!Complete, T!CompleteTurn, T!Exchange, CallHolds
<1>2. /\ es \in Seq(Entries) /\ Len(es) = 2 /\ es[1] = <<"user", m>> /\ es[2] = <<"assistant", m>>
      /\ \A i \in 1..Len(es) : es[i][2] = m
  <2>1. T!User(m) \in Entries /\ T!Assistant(m) \in Entries
    BY DEF T!User, T!Assistant, Entries
  <2>2. es \in Seq(Entries) /\ Len(es) = 2 /\ es[1] = T!User(m) /\ es[2] = T!Assistant(m)
    BY <2>1
  <2> HIDE DEF es
  <2> QED BY <2>2 DEF T!User, T!Assistant
<1> HIDE DEF es
<1>3. /\ transcript' \in [T!Sids -> Seq(Entries)]
      /\ \A z \in T!Sids \ {s} : transcript'[z] = transcript[z]
      /\ Len(v) = Len(t) + 2 /\ Len(t) \in Nat
      /\ DOMAIN t = 1..Len(t) /\ DOMAIN v = 1..(Len(t) + 2)
      /\ \A i \in 1..Len(t) : v[i] = t[i]
      /\ v[Len(t) + 1] = <<"user", m>> /\ v[Len(t) + 2] = <<"assistant", m>>
  <2>0. s \in T!Sids /\ es \in Seq(Entries) /\ T!AppendEntries(s, es) /\ Len(es) = 2
    BY <1>1, <1>2
  <2>1. /\ transcript' \in [T!Sids -> Seq(Entries)]
        /\ \A z \in T!Sids \ {s} : transcript'[z] = transcript[z]
        /\ Len(v) = Len(t) + 2 /\ \A i \in 1..Len(t) : v[i] = t[i]
        /\ \A i \in 1..2 : v[Len(t) + i] = es[i]
    <3>1. /\ transcript' \in [T!Sids -> Seq(Entries)]
          /\ \A z \in T!Sids \ {s} : transcript'[z] = transcript[z]
          /\ Len(v) = Len(t) + Len(es) /\ \A i \in 1..Len(t) : v[i] = t[i]
          /\ \A i \in 1..Len(es) : v[Len(t) + i] = es[i]
      BY <2>0, Appends
    <3> QED BY Zenon, <2>0, <3>1
  <2>2. t \in Seq(Entries) /\ v \in Seq(Entries)
    BY <1>1, <2>1, TurnsFacts
  <2>3. Len(t) \in Nat /\ DOMAIN t = 1..Len(t) /\ DOMAIN v = 1..Len(v)
    BY <2>2
  <2>4. v[Len(t) + 1] = es[1] /\ v[Len(t) + 2] = es[2]
    BY <2>1
  <2> QED BY <1>2, <2>1, <2>3, <2>4
<1>4. /\ send' \in [Sent -> Working] /\ \A o \in Sent \ {m} : send'[o] = send[o]
      /\ send'[m].pc = "stored" /\ send'[m].sid = s
  <2>1. "stored" \in Points /\ send \in [Sent -> Working]
    BY TurnsFacts DEF Points
  <2> QED BY <1>1, <2>1, PcSet
<1>5. /\ turn' \in [Sent -> [state : {"none", "pending", "completed", "failed"},
                             sid : T!Sids \cup {Nothing}, pos : Nat, from : Nat]]
      /\ \A o \in Sent \ {m} : turn'[o] = turn[o]
      /\ turn'[m].state = "completed" /\ turn'[m].sid = s
      /\ turn'[m].pos = turn[m].pos /\ turn'[m].from = turn[m].from
  <2>1. turn \in [Sent -> [state : {"none", "pending", "completed", "failed"},
                           sid : T!Sids \cup {Nothing}, pos : Nat, from : Nat]]
    BY TurnsFacts
  <2> QED BY <1>1, <2>1
<1>6. CallHolds(m, send'[m], turn'[m], revision', transcript', turn', runs')
  <2>1. turn[m].from < revision[s]
    BY <1>1, TurnsFacts DEF CallHolds
  <2>2. CallHolds(m, send'[m], turn'[m], revision, transcript', turn', runs')
    BY <1>1, <1>4, <1>5, <2>1 DEF CallHolds
  <2> QED BY Zenon, <1>1, <2>2
<1>7. ASSUME NEW z \in T!Sids
      PROVE  Moves(z, revision, transcript, turn, revision', transcript', turn')
  <2>1. revision' = revision /\ revision[z] \in Nat
    BY <1>1, TurnsFacts
  <2>2. Pending(turn', z) \subseteq Pending(turn, z)
    BY <1>5 DEF Pending
  <2>3. CASE z = s
    <3>1. m \in Pending(turn, s)
      BY <1>1 DEF Pending
    <3>2. Extends(t, v)
      BY SMTT(30), <1>3 DEF Extends
    <3>3. ASSUME NEW i \in (Len(t) + 1)..Len(v) PROVE v[i][2] = m
      <4>1. i = Len(t) + 1 \/ i = Len(t) + 2
        BY SMTT(30), <1>3
      <4> QED BY SMTT(30), <1>3, <4>1
    <3> QED BY <2>1, <2>2, <2>3, <3>1, <3>2, <3>3 DEF Moves
  <2>4. CASE z # s
    <3>1. revision'[z] = revision[z] /\ transcript'[z] = transcript[z]
      BY <1>3, <2>1, <2>4
    <3> QED BY <2>2, <3>1, StayMoves, TurnsFacts
  <2> QED BY <2>3, <2>4
<1>8. ASSUME NEW o \in Sent PROVE Tells(o, turn'[o], transcript', runs')
  <2>1. CASE o # m
    <3>1. turn'[o] = turn[o] /\ runs \subseteq runs' /\ \A i \in 1..Len(es) : es[i][2] # o
      BY <1>1, <1>2, <1>5, <2>1
    <3> QED BY <1>1, <1>2, <3>1, Unmentioned
  <2>2. CASE o = m
    <3>1. \A z \in T!Sids : SaidIn(transcript, z, m) = {}
      <4>1. Tells(m, turn[m], transcript, runs)
        BY TurnsFacts
      <4> QED BY <1>1, <4>1 DEF Tells
    <3>2. SaidIn(transcript', s, m) = {Len(t) + 1, Len(t) + 2}
      <4>1. \A i \in DOMAIN t : t[i][2] # m
        BY <1>1, <3>1 DEF SaidIn
      <4>2. ASSUME NEW i \in DOMAIN v PROVE i \in DOMAIN t \/ i = Len(t) + 1 \/ i = Len(t) + 2
        BY SMTT(30), <1>3
      <4>3. Len(t) + 1 \in DOMAIN v /\ Len(t) + 2 \in DOMAIN v
        BY SMTT(30), <1>3
      <4>4. ASSUME NEW i \in DOMAIN t PROVE v[i][2] # m /\ i # Len(t) + 1 /\ i # Len(t) + 2
        <5>1. i \in 1..Len(t) /\ Len(t) \in Nat
          BY <1>3
        <5>2. v[i] = t[i] /\ t[i][2] # m
          BY <1>3, <4>1, <5>1
        <5> QED BY <5>1, <5>2
      <4>5. v[Len(t) + 1][2] = m /\ v[Len(t) + 2][2] = m
        BY SMTT(30), <1>3
      <4> HIDE DEF t, v
      <4>6. \A i \in DOMAIN v : v[i][2] = m <=> i = Len(t) + 1 \/ i = Len(t) + 2
        BY <4>2, <4>4, <4>5
      <4>7. {i \in DOMAIN v : v[i][2] = m} = {Len(t) + 1, Len(t) + 2}
        BY <4>3, <4>6
      <4> QED BY Zenon, <4>7 DEF SaidIn, v
    <3>3. \A z \in T!Sids \ {s} : SaidIn(transcript', z, m) = {}
      BY SMTT(30), <1>3, <3>1 DEF SaidIn
    <3>4. Len(t) + 1 \in DOMAIN v /\ (Len(t) + 1) + 1 = Len(t) + 2
      BY SMTT(30), <1>3
    <3> DEFINE n == Len(t) + 1
    <3>5. /\ n \in DOMAIN transcript'[s] /\ SaidIn(transcript', s, m) = {n, n + 1}
          /\ transcript'[s][n] = <<"user", m>> /\ transcript'[s][n + 1] = <<"assistant", m>>
      BY <1>3, <3>2, <3>4
    <3> HIDE DEF n, s
    <3>6. Tells(m, turn'[m], transcript', runs)
      BY <1>1, <1>5, <3>3, <3>5 DEF Tells
    <3> QED BY Zenon, <1>1, <2>2, <3>6
  <2> QED BY <2>1, <2>2
<1>9. Serial(turn')
  <2>1. \A o \in Sent : turn'[o].sid = turn[o].sid /\ turn'[o].pos = turn[o].pos
                        /\ turn'[o].from = turn[o].from
                        /\ (turn'[o].state # "none") = (turn[o].state # "none")
    BY <1>1, <1>5
  <2>2. \A z : Reserved(turn', z) = Reserved(turn, z)
    BY <2>1 DEF Reserved
  <2>3. \A z : Cardinality(Reserved(turn', z)) = Cardinality(Reserved(turn, z))
    BY Zenon, <2>2
  <2> QED BY <2>1, <2>3, TurnsFacts DEF Serial
<1> HIDE DEF s, t, v
<1>10. Quiet(activity', send')
  BY <1>1, <1>4, QuietStep DEF s
<1>11. \A o \in {m} : turn[o].state \in {"completed", "failed"} => turn'[o] = turn[o]
  BY <1>1
<1>12. /\ revision' \in [T!Sids -> Nat] /\ runs \subseteq runs' /\ runs' \subseteq Sent
       /\ activity' \in [T!Sids -> {"idle", "listening", "reasoning"}]
       /\ returning' \in BOOLEAN /\ post' \in [Posts -> Posting]
       /\ \A p \in Posts : PostHolds(post'[p], revision') \/ post'[p] = post[p]
  BY <1>1, TurnsFacts
<1>13. /\ {m} \in SUBSET Sent
       /\ \A o \in Sent \ {m} : send'[o] = send[o] /\ turn'[o] = turn[o]
       /\ \A o \in {m} : CallHolds(o, send'[o], turn'[o], revision', transcript', turn', runs')
  BY <1>4, <1>5, <1>6
<1> QED BY <1>3, <1>4, <1>5, <1>7, <1>8, <1>9, <1>10, <1>11, <1>12, <1>13, TurnsStep

\* A post reads the revision, or gives up.
LEMMA PostWaits ==
    ASSUME TurnsInv, NEW p \in Posts,
           T!PostConflict(p) \/ \E s \in T!Sids : T!ReadForPost(p, s)
    PROVE  TurnsInv' /\ Settles
<1>1. UNCHANGED <<revision, transcript, turn, activity, runs, returning, send>>
  BY DEF T!PostConflict, T!ReadForPost, T!store
<1>2. /\ post \in [Posts -> Posting] /\ revision \in [T!Sids -> Nat]
      /\ \A q \in Posts : PostHolds(post[q], revision)
  BY TurnsFacts
<1>3. /\ post' \in [Posts -> Posting]
      /\ \A q \in Posts : PostHolds(post'[q], revision) \/ post'[q] = post[q]
  <2>1. CASE T!PostConflict(p)
    <3>1. post[p].pc = "read" /\ post' = [post EXCEPT ![p].pc = "refused"]
      BY <2>1 DEF T!PostConflict
    <3>2. /\ post' \in [Posts -> Posting] /\ post'[p].pc = "refused" /\ post'[p].sid = post[p].sid
          /\ \A q \in Posts \ {p} : post'[q] = post[q]
      BY <1>2, <3>1 DEF Posting
    <3>3. PostHolds(post'[p], revision)
      BY <1>2, <3>1, <3>2 DEF PostHolds
    <3> QED BY <3>2, <3>3
  <2>2. ASSUME NEW s \in T!Sids, T!ReadForPost(p, s)
        PROVE  /\ post' \in [Posts -> Posting]
               /\ \A q \in Posts : PostHolds(post'[q], revision) \/ post'[q] = post[q]
    <3>1. post' = [post EXCEPT ![p] = [pc |-> "read", sid |-> s, expected |-> revision[s]]]
      BY <2>2 DEF T!ReadForPost
    <3>2. [pc |-> "read", sid |-> s, expected |-> revision[s]] \in Posting
      BY <1>2 DEF Posting
    <3>3. post'[p] = [pc |-> "read", sid |-> s, expected |-> revision[s]]
      BY <1>2, <3>1
    <3>4. PostHolds(post'[p], revision)
      <4>1. revision[s] \in Nat
        BY <1>2
      <4> QED BY <3>3, <4>1 DEF PostHolds
    <3> QED BY <1>2, <3>1, <3>2, <3>4
  <2> QED BY <2>1, <2>2
<1>4. Quiet(activity', send')
  BY <1>1, TurnsFacts DEF Quiet
<1>5. /\ {} \in SUBSET Sent /\ \A o \in Sent \ {} : send'[o] = send[o] /\ turn'[o] = turn[o]
      /\ \A o \in {} : CallHolds(o, send'[o], turn'[o], revision, transcript, turn', runs')
      /\ \A o \in Sent : /\ turn'[o].sid = turn[o].sid /\ turn'[o].pos = turn[o].pos
                         /\ turn'[o].from = turn[o].from
                         /\ \/ turn'[o].state = turn[o].state
                            \/ turn[o].state = "pending" /\ turn'[o].state = "failed"
  BY <1>1
<1> QED BY <1>1, <1>3, <1>4, <1>5, TurnsFacts, SilentStep

\* A post appends what it has to say.
LEMMA PostAppends ==
    ASSUME TurnsInv, NEW p \in Posts, T!RecordExchange(p) \/ T!DeliverRoutine(p)
    PROVE  TurnsInv' /\ Settles
<1> DEFINE s == post[p].sid
<1>1. PICK es \in {<<T!User(p), T!Assistant(p)>>, <<T!Assistant(p)>>}, x \in BOOLEAN :
           T!AppendMessages(p, es, x)
  BY DEF T!RecordExchange, T!DeliverRoutine, T!Exchange
<1>2. /\ post[p].pc = "read" /\ revision' = [revision EXCEPT ![s] = @ + 1]
      /\ T!AppendEntries(s, es) /\ returning' = (returning \/ x)
      /\ post' = [post EXCEPT ![p].pc = "done"]
      /\ UNCHANGED <<turn, activity, runs, send>>
  BY <1>1 DEF T!AppendMessages, T!AdvanceSession
<1>3. /\ post \in [Posts -> Posting] /\ revision \in [T!Sids -> Nat] /\ s \in T!Sids
      /\ PostHolds(post[p], revision) /\ transcript \in [T!Sids -> Seq(Entries)]
  BY <1>2, TurnsFacts DEF PostHolds
<1>4. es \in Seq(Entries) /\ \A i \in 1..Len(es) : es[i][2] = p
  <2>1. T!User(p) \in Entries /\ T!Assistant(p) \in Entries
    BY DEF T!User, T!Assistant, Entries
  <2>2. CASE es = <<T!User(p), T!Assistant(p)>>
    <3>1. es \in Seq(Entries) /\ Len(es) = 2 /\ es[1] = T!User(p) /\ es[2] = T!Assistant(p)
      BY <2>1, <2>2
    <3> QED BY <3>1 DEF T!User, T!Assistant
  <2>3. CASE es = <<T!Assistant(p)>>
    <3>1. es \in Seq(Entries) /\ Len(es) = 1 /\ es[1] = T!Assistant(p)
      BY <2>1, <2>3
    <3> QED BY <3>1 DEF T!User, T!Assistant
  <2> QED BY <2>2, <2>3
<1>5. p \notin Sent
  BY TurnsAssumption
<1>6. /\ post' \in [Posts -> Posting] /\ post'[p].pc = "done" /\ post'[p].sid = s
      /\ \A q \in Posts \ {p} : post'[q] = post[q]
  BY <1>2, <1>3 DEF Posting
<1>7. \A q \in Posts : PostHolds(post'[q], revision') \/ post'[q] = post[q]
  <2>1. PostHolds(post'[p], revision')
    BY <1>3, <1>6 DEF PostHolds
  <2> QED BY <1>6, <2>1
<1>8. /\ revision' \in [T!Sids -> Nat] /\ revision'[s] = revision[s] + 1 /\ revision[s] \in Nat
      /\ \A z \in T!Sids \ {s} : revision'[z] = revision[z]
  BY <1>2, <1>3
<1>9. /\ transcript' \in [T!Sids -> Seq(Entries)]
      /\ \A z \in T!Sids \ {s} : transcript'[z] = transcript[z]
      /\ Len(transcript'[s]) = Len(transcript[s]) + Len(es)
      /\ \A i \in 1..Len(transcript[s]) : transcript'[s][i] = transcript[s][i]
  <2>1. s \in T!Sids /\ es \in Seq(Entries) /\ T!AppendEntries(s, es)
    BY <1>2, <1>3, <1>4
  <2> QED BY <2>1, Appends
<1>10. ASSUME NEW z \in T!Sids
       PROVE  Moves(z, revision, transcript, turn, revision', transcript', turn')
  <2>1. CASE z = s
    <3>1. Len(transcript[s]) \in Nat /\ Len(es) \in Nat
      BY <1>3, <1>4
    <3> QED BY <1>8, <1>9, <2>1, <3>1 DEF Moves, Extends
  <2>2. CASE z # s
    <3>1. /\ revision'[z] = revision[z] /\ transcript'[z] = transcript[z]
          /\ Pending(turn', z) \subseteq Pending(turn, z)
      BY <1>2, <1>8, <1>9, <2>2
    <3> QED BY <1>3, <3>1, StayMoves
  <2> QED BY <2>1, <2>2
<1> HIDE DEF s
<1>11. ASSUME NEW o \in Sent PROVE Tells(o, turn'[o], transcript', runs')
  <2>1. turn'[o] = turn[o] /\ runs \subseteq runs' /\ \A i \in 1..Len(es) : es[i][2] # o
    BY <1>2, <1>4, <1>5
  <2>2. s \in T!Sids /\ es \in Seq(Entries) /\ T!AppendEntries(s, es)
    BY <1>2, <1>3, <1>4
  <2> QED BY <2>1, <2>2, Unmentioned
<1>12. Serial(turn') /\ Quiet(activity', send')
  BY <1>2, TurnsFacts DEF Quiet
<1>13. /\ {} \in SUBSET Sent /\ \A o \in Sent \ {} : send'[o] = send[o] /\ turn'[o] = turn[o]
       /\ \A o \in {} : CallHolds(o, send'[o], turn'[o], revision', transcript', turn', runs')
       /\ \A o \in {} : turn[o].state \in {"completed", "failed"} => turn'[o] = turn[o]
  BY <1>2
<1>14. /\ turn' \in [Sent -> [state : {"none", "pending", "completed", "failed"},
                              sid : T!Sids \cup {Nothing}, pos : Nat, from : Nat]]
       /\ activity' \in [T!Sids -> {"idle", "listening", "reasoning"}]
       /\ runs \subseteq runs' /\ runs' \subseteq Sent
       /\ returning' \in BOOLEAN /\ send' \in [Sent -> Working]
  BY <1>2, TurnsFacts
<1> QED BY <1>6, <1>7, <1>8, <1>9, <1>10, <1>11, <1>12, <1>13, <1>14, TurnsStep

LEMMA TurnsNext == TurnsInv /\ [T!Next]_turnsVars => TurnsInv' /\ Settles
<1> SUFFICES ASSUME TurnsInv, [T!Next]_turnsVars PROVE TurnsInv' /\ Settles
  OBVIOUS
<1>1. ASSUME NEW m \in Sent, T!Step(m) PROVE TurnsInv' /\ Settles
  BY <1>1, TurnsLoad, TurnsReserve, TurnsAnswer, TurnsComplete, TurnsEnd DEF T!Step
<1>2. ASSUME NEW m \in Sent, T!Die(m) \/ \E s \in T!Sids : T!ReadRevision(m, s)
      PROVE  TurnsInv' /\ Settles
  BY <1>2, TurnsDie, TurnsRead
<1>3. ASSUME NEW p \in Posts, \/ T!RecordExchange(p) \/ T!DeliverRoutine(p) \/ T!PostConflict(p)
                              \/ \E s \in T!Sids : T!ReadForPost(p, s)
      PROVE  TurnsInv' /\ Settles
  BY <1>3, PostWaits, PostAppends
<1>4. CASE UNCHANGED turnsVars
  <2>1. UNCHANGED <<revision, transcript, turn, activity, runs, returning, send, post>>
    BY <1>4 DEF turnsVars
  <2>2. Quiet(activity', send')
    BY <2>1, TurnsFacts DEF Quiet
  <2>3. /\ {} \in SUBSET Sent /\ \A o \in Sent \ {} : send'[o] = send[o] /\ turn'[o] = turn[o]
        /\ \A o \in {} : CallHolds(o, send'[o], turn'[o], revision, transcript, turn', runs')
        /\ \A o \in Sent : /\ turn'[o].sid = turn[o].sid /\ turn'[o].pos = turn[o].pos
                           /\ turn'[o].from = turn[o].from
                           /\ \/ turn'[o].state = turn[o].state
                              \/ turn[o].state = "pending" /\ turn'[o].state = "failed"
    BY <2>1
  <2> QED BY <2>1, <2>2, <2>3, TurnsFacts, SilentStep
<1> QED BY <1>1, <1>2, <1>3, <1>4 DEF T!Next

\* What the model was given lacks only turns that were open.
LEMMA TurnsMissing == TurnsInv => T!OnlyOpenTurnsAreMissing
<1> SUFFICES ASSUME TurnsInv, NEW m \in Sent, send[m].pc \in {"asked", "answered"}
             PROVE  /\ send[m].history = SubSeq(send[m].base, 1, Len(send[m].history))
                    /\ \A i \in (Len(send[m].history) + 1)..Len(send[m].base) :
                         send[m].base[i][2] \in send[m].pending
  BY DEF T!OnlyOpenTurnsAreMissing
<1>1. /\ GoesOnWith(send[m].history, send[m].base, send[m].pending)
      /\ send[m] \in Working
  BY TurnsFacts DEF CallHolds
<1>2. send[m].history \in Seq(Entries) /\ send[m].base \in Seq(Entries)
  BY <1>1 DEF Working, Points
<1> QED BY <1>1, <1>2, BeginningIs DEF GoesOnWith

-----------------------------------------------------------------------------
(* The whole.                                                              *)

\* The behaviours of the whole are behaviours of every component.
LEMMA ContextAlone == Init => C!Init
BY DEF Init

LEMMA GrantsAlone == Init => G!Init
BY DEF Init

LEMMA SelectionAlone == Init => S!Init
BY DEF Init

LEMMA SelectionSteps == [Next]_vars => [S!Next]_sessionsVars
<1> SUFFICES ASSUME [Next]_vars PROVE [S!Next]_sessionsVars
  OBVIOUS
<1>1. CASE UNCHANGED vars
  BY <1>1 DEF vars
<1> QED BY <1>1 DEF Next, Only

LEMMA RunAlone == Init => R!Init
BY DEF Init

LEMMA RunSteps == [Next]_vars => [R!Next]_runsVars
<1> SUFFICES ASSUME [Next]_vars PROVE [R!Next]_runsVars
  OBVIOUS
<1>1. CASE UNCHANGED vars
  BY <1>1 DEF vars
<1> QED BY <1>1 DEF Next, Only

LEMMA DialogueAlone == Init => D!Init
BY DEF Init

LEMMA DialogueSteps == [Next]_vars => [D!Next]_dialogueVars
<1> SUFFICES ASSUME [Next]_vars PROVE [D!Next]_dialogueVars
  OBVIOUS
<1>1. CASE UNCHANGED vars
  BY <1>1 DEF vars
<1> QED BY <1>1 DEF Next, Only

LEMMA TurnsAlone == Init => T!Init
BY DEF Init

LEMMA TurnsSteps == [Next]_vars => [T!Next]_turnsVars
<1> SUFFICES ASSUME [Next]_vars PROVE [T!Next]_turnsVars
  OBVIOUS
<1>1. CASE UNCHANGED vars
  BY <1>1 DEF vars
<1> QED BY <1>1 DEF Next, Only

LEMMA PairingAlone == Init => P!Init
BY DEF Init

LEMMA PairingSteps == [Next]_vars => [P!Next]_pairingVars
<1> SUFFICES ASSUME [Next]_vars PROVE [P!Next]_pairingVars
  OBVIOUS
<1>1. CASE UNCHANGED vars
  BY <1>1 DEF vars
<1> QED BY <1>1 DEF Next, Only

LEMMA GrantsSteps == [Next]_vars => [G!Next]_grantsVars
<1> SUFFICES ASSUME [Next]_vars PROVE [G!Next]_grantsVars
  OBVIOUS
<1>1. CASE UNCHANGED vars
  BY <1>1 DEF vars
<1> QED BY <1>1 DEF Next, Only

LEMMA ContextSteps == [Next]_vars => [C!Next]_contextVars
<1> SUFFICES ASSUME [Next]_vars PROVE [C!Next]_contextVars
  OBVIOUS
<1>1. CASE UNCHANGED vars
  BY <1>1 DEF vars
<1> QED BY <1>1 DEF Next, Only

\* A deleted record has no version again, and whatever may be retrieved was
\* approved by the user (delete and the transitions of personal_context.py).
THEOREM ContextIsTheUsersCorrect == Spec => []ContextIsTheUsers
<1>1. ContextInv => ContextIsTheUsers
  BY DEF ContextInv, ContextIsTheUsers, PermittedWasApproved, C!RetrievableWasApproved, C!Retrievable
<1> QED BY <1>1, ContextInit, ContextNext, ContextAlone, ContextSteps, PTL DEF Spec

\* The scope a person saved stays in force, and a run sends nothing that was
\* withdrawn before it began (save, ensure_initial_processing_grant, evaluate).
THEOREM ScopesAreTheUsersCorrect == Spec => []ScopesAreTheUsers
<1>1. GrantsInv => ScopesAreTheUsers
  BY DEF GrantsInv, ScopesAreTheUsers
<1> QED BY <1>1, GrantsInit, GrantsNext, GrantsAlone, GrantsSteps, PTL DEF Spec

\* Whatever calls, conflicts, failures and deaths overlap in a session, its
\* transcript holds exactly the exchanges of its completed turns, the model
\* missed nothing but turns still open when its revision was read, turns are
\* numbered in the order of their revisions, a session that is busy has somebody
\* at work or dead in it, and what is settled stays (send_channel_message,
\* complete_turn and fail_turn).
THEOREM TurnsAndTranscriptAgreeCorrect == Spec => TurnsAndTranscriptAgree
<1>1. TurnsInv => /\ T!TypeOK /\ T!TranscriptTellsTheTurns /\ T!OnlyOpenTurnsAreMissing
                  /\ T!TurnsAreSerialised /\ T!QuietWhenDone
  BY TurnsMissing DEF TurnsInv, TurnsTyped
<1>2. Spec => [](/\ T!TypeOK /\ T!TranscriptTellsTheTurns /\ T!OnlyOpenTurnsAreMissing
                 /\ T!TurnsAreSerialised /\ T!QuietWhenDone)
  BY <1>1, TurnsInit, TurnsNext, TurnsAlone, TurnsSteps, PTL DEF Spec
<1>3. Spec => T!SettledStays
  <2>1. TurnsInv /\ [Next]_vars => [Settles]_(T!vars)
    BY TurnsNext, TurnsSteps
  <2>2. Spec => [][Settles]_(T!vars)
    BY <2>1, TurnsInit, TurnsNext, TurnsAlone, TurnsSteps, PTL DEF Spec
  <2> QED BY <2>2 DEF T!SettledStays, Settles
<1> QED BY <1>2, <1>3 DEF TurnsAndTranscriptAgree

\* A page that was rendered undisturbed names the selection it shows by its
\* revision, and every session in use exists (select_session).
THEOREM PageIdentifiesSelectionCorrect == Spec => []PageIdentifiesSelection
<1>1. SelectionInv => PageIdentifiesSelection
  BY DEF SelectionInv, PageBehind, SessionsKnown, Known, PageIdentifiesSelection,
         S!PageIdentifiesSelection, S!Exists
<1> QED BY <1>1, SelectionInit, SelectionNext, SelectionAlone, SelectionSteps, PTL DEF Spec

\* No current danger reaches a provider, nothing is spoken past a boundary, and
\* no word of an answer gets out without a record that counts every request
\* (_respond_to_message).
THEOREM AnswersAreSafeAndRecordedCorrect == Spec => []AnswersAreSafeAndRecorded
<1>1. RunInv => AnswersAreSafeAndRecorded
  <2> SUFFICES ASSUME RunInv PROVE R!AnswerIsOnRecord
    BY DEF RunInv, AnswersAreSafeAndRecorded
  <2>1. outcome \in R!Replies \ {"raised", Nothing} => outcome \in Spoken
    BY DEF R!Replies, Spoken
  <2> QED BY <2>1 DEF RunInv, SpeechRecorded, R!AnswerIsOnRecord
<1> QED BY <1>1, RunInit, RunNext, RunAlone, RunSteps, PTL DEF Spec

\* A message changes a decision once, at a revision its session was shown, and
\* is never taken for a turn of the conversation when it comes again
\* (_interpret_decision_reply and _replay_completed_decision_operation).
THEOREM ConversationDecidesWhatWasShownCorrect == Spec => []ConversationDecidesWhatWasShown
<1>1. DialogueInv => ConversationDecidesWhatWasShown
  <2> SUFFICES ASSUME DialogueInv PROVE D!ConsentWasShown /\ D!RetryIsNoTurn
    BY DEF DialogueInv, ConversationDecidesWhatWasShown
  <2>1. ASSUME NEW e \in effects, NEW f \in effects, e.op = f.op PROVE e = f
    <3>1. e.change = f.change
      BY <2>1 DEF DialogueInv, OperationsStand
    <3>2. /\ e \in [op : Ops, change : D!Operations]
          /\ f \in [op : Ops, change : D!Operations]
      BY DEF DialogueInv, D!TypeOK
    <3> QED BY <2>1, <3>1, <3>2
  <2>2. D!ConsentWasShown
    BY <2>1 DEF D!ConsentWasShown, DialogueInv, OperationsStand
  <2> QED BY <2>2 DEF D!RetryIsNoTurn, DialogueInv, RequestStands
<1> QED BY <1>1, DialogueInit, DialogueNext, DialogueAlone, DialogueSteps, PTL DEF Spec

\* Only private chats that gave the code of a pairing are answered
\* (pair_telegram_owner and _authorize_chat).
THEOREM OwnersAloneCorrect == Spec => []OwnersAlone
<1>1. PairingInv => OwnersAlone
  <2> SUFFICES ASSUME PairingInv PROVE OwnersAlone
    OBVIOUS
  <2>1. ASSUME NEW b \in Bots, NEW u \in DOMAIN sent[b]
        PROVE  u \in P!Updates /\ sent[b][u] \in [chat : P!Chats, text : {"connect", "talk"}]
    <3>1. sent[b] \in Seq(Texts) /\ Len(sent[b]) <= LastUpdate
      BY DEF PairingInv, PairingTyped, SentTyped
    <3>2. u \in 1..Len(sent[b]) /\ Len(sent[b]) \in Nat /\ sent[b][u] \in Texts
      BY <3>1
    <3> QED BY <3>1, <3>2, BoundsAssumption DEF Texts, P!Updates
  <2>2. P!TypeOK
    BY <2>1 DEF PairingInv, PairingTyped, P!TypeOK
  <2>3. ASSUME NEW t \in turns PROVE Owner(sent[t[1]][t[2]].chat)
    <3>1. t[1] \in Bots /\ t[2] \in P!Updates /\ t = <<t[1], t[2]>>
      BY DEF PairingInv, PairingTyped
    <3> QED BY <3>1 DEF PairingInv, OwnersAnswered
  <2>4. P!OwnersAlone
    BY <2>3 DEF P!OwnersAlone, Owner
  <2> QED BY <2>2, <2>4 DEF OwnersAlone
<1> QED BY <1>1, PairingInit, PairingNext, PairingAlone, PairingSteps, PTL DEF Spec
=============================================================================
