---------------------------- MODULE GuidedSetup ----------------------------
(***************************************************************************)
(* The guided half of setup_workflow.py: a fresh machine, the steps of the *)
(* wizard with "back", the resumable draft on disk, the first conversation *)
(* held with the chosen provider and persona, and the activation that      *)
(* writes the installation, the processing grant, the credential store and *)
(* the Telegram connector and, when a later part fails, undoes them one by *)
(* one, noting what it cannot undo and going on.                           *)
(*                                                                         *)
(* The process may be killed between any two of its writes; the next run   *)
(* starts from what is on disk.  What a step asks and prints is left out;  *)
(* of a profile only that the step was answered is kept.                   *)
(***************************************************************************)
EXTENDS Naturals, FiniteSets

CONSTANTS
    Cloud,      \* providers that need a key
    Local,      \* providers on this machine, which need none
    Public,     \* the built-in and authored personas
    Private,    \* the personas imported from private documents
    Nothing     \* the absence of any of them

VARIABLES
    draft,      \* the saved draft, or Nothing
    creds,      \* the credential store: what is known of each key, the default
    telegram,   \* the provider the Telegram connector names, or Nothing
    installed,  \* the installed roots, or Nothing
    at,         \* the step, the part of the activation, or Off
    mem,        \* the draft in memory
    private,    \* the imported persona, kept in memory only
    accepted,   \* the accepted first conversation, kept in memory only
    before,     \* the two files captured before the activation
    torn        \* a rollback was cut off or could not undo all, for the properties

setup == <<draft, creds, telegram, installed, at, mem, private, accepted, before, torn>>

-----------------------------------------------------------------------------
(* GUIDED_STEPS, by position.                                              *)
Provider == 1
Connectors == 2
Persona == 3
Profile == 4
Review == 5
First == 6
Steps == Provider..First

(* The parts of the activation that follows, and the resting places.       *)
Roots == 7
Grant == 8
Credentials == 9
Telegram == 10
Reopen == 11
Tidy == 12
Activating == Roots..Tidy
Off == 0
Activated == 13
Interrupted == 14

(* The parts of the rollback.                                              *)
UndoRoots == 15
UndoCredentials == 16
UndoTelegram == 17
Undoing == UndoRoots..UndoTelegram

Blank == [done |-> {}, provider |-> Nothing, verified |-> FALSE, persona |-> Nothing]

TypeOK ==
    /\ draft \in {Nothing} \cup [done : SUBSET Steps, provider : Cloud \cup Local \cup {Nothing},
                                 verified : BOOLEAN, persona : Public \cup Private \cup {Nothing}]
    /\ creds.key \in [Cloud -> {"none", "unverified", "verified"}]
    /\ creds.default \in Cloud \cup {Nothing}
    /\ telegram \in Cloud \cup Local \cup {Nothing}
    /\ at \in Steps \cup Activating \cup Undoing \cup {Off, Activated, Interrupted}

Init ==
    /\ draft = Nothing
    /\ creds = [key |-> [p \in Cloud |-> "none"], default |-> Nothing]
    /\ telegram = Nothing
    /\ installed = Nothing
    /\ at = Off
    /\ mem = Blank
    /\ private = Nothing
    /\ accepted = Nothing
    /\ before = Nothing
    /\ torn = FALSE

-----------------------------------------------------------------------------
(* The draft.                                                              *)

\* Where the wizard goes from position i: the first later step not done.
NextOpen(i, done) ==
    LET open == {s \in Steps : s >= i /\ s \notin done}
    IN IF open = {} THEN Roots ELSE CHOOSE s \in open : \A t \in open : s <= t

\* The draft saved with a private persona's steps still marked as done.
SavedFormKeepingSteps(m) ==
    IF private = Nothing THEN m ELSE [m EXCEPT !.persona = Nothing]

\* A private persona stays out of the draft, with every step that rests on it.
SavedForm(m) ==
    IF private = Nothing THEN m
    ELSE [m EXCEPT !.persona = Nothing, !.done = @ \ {Persona, Review, First}]

SaveDraft(m) == draft' = SavedForm(m)

\* The persona in force is one whose definition can still be found.
Resolvable == private # Nothing \/ mem.persona \notin Private

Forget ==
    /\ mem' = Blank
    /\ private' = Nothing
    /\ accepted' = Nothing
    /\ before' = Nothing

-----------------------------------------------------------------------------
(* A run of the command.                                                   *)

\* What the next run goes by: the installation record is there.
Recorded == installed # Nothing /\ installed.recorded

Begin(m) ==
    /\ at = Off
    /\ ~Recorded
    /\ mem' = m
    /\ at' = NextOpen(Provider, m.done)
    /\ private' = Nothing
    /\ accepted' = Nothing
    /\ UNCHANGED <<telegram, installed, before, torn>>

StartFresh == draft = Nothing /\ Begin(Blank) /\ UNCHANGED <<draft, creds>>

\* A draft with nothing left to do goes straight to an activation that has no
\* accepted conversation and raises: the command ends as it began.
Resume ==
    /\ draft # Nothing
    /\ NextOpen(Provider, draft.done) # Roots
    /\ Begin(draft)
    /\ UNCHANGED <<draft, creds>>

StartOver(dropKeys) ==
    /\ draft # Nothing
    /\ Begin(Blank)
    /\ draft' = Nothing
    /\ creds' = IF dropKeys
                THEN [key |-> [p \in Cloud |-> "none"], default |-> Nothing]
                ELSE creds

\* The user leaves, which saves the draft.
Exit ==
    /\ at \in Steps
    /\ at = Review => Resolvable
    /\ SaveDraft(mem)
    /\ at' = Off
    /\ Forget
    /\ UNCHANGED <<creds, telegram, installed, torn>>

\* The process ends without saving: killed, or an error nobody catches.
Die ==
    /\ at \in Steps \cup Activating \cup Undoing
    /\ at' = IF Recorded THEN Interrupted ELSE Off
    /\ torn' = (torn \/ at \in Undoing)
    /\ Forget
    /\ UNCHANGED <<draft, creds, telegram, installed>>

Complete(step, m) ==
    LET d == [m EXCEPT !.done = @ \cup {step}]
    IN /\ mem' = d
       /\ SaveDraft(d)
       /\ at' = NextOpen(step + 1, d.done)

Back ==
    /\ at \in Steps \ {Provider}
    /\ at = Review => Resolvable
    /\ mem' = [mem EXCEPT !.done = @ \ {at - 1}]
    /\ at' = at - 1
    /\ UNCHANGED <<draft, creds, telegram, installed, private, accepted, before, torn>>

-----------------------------------------------------------------------------
(* The steps.  The review may run any earlier step again, and the first    *)
(* conversation may change the provider or the persona.                    *)

StoreVerified(p, verified) ==
    creds' = IF p \in Cloud
             THEN [creds EXCEPT !.key[p] = IF verified THEN "verified" ELSE "unverified"]
             ELSE creds

ChooseProvider(p) ==
    LET m == [mem EXCEPT !.provider = p, !.verified = TRUE]
    IN /\ at \in {Provider, Review, First}
       /\ at = Review => Resolvable
       /\ StoreVerified(p, TRUE)
       /\ IF at = Provider THEN Complete(Provider, m)
                           ELSE mem' = m /\ UNCHANGED <<draft, at>>
       /\ UNCHANGED <<telegram, installed, private, accepted, before, torn>>

\* The test failed and the settings are saved for later; the list comes again.
SaveForLater(p) ==
    /\ at \in {Provider, Review, First}
    /\ at = Review => Resolvable
    /\ StoreVerified(p, FALSE)
    /\ mem' = [mem EXCEPT !.provider = p, !.verified = FALSE]
    /\ UNCHANGED <<draft, telegram, installed, at, private, accepted, before, torn>>

ChooseConnectors(paired) ==
    /\ at \in {Connectors, Review}
    /\ at = Review => Resolvable
    /\ telegram' = IF paired THEN mem.provider ELSE telegram
    /\ IF at = Connectors THEN Complete(Connectors, mem) ELSE UNCHANGED <<draft, at, mem>>
    /\ UNCHANGED <<creds, installed, private, accepted, before, torn>>

Chosen(p) == private' = IF p \in Private THEN p ELSE Nothing

\* Completing the step saves the draft, which depends on the persona just chosen.
ChoosePersona(p) ==
    LET m == [mem EXCEPT !.persona = p]
        d == [m EXCEPT !.done = @ \cup {Persona}]
    IN /\ at \in {Persona, Review, First}
       /\ at = Review => Resolvable
       /\ Chosen(p)
       /\ CASE at = Persona ->
                 /\ mem' = d
                 /\ at' = NextOpen(Profile, d.done)
                 /\ draft' = IF p \in Private
                             THEN [d EXCEPT !.persona = Nothing,
                                            !.done = @ \ {Persona, Review, First}]
                             ELSE d
            [] at = Review -> mem' = m /\ UNCHANGED <<draft, at>>
            [] at = First -> mem' = [m EXCEPT !.done = @ \ {First}] /\ UNCHANGED <<draft, at>>
       /\ UNCHANGED <<creds, telegram, installed, accepted, before, torn>>

\* Authoring drops the imported persona before it asks for the name of the new
\* one; the user leaves at that question.
LeaveAuthoring ==
    /\ at \in {Persona, Review, First}
    /\ at = Review => Resolvable
    /\ private' = Nothing
    /\ draft' = mem
    /\ at' = Off
    /\ mem' = Blank
    /\ accepted' = Nothing
    /\ UNCHANGED <<creds, telegram, installed, before, torn>>

\* The same, with "back" instead.
BackFromAuthoring ==
    /\ at \in {Persona, First}
    /\ private' = Nothing
    /\ mem' = [mem EXCEPT !.done = @ \ {at - 1}]
    /\ at' = at - 1
    /\ UNCHANGED <<draft, creds, telegram, installed, accepted, before, torn>>

AnswerProfile ==
    /\ at = Profile
    /\ Complete(Profile, mem)
    /\ UNCHANGED <<creds, telegram, installed, private, accepted, before, torn>>

AcceptReview ==
    /\ at = Review
    /\ Resolvable
    /\ Complete(Review, mem)
    /\ UNCHANGED <<creds, telegram, installed, private, accepted, before, torn>>

\* The provider answers the first message and the user accepts the answer.
AcceptFirst ==
    /\ at = First
    /\ Resolvable
    /\ mem.provider \in Cloud => creds.key[mem.provider] # "none"
    /\ accepted' = [provider |-> mem.provider, persona |-> mem.persona]
    /\ Complete(First, mem)
    /\ UNCHANGED <<creds, telegram, installed, private, before, torn>>

-----------------------------------------------------------------------------
(* The activation.                                                         *)

Part(name, next) == at = name /\ at' = next /\ UNCHANGED <<mem, private, accepted>>

\* What is left of an installation in the roots refuses a new one.
InstallRoots ==
    /\ Part(Roots, Grant)
    /\ accepted # Nothing
    /\ installed = Nothing
    /\ before' = [creds |-> creds, telegram |-> telegram]
    /\ installed' = [provider |-> mem.provider, persona |-> mem.persona,
                     first |-> accepted, grant |-> FALSE, recorded |-> TRUE]
    /\ UNCHANGED <<draft, creds, telegram, torn>>

EnsureGrant ==
    /\ Part(Grant, Credentials)
    /\ installed' = [installed EXCEPT !.grant = mem.provider \in Cloud]
    /\ UNCHANGED <<draft, creds, telegram, before, torn>>

SaveCredentials ==
    /\ Part(Credentials, Telegram)
    /\ creds' = [creds EXCEPT !.default = IF mem.provider \in Cloud THEN mem.provider ELSE Nothing]
    /\ UNCHANGED <<draft, telegram, installed, before, torn>>

UpdateTelegram ==
    /\ Part(Telegram, Reopen)
    /\ telegram' = IF telegram = Nothing THEN Nothing ELSE mem.provider
    /\ UNCHANGED <<draft, creds, installed, before, torn>>

\* The installation reopens on the provider that was verified.
Reopens == installed.provider \in Cloud =>
              creds.key[installed.provider] = "verified" /\ installed.grant

ProveReopen ==
    /\ Part(Reopen, Tidy)
    /\ Reopens
    /\ UNCHANGED <<draft, creds, telegram, installed, before, torn>>

RemoveDraft ==
    /\ at = Tidy
    /\ draft' = Nothing
    /\ at' = Activated
    /\ Forget
    /\ UNCHANGED <<creds, telegram, installed, torn>>

\* A part fails, or the installation does not reopen.
Rollback ==
    /\ Part(at, UndoRoots)
    /\ at \in Activating \ {Roots, Tidy}
    /\ UNCHANGED <<draft, creds, telegram, installed, before, torn>>

\* Files without a record: what was in them no longer counts.
Remains == [provider |-> Nothing, persona |-> Nothing,
            first |-> [provider |-> Nothing, persona |-> Nothing],
            grant |-> FALSE, recorded |-> FALSE]

\* The roots are emptied; or they stand; or some of it goes, the record at least.
RestoreRoots ==
    /\ Part(UndoRoots, UndoCredentials)
    /\ installed' \in {Nothing, installed, Remains}
    /\ torn' = (torn \/ installed' # Nothing)
    /\ UNCHANGED <<draft, creds, telegram, before>>

\* The store keeps what the activation wrote to it.
RestoreCredentialsNever(ok) ==
    /\ Part(UndoCredentials, UndoTelegram)
    /\ creds' = creds
    /\ torn' = (torn \/ ~ok)
    /\ UNCHANGED <<draft, telegram, installed, before>>

\* The two files are put back, or cannot be and stay.
RestoreCredentials(ok) ==
    /\ Part(UndoCredentials, UndoTelegram)
    /\ creds' = IF ok THEN before.creds ELSE creds
    /\ torn' = (torn \/ (~ok /\ creds # before.creds))
    /\ UNCHANGED <<draft, telegram, installed, before>>

\* The error that follows ends the command.
RestoreTelegram(ok) ==
    /\ at = UndoTelegram
    /\ telegram' = IF ok THEN before.telegram ELSE telegram
    /\ at' = IF Recorded THEN Interrupted ELSE Off
    /\ Forget
    /\ UNCHANGED <<draft, creds, installed, torn>>

-----------------------------------------------------------------------------
Next ==
    \/ StartFresh \/ Resume \/ Exit \/ Die \/ Back
    \/ \E b \in BOOLEAN : StartOver(b) \/ ChooseConnectors(b)
    \/ \E p \in Cloud \cup Local : ChooseProvider(p) \/ SaveForLater(p)
    \/ \E p \in Public \cup Private : ChoosePersona(p)
    \/ LeaveAuthoring \/ BackFromAuthoring \/ AnswerProfile \/ AcceptReview \/ AcceptFirst
    \/ InstallRoots \/ EnsureGrant \/ SaveCredentials \/ UpdateTelegram
    \/ ProveReopen \/ RemoveDraft \/ Rollback \/ RestoreRoots
    \/ \E ok \in BOOLEAN : RestoreCredentials(ok) \/ RestoreTelegram(ok)

Spec == Init /\ [][Next]_setup

-----------------------------------------------------------------------------
(* The first conversation is held with a provider and a persona the user   *)
(* chose, never with the stand-ins the code falls back on, through any     *)
(* backing out, saving and resuming (_save_draft, _selected_persona).      *)
TalksToWhatWasChosen ==
    accepted # Nothing => /\ accepted.provider # Nothing
                          /\ accepted.persona # Nothing

(* An activation is all or nothing: a finished one reopens, with its       *)
(* grant, its default key and the Telegram connector all on one provider;  *)
(* and where the command ends and can begin again, a failed one, undone    *)
(* part by part, leaves neither roots nor a default behind, unless its     *)
(* rollback was cut off or could not undo one of them (_activate and its   *)
(* rollback).                                                              *)
ActivationIsWhole ==
    /\ at = Activated =>
          /\ Reopens
          /\ installed.first = [provider |-> installed.provider, persona |-> installed.persona]
          /\ telegram \in {Nothing, installed.provider}
          /\ creds.default = IF installed.provider \in Cloud THEN installed.provider ELSE Nothing
    /\ at \in Steps \cup {Off} /\ ~torn => installed = Nothing /\ creds.default = Nothing

(* A paused or failed setup can be resumed to its end: "Run reckoning      *)
(* setup to resume", as both messages say.  It does not hold, and no run   *)
(* checks it: a failed activation leaves every step done, and a first      *)
(* conversation accepted in an earlier process is not on disk.             *)
DraftCanFinish ==
    at = Off /\ draft # Nothing =>
        /\ First \notin draft.done
        /\ Persona \in draft.done => draft.persona \notin Private
=============================================================================
