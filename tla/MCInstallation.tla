--------------------------- MODULE MCInstallation ---------------------------
(***************************************************************************)
(* Small instances of the components around an installation: its stores,   *)
(* its setup and its roots, and the services that keep one file or one     *)
(* record each.  They share no state, and a behaviour is one of the        *)
(* component "subject" names: the others stand still.  The instance is as  *)
(* large as the sum of theirs.                                             *)
(***************************************************************************)
EXTENDS Integers, Sequences, FiniteSets

CONSTANTS
    Subjects,       \* the components this instance checks
    Nothing,
    Starters, Legacy, Late, New,                        \* StoreMigration
    Services, Documents, Texts, Empty,                  \* Connectors
    Sources, Budgets, Quotes, Runs,                     \* Watches
    Cloud, OnMachine, Fake, Public, Private,            \* the two setups
    Others, InstanceFile, MaxEdits,                     \* SetupMigration
    Server,                                             \* StagedRoots
    Callers, Presets, Ids, Fingerprints, MaxRevision,   \* Personas
    Metrics, Revisions, AtFirst, MaxVersion,            \* Trials
    Categories, Evidence, MaxCalls, MaxUses, MaxCost, Overrun,  \* Delegation
    MaxItems, MaxMessages, MaxSize, MaxCap,             \* Selections
    Forecasts, Proposals, Contents                      \* Forecasts

ASSUME BoundsAssumption ==
    /\ MaxCalls \in Nat /\ MaxUses \in Nat /\ MaxCost \in Nat /\ Overrun \in Nat /\ MaxEdits \in Nat
    /\ MaxRevision \in Nat \ {0} /\ MaxVersion \in Nat \ {0}
    /\ MaxItems \in Nat /\ MaxMessages \in Nat /\ MaxSize \in Nat /\ MaxCap \in Nat
ASSUME FileAssumption == InstanceFile \notin Others
ASSUME ProviderAssumption ==
    /\ Fake \in OnMachine /\ Cloud \cap OnMachine = {}
    /\ Nothing \notin Cloud \cup OnMachine \cup Public \cup Private
ASSUME ServerAssumption == {"local", "placeholder", Nothing} \cap Server = {}
ASSUME NothingAssumption ==
    /\ Nothing \notin {"accepted", "rejected", "limited", "blocked", "placeholder"}
    /\ \A e \in SUBSET Evidence : e # Nothing
    /\ Nothing \notin Forecasts
    /\ Nothing \notin [edit : Nat, current : BOOLEAN]
    /\ LET Talk == [provider : Cloud \cup OnMachine \cup {Nothing},
                    persona : Public \cup Private \cup {Nothing}]
       IN  Nothing \notin [provider : Cloud \cup OnMachine \cup {Nothing},
                          persona : Public \cup Private \cup {Nothing},
                          first : Talk, grant : BOOLEAN, recorded : BOOLEAN]
    /\ LET Forecast == [says : Contents, supersedes : Forecasts \cup {Nothing}]
       IN  /\ Nothing \notin [says : Contents, supersedes : Forecasts \cup {Nothing}]
           /\ Nothing \notin [id : Forecasts, proposed : Forecast,
                              status : {"proposed", "deferred", "rejected", "accepted"}]

VARIABLES
    subject,
    store, legacy, rollback, db, starter, lock, gone, late, written,
    source, stored, held, adapter,
    watched, loaded, agreed,
    draft, creds, telegram, installed, at, mem, private, accepted, before, setupTorn,
    key, default, bot, granted, active, part, picked, captured, changeTorn,
    live, bak, phase, plan, saved, left, missed, planTorn,
    root, names, archive, job, stop, moved, was,
    file, copy,
    trial, seen, update,
    request, policy, stage, used, result, verified, status, receipt,
    kind, list, cap, most, next, taken,
    forecasts, inuse, proposals, settled, overwritten

storeVars      == <<store, legacy, rollback, db, starter, lock, gone, late, written>>
connectorVars  == <<source, stored, held, adapter>>
watchVars      == <<watched, loaded, agreed>>
setupVars      == <<draft, creds, telegram, installed, at, mem, private, accepted, before, setupTorn>>
changeVars     == <<key, default, bot, granted, active, part, picked, captured, changeTorn>>
migrationVars  == <<live, bak, phase, plan, saved, left, missed, planTorn>>
rootVars       == <<root, names, archive, job, stop, moved, was>>
personaVars    == <<file, copy>>
trialVars      == <<trial, seen, update>>
delegationVars == <<request, policy, stage, used, result, verified, status, receipt>>
selectionVars  == <<kind, list, cap, most, next, taken>>
forecastVars   == <<forecasts, inuse, proposals, settled, overwritten>>
vars == <<subject, storeVars, connectorVars, watchVars, setupVars, changeVars,
          migrationVars, rootVars, personaVars, trialVars, delegationVars,
          selectionVars, forecastVars>>

S == INSTANCE StoreMigration WITH NoFile <- Nothing
C == INSTANCE Connectors
W == INSTANCE Watches WITH stored <- watched, held <- loaded
G == INSTANCE GuidedSetup WITH Local <- OnMachine, torn <- setupTorn
I == INSTANCE InstalledSetup WITH Local <- OnMachine, telegram <- bot, at <- part, before <- captured,
                                 torn <- changeTorn
M == INSTANCE SetupMigration WITH Record <- InstanceFile, at <- phase, late <- missed, torn <- planTorn
R == INSTANCE StagedRoots WITH at <- stop
P == INSTANCE Personas WITH mem <- copy
T == INSTANCE Trials WITH First <- AtFirst
D == INSTANCE Delegation
L == INSTANCE Selections WITH MaxCost <- MaxSize, at <- next
F == INSTANCE Forecasts WITH active <- inuse, agreed <- settled

ASSUME WatchAssumption ==
    Budgets \subseteq Nat /\ Quotes \subseteq Nat /\ IsFiniteSet(Sources)
ASSUME TrialAssumption ==
    AtFirst \in Revisions /\ Nothing \notin T!Trial

ASSUME RecordsAssumption == \A e \in SUBSET S!Records : e # Nothing

NoTerms == [limit |-> [k \in D!Kinds |-> 0], cost |-> 0, context |-> {}]

\* Where a component is not the subject, one of its initial states is enough.
Init ==
    /\ subject \in Subjects
    /\ W!Init /\ G!Init /\ P!Init /\ T!Init /\ F!Init
    /\ S!Init /\ (subject # "stores" => store = "interfaces" /\ legacy.kind = "none")
    /\ C!Init /\ (subject # "connectors" => \A d \in Documents : source[d] = Empty)
    /\ I!Init /\ (subject # "change" => active = Fake /\ bot = Nothing)
    /\ M!Init /\ (subject # "migration" => \A f \in Others : live[f].current)
    /\ R!Init /\ (subject # "roots" => archive = "absent" /\ \A p \in R!Places : root[p] = "missing")
    /\ IF subject = "delegation" THEN D!Init
       ELSE /\ request = NoTerms /\ policy = NoTerms /\ stage = "asked"
            /\ used = [count |-> [k \in D!Kinds |-> 0], cost |-> 0]
            /\ result = Nothing /\ verified = {} /\ status = "completed" /\ receipt = Nothing
    /\ IF subject = "selections" THEN L!Init
       ELSE kind = "goals" /\ list = <<>> /\ cap = 0 /\ most = 0 /\ next = 1 /\ taken = {}

Only(name) ==
    /\ IF name = "stores" THEN TRUE ELSE UNCHANGED storeVars
    /\ IF name = "connectors" THEN TRUE ELSE UNCHANGED connectorVars
    /\ IF name = "watches" THEN TRUE ELSE UNCHANGED watchVars
    /\ IF name = "setup" THEN TRUE ELSE UNCHANGED setupVars
    /\ IF name = "change" THEN TRUE ELSE UNCHANGED changeVars
    /\ IF name = "migration" THEN TRUE ELSE UNCHANGED migrationVars
    /\ IF name = "roots" THEN TRUE ELSE UNCHANGED rootVars
    /\ IF name = "personas" THEN TRUE ELSE UNCHANGED personaVars
    /\ IF name = "trials" THEN TRUE ELSE UNCHANGED trialVars
    /\ IF name = "delegation" THEN TRUE ELSE UNCHANGED delegationVars
    /\ IF name = "selections" THEN TRUE ELSE UNCHANGED selectionVars
    /\ IF name = "forecasts" THEN TRUE ELSE UNCHANGED forecastVars
    /\ UNCHANGED subject

Next ==
    \/ subject = "stores" /\ S!Next /\ Only("stores")
    \/ subject = "connectors" /\ C!Next /\ Only("connectors")
    \/ subject = "watches" /\ W!Next /\ Only("watches")
    \/ subject = "setup" /\ G!Next /\ Only("setup")
    \/ subject = "change" /\ I!Next /\ Only("change")
    \/ subject = "migration" /\ M!Next /\ Only("migration")
    \/ subject = "roots" /\ R!Next /\ Only("roots")
    \/ subject = "personas" /\ P!Next /\ Only("personas")
    \/ subject = "trials" /\ T!Next /\ Only("trials")
    \/ subject = "delegation" /\ D!Next /\ Only("delegation")
    \/ subject = "selections" /\ L!Next /\ Only("selections")
    \/ subject = "forecasts" /\ F!Next /\ Only("forecasts")

Spec == Init /\ [][Next]_vars

-----------------------------------------------------------------------------

(* Whatever starts, dies and finds another's half-done migration, every    *)
(* record is in the database once or still in a file, a deleted one is in  *)
(* neither, and who works finds a current schema (store_migration.py and   *)
(* the stores' _migrate_legacy).                                           *)
MigrationKeepsEveryRecord ==
    S!TypeOK /\ S!EveryRecordOnce /\ S!DeletedStaysDeleted /\ S!OpenIsReady

(* A removed document stays removed whatever older copies other processes  *)
(* hold (remove_imported_data, synchronize).                               *)
RemovalStands == []C!TypeOK /\ C!RemovalStands

(* A run of a watch spends and looks no further than terms that were       *)
(* confirmed together (propose, confirm, run).                             *)
RunsWithinAgreement == W!TypeOK /\ W!RunsWithinAgreement

(* Through backing out, saving, resuming, dying and rolling back, setup    *)
(* talks to what was chosen and its activation is all or nothing, unless   *)
(* the rollback itself was cut off or could not put something back         *)
(* (_activate).                                                            *)
SetupActivatesWhatWasAccepted ==
    G!TypeOK /\ G!TalksToWhatWasChosen /\ G!ActivationIsWhole

(* A change of provider cut off or failed anywhere leaves the active one   *)
(* its grant, unless the rollback could not put back the record that says  *)
(* which is active; and repairs give back no scope that was withdrawn, but *)
(* for a rollback to what was granted when the change began                *)
(* (_commit_installed_provider).                                           *)
ChangeKeepsGrants == [](I!TypeOK /\ I!ActiveHasGrant) /\ I!WithdrawalStays

(* A migration of a legacy installation that is cut off or fails leaves a  *)
(* legacy or a migrated one, unless it failed after the record was         *)
(* replaced and did not get through putting back the files; and no edit    *)
(* made before the backup is lost (commit_migration_plan).                 *)
MigrationIsWhole == [](M!TypeOK /\ M!RecordComesLast) /\ M!EditsAreKept

(* Setup and restore install every root or none, unless what was moved     *)
(* could not be taken back, and a killed one leaves no root that no record *)
(* names (_commit_staged_setup, restore).                                  *)
RootsAreWhole == R!TypeOK /\ R!AllOrNothing /\ R!NoStrayServer

(* No persona command undoes what another did meanwhile                    *)
(* (_refresh_from_disk).                                                   *)
NothingIsUndone == []P!TypeOK /\ P!NothingIsUndone

(* Evidence counts for the revision its author saw, nothing recorded is    *)
(* lost, and an acceptance rests on the evidence that earns it (record,    *)
(* decide, reassess_revision, save).                                       *)
AcceptanceIsEarned == [](T!TypeOK /\ T!EvidenceIsOfItsRevision) /\ T!AcceptanceIsEarned

(* A delegated worker spends within the policy over all its calls, and     *)
(* what is accepted was verified whole (delegate).                         *)
DelegationIsBounded == D!TypeOK /\ D!SpendingBounded /\ D!AcceptedWasVerified

(* The greedy loops pick the best selection that fits, for goals the best  *)
(* of those that leave hours over (deliver, calculate_feasible_set,        *)
(* select_history_for_budget).                                             *)
SelectsTheBest == L!TypeOK /\ L!SelectsTheBest

(* Only agreed revisions are planned with, as they were agreed, except     *)
(* where a proposal took an identifier in use (accept_revision).           *)
ActiveLineWasAgreed == F!TypeOK /\ F!ActiveLineWasAgreed
=============================================================================
