# Reckoning: a TLA+ development

Reckoning is a local-first continuity agent for one person. Several processes
(a terminal conversation, a web server, the Telegram gateway, setup and
maintenance commands) share one data directory: a SQLite database per root and
a few JSON files. Nothing coordinates these processes except the transactions
and file locks of the stores. This development models the parts of the program
where that matters, checks them with TLC on small instances and proves the most
important results with TLAPS for every instance.

Line numbers refer to `src/reckoning/` in the repository.

## 1. Inventory

| Component | State | Operations | What is hard |
| --- | --- | --- | --- |
| External writes (`connectors.py`, `external_write_store.py`) | prepared writes, exact approvals, standing permissions, claims, receipts | prepare, approve, grant, revoke, execute, recover | revocation between two reads of the authority; rival callers; a crash while a claim is held; unknown outcomes |
| Telegram delivery (`telegram.py`, `telegram_delivery.py`) | the acknowledgement offset; one row per update with a processing and a delivery state; the paired chat | pair, poll, accept, process, deliver, recover, retry | redelivery, two pollers, crashes between a call and its record, an unknown delivery, an offset tied to no bot |
| Decision operations (`application.py`, `persistence.py`, `continuity.py`) | decisions with versions, operation records, check-ins | start, correct, confirm, check in, replay | read-compute-save over three transactions; duplicates and retries under one operation identifier |
| Decision conversation and web flow (`web.py`, `web_decisions.py`, `decision_conversation.py`) | presentation receipts in memory, stored operations | show, reply, clarify, replay a completed operation | a stale proposal; a retry after a restart |
| Routine automation (`automation.py`, `automation_store.py`) | proposals, runs with claims, step results, receipts | draft, confirm, start, resume, recover | claims shared by worker name, superseded contracts, attempts that crash |
| Watches and briefings (`automation.py`) | memory written whole to a file | propose, confirm, run, brief | an older memory over a newer file |
| Conversation turns (`interfaces.py`, `interface_store.py`) | sessions, revisions, reserved turns, transcript, the selected session | create, select, send, complete, fail, post | a model call between reserving and completing a turn; pages that are out of date |
| Personal context (`personal_context.py`, `memory_maintenance.py`) | record versions, suppression markers, rollback file | propose, confirm, correct, archive, recover, delete, retain | an operation that saves after a deletion |
| Processing grants (`processing.py`) | one versioned grant per destination | first grant, change, evaluate | a grant withdrawn while the provider runs; two first grants |
| Model runs (`application.py`, `provider_adapters.py`, `conversation_safety.py`, `model_run_store.py`) | an append-only table of runs | answer a message, reckon | danger in quoted speech; retries; an answer without a record |
| Personas (`personas.py`) | library and selection with a revision | author, remove, select, activate | a whole file written by several commands |
| Store migration (`store_migration.py` and each store) | legacy file, rollback file, marker, database | load, preserve, import, mark, finalize | a crash between any two steps, two starters, deletion meanwhile |
| Connectors (`connectors.py`) | connections, items and removals in a JSON file | connect, synchronize, search, remove | a stale copy in another process |
| Confirmations (`confirmations.py`) | none of its own | confirm a routine or a write | check, then act |
| Trials (`trials.py`) | one versioned record | record, decide, reassess | evidence of another revision |
| Planning, research, delegation | single objects in memory | feasible sets, forecasts, delegation | bounds and selection |
| Setup (`setup_workflow.py`) | draft, credentials, installation record, grants, Telegram settings | the wizard, activation, change of provider, migration | parts that fail, a user who goes back, a killed process |
| Backup, transfer, restore, reset (`operations.py`) | staged directories, archives | stage, commit, take back | partial failure |
| Terminal, command line, configuration, evaluation | none that outlives a call | input and output | nothing a later step reads |

The interfaces call the services; the services call their stores; a store
method is one transaction. The only callbacks are the provider, the external
adapter and the Bot API, and all three run outside every transaction: whatever
was read before them may be old after them. Files are replaced atomically, but
nothing joins two files, or a file and the database. Those two gaps are where
the properties live.

What makes each component correct:

* External writes: one caller runs a write, with an authority that was live when
  it was dispatched, on the content that was approved, and the receipt is final.
* Telegram: an update is neither lost nor worked on twice, and a reply is not
  shown twice, unless an operator accepted the repetition; only a chat that gave
  the code of a pairing is answered.
* Decisions: each operation acts at once on the revision that was shown, and an
  operation identifier has one effect; in conversation a message changes a
  decision once, at a revision its session was shown.
* Routines: a step is never attempted more often than its contract allows, what
  one call recorded is never written over by another, the receipt tells what
  happened, and one contract of a routine is in force.
* Turns: the transcript is the exchanges of the completed turns, in their order.
* Context and grants: what the user deleted, withdrew or narrowed stays so;
  what a run sends was granted when it began.
* Model runs: no current danger reaches a provider, and every answer is on record.
* Files of a whole (watches, connectors, personas, trials): what one command
  did is not undone by another's older copy, or only within what was agreed.
* Setup, migration, roots: everything or nothing, and no record is lost.

## 2. Modules

| Module | Role |
| --- | --- |
| `ClaimLease` | abstract: an item is held by one owner, who settles it; only a recovery takes it away |
| `ExternalWrites`, `ExternalWritesProofs` | the service and its SQLite store; implements `ClaimLease`; its theorems |
| `TelegramDelivery`, `TelegramDeliveryProofs` | the polling application over the durable inbox and outbox; its theorems |
| `TelegramSetup` | the pairing of a bot, the settings it leaves and the first polls after it |
| `Decisions` | the value of a decision and the three changes made to it |
| `AtomicDecisions` | abstract: every decision operation is one atomic step |
| `DecisionOperations`, `DecisionOperationsProofs` | the operations as sequences of transactions; implements `AtomicDecisions`; its theorems |
| `DecisionDialogue` | a message of the conversation read as a reply to a proposal |
| `RoutineContracts`, `RoutineContractsProofs` | contracts and the runs started under them; its theorems |
| `RoutineRuns`, `RoutineRunsProofs` | the execution of one run; implements `ClaimLease`; its theorems |
| `ConversationTurns` | the turns of sessions, from the page's revision to the transcript |
| `ChannelSessions` | the sessions of a channel and which is selected |
| `PersonalContext` | versions, confirmation, expiry and deletion of what the user told |
| `ProcessingGrants` | the versioned grants and the runs that evaluate them |
| `ModelRuns` | one message or reckoning, from its clauses to its run record |
| `StoreMigration` | six stores' way from a JSON file into the database |
| `Connectors`, `Watches`, `Personas`, `Trials` | services that keep one file or one record |
| `Delegation`, `Selections`, `Forecasts` | one delegated piece of work; the three greedy loops; the revisions of a forecast |
| `GuidedSetup`, `InstalledSetup`, `SetupMigration` | the wizard; the managed setup of an installed machine; the migration of its files |
| `StagedRoots` | how setup and restore make an installation appear |
| `Lists`, `ListFacts` | the sum of a list and a set put in an order, as the loops of the program compute them; what is proved of both |
| `MC...` | symmetry sets and compositions of the instances TLC checks |
| `InterfacesProofs`, `InstallationProofs` | the theorems about the components of the two sums |

A step of a model is one transaction of a store, one call to the outside, one
replaced file, or one piece of local code that a crash can separate from the
next. A caller is one call (or, for Telegram, one poller process), with a `pc` or
`at` that names the place in the code and a record of its local variables. A crash
stops a caller between two steps; SQLite's atomic commit and the atomic
replacement of files are why it never stops inside one. Operators marked
*mutant* are faulty variants of the definition after them; nothing refers to
them, and putting one in place of its original must break a property.

### ExternalWrites

`execute()` (connectors.py:631) is `ReadReceipt`, `ReadPrepared`,
`ReadAuthorization`, `Claim`, `Dispatch`, then `InvokeAdapter` up to
`MaxRetries + 1` times, then `Finalize`; `Abort` is its answer to a revoked
authority. `exec` is the table `external_write_executions` and its `revision`
column. `Inspect`, `Recover`, `Release` and `Reconcile` are the methods the
repository offers to a recovery; no service method calls them, so the recovery
callers are the model's reading of the repository's interface. `Prepare`,
`ApproveExact`, `GrantPermission` and `RevokePermission` run at any time.
Preparing again, approving again and revoking again change nothing and are left
out. `cleared` is a history variable: the authorities that were live when a
caller dispatched.

### TelegramDelivery

`run_once` (telegram.py:681) is the cycle of `Run`: both halves process and
then deliver, with a poll between them. `held` is Telegram's own queue, external
to the program: `getUpdates` with an offset deletes everything below it.
`work` and `shown` count what the outside saw and no table records; `repeats`
and `duplicates` count what an operator accepted. A worker identifier is random
(telegram.py:678), so a process that restarts is a new worker, and a dead one
stays down.

### TelegramSetup

`pair_telegram_owner` (telegram.py:233) is `Pair`, then `Look` once for each poll,
then `Save` (`_setup_telegram`, setup_workflow.py:1732) or `GiveUp`; `Reuse` is
a setup that keeps a saved token. `StartGateway` takes the settings, `Poll` the one
offset of the root, which is tied to no bot, and `Handle` answers an accepted
update if `_authorize_chat` lets it: the inbox does not say which bot an update
came from. Two bots are two numberings of updates.

### DecisionOperations

The four operations (application.py:708-976 and 1037-1060) begin with `Lookup`
(`_replay_result`), read the decision (`Read`) or ask the provider
(`AskProvider`), and end in a save (`Create`, `Save`, `Acknowledge`,
`RecordFailure`), which checks the version and the operation table again.
A payload stands for its digest: the model takes the digest as injective.
(The code joins the parts with "|" before hashing, so two payloads whose texts
contain that character can have one digest; this is not modelled.) The web's
`submission` text is part of the payload in the code and is left out here.
`effects` is a history variable: every change of a decision and the call that
made it.

### DecisionDialogue

One request of the web server is `Receive`, `Interpret` and then `Apply`, `Note`
or `TakeTurn`; between these another program acts (`Start`, `Elsewhere`). `receipt` is the
memory of `_issue_presentation`: tokens with the decision and version they showed,
lost on `Restart` and dropped at the limit or by `Expire`. `Replayed` is the
lookup of a completed operation, which comes before any receipt is asked for;
`Bound` is the check of the receipt against the open proposal. A text is what
`interpret_decision_message` makes of it. `shown` and `effects` are history
variables.

### RoutineContracts

`Propose`, `Revise` and `Confirm` are one transaction each (automation_store.py:
56-124); `GivingWay` is the set of contracts a confirmation supersedes.
`start_run` (automation.py:666-699) is three: `BeginStart` reads the contract and
checks it, `FindByKey` looks for a run with the idempotency key and checks the
steps, `StoreRun` is the store's own transaction. Whether the trigger and the
steps fit the contract is a choice, since what a contract says never changes.
The primary key of the contracts and the uniqueness of their versions are the
guards of `Insert`.

### RoutineRuns

One run, since runs share nothing. `resume_run` (automation.py:701-807) is
`ReadReceipt`, `ClaimRun`, `LoadRun`; for each step `SaveAttempt` and `Execute`, as
often as the executor raises and the limit allows, or `GiveUp`; then `Record`;
and at the end `Finalize`. `Raise` stands for every exception of the database or
of a quote, `Release` for the except clause. `Holds` is the fence of every save:
the owner and the revision of the claim (automation_store.py:819-834). Results
are kept with their status and cost, so `current_step` is the number of results.
A quote depends on the step alone; one unit above it stands for any overrun.
`Recover` is the repository's `recover_run`; the code has no caller of it, so who
recovers, and when, is the model's reading of the interface. A recovery names a
worker, and a later call with that name goes on. `executions` is a history
variable: the executor calls that were made, by whom and as which attempt.

### ConversationTurns and ChannelSessions

`send_channel_message` (interfaces.py:1324) is `ReadRevision` (by the call or by
the page the user looks at), `LoadHistory`, `Reserve` or `Conflict`, `Answer` or
`NoAnswer`, `Complete` and `Tell`; `FailTurn` is the except clause, `Die` a process that
stops anywhere. The run record is written in another store between the answer and
the completion. `Post` steps are the calls that append without a model
(`record_channel_exchange`, `deliver_routine`). The model run itself is `ModelRuns`.
A Telegram chat has a session from its first write on. `ChannelSessions` has the page's
two reads (`RenderSession`, `RenderRevision`) as two steps, because
`_render_simon` (web.py:1690) reads the session and the revision of the selection in
two transactions; the property leaves out the pages in whose rendering
somebody selected, which do show a session with the revision of another.

### PersonalContext and ProcessingGrants

An operation of the context service is `Read` and then `Finish`: one of `Remember`,
`Correct`, `Confirm`, the transitions and `Delete`, each with the version it read.
`Save` is the transaction and refuses what was suppressed or moved on.
`approved` is a history variable: the records a user told or confirmed.
In `ProcessingGrants` the grants of all destinations are one file under a lock;
`Save` compares the version of the one destination and writes the others back as
they are. A start looks and creates in two steps; a run evaluates and
sends in two steps, so a grant may be withdrawn in between, which the property allows.

### ModelRuns

One message or one reckoning. A message is the kinds of its clauses (what
`_classify_danger_clause` makes of each); an answer is what `classify_output` finds
in it. The three adapters repeat one loop with the same retry rule; `CutOff` is
the exception raised from within an attempt, past the count the loop keeps.
`attempts` counts what the provider received and is in no record.

### StoreMigration

A start is `StoreReady`, the loading of the store's own legacy format, `FindRollback`,
`WriteRollback`, `WritePending`, the store's import and `WriteAuthority`; a start that
finds a current schema is `FinalizeLegacy`. The steps in which the six
stores differ (whether a digest is taken before the rollback or after, whether there is a
pending marker, what an absent file means) are operators of their own. `Crash` may
come between any two, `OldRelease` lets an earlier release add a record between two
starts, `LoseDatabase` removes the database, and `SuppressRollback` with
`CommitDeletion` is the deletion of personal context. `late` marks the one case that
escapes: a start that looked for the rollback file before there was one may
write it after a deletion, and the deleted record is in it again.

### Services of one file or record

`Connectors` holds the lock over a whole transaction, so a change is one step,
and each service keeps what it last loaded. `Watches` has no lock and no
reload: a service writes its whole memory. `Personas` and `Trials` check what they loaded
and compare a revision or a version in the write. `Delegation` lets the worker
catch what the runtime raises and go on, and lets a call cost more than its quote
by at most `Overrun`. The calls share one budget, so what a call overspent is missing
from the next; `Admitted` is the whole of `_validate_disposition`, with the agent's own claim of what it
verified where nothing was verified for it (delegation.py:635). `Selections` steps
through the three loops item by item and
compares the result with a definition that has no loop. The hours of the goals are
binary floats in the code and hundredths here: the error of the floats shows only where an effort is just
what remains, and there the loop may take the goal or pass it over (`Drifts`). So the
goals are compared with the selections that leave hours over; of those that use
them up to the last hundredth the code may miss the best (0.1 does not fit into what 1.0 - 0.9
leaves). `Forecasts` lets the answers to several revisions cross, and lets callers use an
identifier again: what is saved takes the place of what was there. A revision keeps
its own copy of what it proposes, which is what accepting it saves. `agreed` and
`overwritten` are history variables, and the version of a forecast, one more than
that of the one it supersedes, is left out.

### Setup, migration and roots

`GuidedSetup` has the steps of the wizard as numbers, `mem` for the draft in memory and
`draft` for the one on disk, and the activation as one step for each file it
writes, with a failure from each. `InstalledSetup` does the same for
`_commit_installed_provider` (setup_workflow.py:2463), while another interface
changes the scopes (`ChangeScope`). In `SetupMigration` an editor may change a file at any time,
the plan is computed once, and the commit backs up, stages and replaces
file by file.

The three rollbacks are as the code has them: one step for each thing put back, in the
order of the code, with the process killed between any two. A restore that fails is noted
and passed over (`ok`); a root that could not be emptied may stand or be half gone
(`RestoreRoots`, `Remains`; the local root and the server's are one step, which may stop anywhere). The history variable `torn` says that a rollback went so wrong that its
component promises no more: in `GuidedSetup` that it was killed or could not undo the roots or
the credentials, in `InstalledSetup` that the record could not be put back, in
`SetupMigration` only that it began after the record was replaced. Everything else
(a restore of the connector, of the grants, of the files beside the record that fails, and a kill
anywhere in a change of provider or earlier in a migration) is inside the promise.

`StagedRoots` moves one directory at a time and takes back what it
moved; a killed process leaves things as they are, and so does an undo that raises
(`UndoFails`), which leaves the root it was at standing, half removed (`"remains"`), or gone.

### The two sums

`MCInterfaces` and `MCInstallation` each put several components side by side:
the variable `subject`, chosen at the start, names the one a behaviour is about, and
the others stand still. The components of a sum share no variable, so
nothing is lost by not interleaving them, and the state space is the sum of theirs
and not the product. A property of a sum is the conjunction of what one
component promises, its type invariant included.

## 3. Runs

| Run | Instance | Shows |
| --- | --- | --- |
| `ew_recovery` | one write, one approval and one permission, two calls, one recovery, one retry, with fairness | `RunsOnlyAuthorised`; `ClaimsHold`: one runner, receipts with finalized claims, revisions that identify a claim, the lease; orphans need a recovery; `WorkEnds`: calls end and runs settle |
| `ew_two_writes` | two writes, two payloads, two approvals | an approval runs only the write and content it names |
| `tg_recovery` | two pollers, one processed update, two acknowledged recoveries and retries, with fairness | no turn repeated, no reply shown twice; `TablesAreTrue`: what is recorded agrees with what the chat saw, the attempt limit holds, settled updates stay; saved replies are sent |
| `tg_backlog` | two pollers, two processed updates, with fairness | no update lost, and none blocks the next |
| `tg_pairing` | one bot, two updates | *violated*: the first poll after a pairing gets the pairing code again |
| `dec_race` | two decisions, two texts, two identifiers, three calls | consent is to what was shown; `OperationsAreFaithful`: one effect per identifier, faithful replays, a version names one content; the operations are atomic |
| `dec_reused` | two calls, one identifier | *violated*: a failed operation's payload is replaced by another |
| `rr_recovery` | two steps, one retry, a ceiling of one unit, three calls with names of their own, one recovery | attempts, costs, the receipt; `ProgressHolds`: results only grow, and the lease |
| `rr_restart` | two steps, two calls, one recovery | *violated*: a step is executed after a failed one |
| `rc_races` | three contracts, two routines, two runs, two keys, two calls of `start_run` | `ContractsGiveWay`, `RunsAreSound`, `RevisionsAreSound`: one contract in force, one run for a key, a revision revises what was in force |
| `interfaces_sum` | seven components, see below | turns, sessions, dialogue, grants, context, model runs, pairing |
| `installation_sum` | twelve components, see below | migration of stores, connectors, watches, setup, change of provider, migration of setup, roots, personas, trials, delegation, selections, forecasts |

Bounds. Two rival callers and one recovery are enough to break exclusivity if
the guards allow it, since each property names at most two callers and one row;
the mutants confirm it. Two updates are the least with an order, a batch and a
gap. Three calls on a decision allow a start and two rivals; the second decision
and identifier let an identifier be reused for another decision.
Attempts are bounded by the code's own limit; acknowledgements by `MaxAcks`.
For routines two steps give a first and a last one, one retry gives a second
attempt, and the ceiling of one unit lets one of two steps be paid for; three calls
are an owner, a rival and the one that is recovered to. The revision of a run is
bounded by the attempts and the calls, recoveries by `MaxRecoveries`.

In `interfaces_sum`: two messages and one post in a created session and a chat's
session; three sessions and two callers, with `MaxRev` revisions of the
selection; two decisions, one operation identifier, two tokens and one receipt kept, so
that a token can be dropped; one cloud and one local destination, two
categories, two pages and two starts, with `MaxGrants` versions; one record that may
expire and three operations on it, with `MaxVersion` versions; every message and every answer of a
model run; one bot, one private chat and one group, three updates, two polls of a
pairing. In `installation_sum`: two starters on each of the six stores, with one legacy record,
one late and one new; two connector services on one document; two watch services, two budgets and
one source; one cloud provider and a local one, so that a change can come from
either and go to either;
two other files and one edit for the migration; two server roots; two persona commands, with
`MaxRevision`; two trial commands on two revisions of the product, with `MaxVersion`; two
pieces of evidence, two model calls, so that the second finds a budget the first has spent from, and one
use of each other kind, with an overrun of one; lists of three goals or findings
and of five messages, the least with a gap and a half turn; two forecasts and two revisions, of
one content, as more is more than the run can hold: one forecast is then
told from another kept in its place by what it supersedes, and the theorem covers any number and any contents.
`MaxRev`, `MaxGrants`, `MaxVersion`, `MaxRevision`, `MaxEdits`, `LastUpdate` and `MaxRecoveries` bound
counters the code does not bound.

`CHECK_DEADLOCK FALSE` stands in every configuration, because calls are used up:
when all have ended the modelled part of the system has nothing left to do, as
the program has when nobody uses it.

Fairness. `ExternalWrites!FairSpec` assumes weak fairness of each call's own next
step: the interpreter goes on with sequential code, SQLite's busy timeout ends
in a result or an exception, and an adapter returns or raises. It does not
assume that a caller never crashes, that anybody recovers, approves or retries.
`TelegramDelivery!FairSpec` assumes it of each poller: `run_forever` loops while its
process lives. Nothing is assumed of Telegram, of users or of the operator, and the
liveness properties except the case that every poller died.

The other components are straight-line code between their steps, so that a
call ends needs no run of its own. What is *not* live, because nothing in the
program does it, is said where it matters: a turn left pending by a killed process stays
pending, and a claim left behind needs a recovery nobody calls.

### Findings

* `dec_reused`: application.py:650-651 says that any payload change under a used
  operation identifier is a conflict. The comparison is made in an earlier
  transaction than the write, and `_upsert_operation` replaces a failed record
  whatever its payload: the pending input of the failed call is lost.
* `rr_restart`: a routine contract in tests/test_routines_watches_briefings.py:41
  says "record failure and wait for the next trigger". `resume_run` saves the
  failed step as passed before it finalizes the run; if the process dies or the
  last transaction raises in between, the next call executes the steps behind
  the failure, in the same run.
* `tg_pairing`: tests/test_telegram_runtime.py:341-408 asserts that the first poll
  after a pairing delivers the first message the pairing did not see. It goes
  through `setup_telegram_polling`, which hands on an offset and which nothing in the
  program calls; `_setup_telegram` hands on none, and the first message the model gets is the
  pairing code.

Further disagreements that have no run of their own. The first six are defined
in the modules named, where TLC finds them violated:

* `GuidedSetup!DraftCanFinish`: a failed or killed activation says "Run reckoning setup to
  resume", but every step is done and the accepted conversation was in memory only, so
  the next run ends with "Activation requires an accepted first conversation". A draft may also
  name a private persona whose definition is gone.
* `InstalledSetup!DefaultIsVerified`: config.py:183 says an unverified credential "cannot be a
  default"; saving the settings of a failed test of the default provider makes one.
* `ModelRuns!FailureCountsCalls`: tests/test_cloud_provider_run.py:180-183 asserts the count of
  an unreachable provider; an answer cut off before any text is recorded with no calls.
* `Personas!ActivePersonaExists`: personas.py:1059 says the active persona must be replaced before it
  can be removed; the check is made before the lock, and a selection may come in between.
* `SetupMigration!RecordNamesCurrentFiles`: the plan shown to the user says (setup_workflow.py:2980) that
  "the activation record is written last so an interruption leaves a valid legacy or migrated
  installation". When the commit fails after it replaced the record (its `chmod`, line 3134), the
  rollback restores the files in the same order, the record last again: killed in
  between, or unable to restore the record, it leaves a current record beside files of the
  earlier format. `RecordComesLast` is what does hold.
* `Forecasts!ProposalReplacesNothing`: tests/test_forecast_revision.py:15 says that a material change
  "proposes revision without replacing current forecast". `propose_revision` saves the proposal under
  the identifier its caller gives (research_forecasts.py:375), and under that of the active forecast
  it is planned with at once. The tests, its only callers, use a new one.
* external_write_store.py:48-49 says that the authority *recorded at claim time* is
  checked again; `dispatch_execution` (line 762) checks that some authority is live, so a receipt
  can name a permission that was revoked.
* `_upsert_operation` raises `ReckoningOperationConflict`, which continuity.py:221
  explains with a different payload, for the loser of two identical concurrent calls
  too. `claim_run` raises `RoutineRunClaimConflict`, which automation.py:15 explains with
  another worker's claim, for a run that was finalized after the caller looked for its
  receipt.

What modelling showed besides, where the code contradicts no text: an exchange about a decision is in the
transcript twice when its completed operation is retried; a first session may be created twice by
two requests, and a created one may replace a selection; the rollback of a failed change of provider puts
back a scope that was withdrawn meanwhile, and keeps the new key; a process
killed between the two moves of an installation leaves a local root without its server root; a watch's budget is
per run; a trial's evidence recorded without an expected revision may count for another one; accepting two
revisions of one forecast keeps the second's changes only; a goal that fits to the last hundredth of an hour
may be displaced by the rounding of floats; the rollback file
of a migration may bring a deleted record back in the one order `late` marks.

## 4. Proofs

Every safety invariant and every action property that a passing run checks is
also a theorem, so what a run shows of a small instance holds of every one. The
proofs assume what the modules state as assumptions and nothing else: that `None`
and `Nothing` are no identifiers, texts, rows or records (they stand for Python's
`None`); that calls and recoverers, messages and posts, cloud providers and those
on the machine, and the instance file and the other files are different things;
that bounds, limits, sizes and costs are numbers, with at least one version to
count from; that every call of `resume_run` has a worker name; that the setup offset
is within the numbering of the updates; and that some constants are of the kinds
they are named for (the first revision is a revision, records that expire are records). The only sets assumed finite are `Sent` and
`Sources`: a session reserves finitely many turns, and a watch has finitely many
sources, whose costs are added up.

A run checks several promises of one component under one name; the theorem of that
name (`ClaimsHoldCorrect`, `OperationsAreFaithfulCorrect`, `ProgressHoldsCorrect`,
`ContractsGiveWayCorrect`, `RunsAreSoundCorrect`, `TablesAreTrueCorrect`) puts
together what is proved of its parts, which is as follows.

*ListFacts.* Induction over data is out of the prover's reach as a rule to
cite, but not as an argument: `Least` says that a nonempty set of natural numbers
has a least element (from `WFMin`, which takes no operator), and a least
counterexample does what an induction would. From it: a bounded set has a greatest
element; the recursive sum of a list is a number, grows with its terms, and differs by what
is in the one place where two lists differ; and a finite set can be listed in any
strict total order (`ListedIs`, by counting the elements below each).

*ExternalWrites.* `TypeCorrect` first, with two facts it needs: a finalizing
caller has a result, and a caller past its first step has a write. The safety
properties are not inductive: `OneRunner` speaks of attempts, which say nothing
of the claim that allowed them. `Ownership` supplies the link. For every caller:
a row it owns is the row of its write (`OwnsItsWrite`); the state of that row
follows the caller's place in `execute()` (`RowFollowsOwner`); attempts come after
a dispatch that saw an authority (`RunFollowsDispatch`); a caller that dispatched
still owns its row unless a recovery recorded itself (`DispatchedKeepsRow`); and a
row a recovery inspected is unchanged as long as its revision is (`SawARow`).
With it `OneRunnerCorrect`, `RunsOnlyAuthorisedCorrect` and
`RevisionIdentifiesClaimCorrect` are immediate. `FinalizedWithReceiptCorrect` needs it
because an abort ignores the state of the claim: only because an owner that may
abort is not yet finished does a finalized row stay so. `LeaseCorrect` maps every
step to a step of `ClaimLease` or a stutter. `RunsWhatWasApprovedCorrect` has an
invariant of its own, `ContentInv`: what a caller read is what the store still
holds, because a prepared write and an approval never change (`StoreKeeps`), and the
approval in its claim names the write and the content it read. `OrphanNeedsRecoveryCorrect`
shows of each step that it moves the row of a dead caller only if it is a recovery.

*TelegramDelivery.* Three invariants. `RowsTrue` ties the delivery state and the
attempts of a row to its processing state and to what the chat saw.
`ReceivedInOrder` says that what lies below the offset, or between the updates of a
batch about to be accepted, is in the inbox; `NoUpdateLost` is a case of it.
`WorkTokens` and `ReplyTokens` count: the turns that were run, the pollers that
may still run one and the claim that is still open add up to no more than one and
the repetitions an operator accepted, and the same for the reply. A poller that
lost its claim may still run its turn, so who owns the row is not enough; the
sum is what no interleaving changes. `Move` reduces the actions to the dozen kinds of
step the invariants can tell apart.

*DecisionOperations.* The step that matters is the commit: it must find the
decision the caller read, unconfirmed, and leave nothing undone. `Progress` says
what a step may do to the store (a decision gains one version at a time until it
is confirmed, completed operations stay, effects are not undone), and `OthersKeep`
that this is all a caller needs of the steps of others. `IInv` adds what each
caller knows: the decision it changes exists (`Known`), the version it read names
the decision it read and is the one it was shown (`Snapshot`), what it found
confirmed stays so (`Settled`), and a replayed operation is complete (`Replayed`);
with what the tables hold: a stored decision is what its last effect made it
(`DecisionInv`) and a completed operation made its change or acknowledged one
(`OperationInv`). `CommitStep` and `QuietStep` are the two kinds of step, and each
action is one of them. `AppliesToWhatWasShown` then rests on
`ConfirmedShowsTheSame`, a fact about the value: confirming adds a version to every
current record and changes no meaning. `ActsAtomicallyCorrect` follows because under
`Snapshot` the save computes on the current decision.

*RoutineRuns.* The theorems rest on one observation, which does not need
worker names to differ: at most one call knows the revision of the claim
(`OneCurrent`), and that call holds an active claim and has the stored run as its
copy (`CurrentHolds`). Every save needs the revision and gives it to its own call
alone; a claim, a release and a recovery give a revision nobody else has. So the
stored run only becomes later, in the order of steps and attempts (`Later`), and
an attempt that was saved stays saved (`SavedIn`, `ExecutionsSaved`). A call that is
about to execute has an attempt later than every saved one, so nobody else has it
(`ExecutingSaved`). `AttemptsNumberedCorrect` follows. `SuccessExecuted` and
`ReceiptFinal` carry the receipt; `LeaseCorrect` uses that a call that may finalize
holds an active claim. `BudgetKeptCorrect` adds that every copy, and a result about
to be recorded in it, is within the ceiling (`BudgetInv`), and `SumAppend` takes the sum
one result further. That workers may share a name is covered by the
theorems alone, since `rr_recovery` gives each call its own.

*RoutineContracts.* A confirmation supersedes every other confirmed contract of
its routine in its own transaction, and statuses only go forward (`Forward`), so
what `start_run` saw confirmed stays confirmed or superseded
(`CallersUnderContract`). `RevisionsAreSoundCorrect` needs `VersionInv`: the versions of a
routine are bounded, so they have a greatest one, and the next is above all of them.

*InterfacesProofs.* Each component has an inductive invariant, and a step of
the sum is a step of one of them or leaves it alone. Of the turns, `TurnsInv`: the
history a call loaded is a beginning of the transcript, and while the session is at the revision a call expects,
what was added since is of turns that were pending when it was read (`CallHolds`). That is
why the comparison in `reserve_turn` is enough for the order of the transcript; `Moves` is
all a call needs of the steps of others. Of the dialogue, `DialogueInv`: a live receipt
names a version that was shown, an effect is the operation stored under its
identifier, and a reply about to be applied was shown or its operation is taken. Of the grants, `GrantsInv`:
a run began at a version its destination has reached (`RunsKnown`).
Of the context, `ContextInv`: what an operation has read is the current version until somebody saves another
or the record is suppressed (`ReadsStand`). Of a model run, `RunInv`: what each stage has not yet done, and
that what was spoken is on record. Of the sessions, `PageBehind`; of the
pairing, that what is held or accepted did arrive and that every chat in the
settings, in a pairing and in a poller is a private one that gave the code (`ArrivedFirst`, `OwnersKnown`).

*InstallationProofs.* The same for the twelve components around an
installation. The long one is `StoreInv`: what the legacy file, the rollback
file, the marker and the database say of each other (`FilesStand`), what a deletion has left
nowhere (`GoneStand`), and what a start knows at each of its places (`Stands`). It holds
of all six stores at once, since it is indifferent to where in its way a
store takes the digest. `SetupInv` follows the wizard, the activation and its undoing part by part;
`ChangeInv` says that what a rollback puts back has its grant: once the record is put back, the provider
it names has its grant both in the file as it is and in the one that was captured, so that a
restore of the grants may come or fail; `MigrationInv` says that a
file nobody edited since its backup is as it was captured or as the backup has it (`Behind`), and that a
rollback that began in time finds a legacy record and keeps it; `RootsInv`
says which of the targets are in place. `ForecastsInv` says of every identifier, not only of the active one,
that what was agreed to under it supersedes only what was agreed to. `WatchInv` says of every memory, not only of
the file, that what it has confirmed was agreed to; that the cost of a run's findings is a number is a least
counterexample on the size of a set. `SelectionInv` is the argument for the greedy loops: what was
passed over did not fit with the *better* items taken, so whoever takes it instead has
too much, and where a rival first differs from the loop it is the loop that took. A goal that only the
floats passed over would have used up the hours, which a rival that leaves hours over cannot do.

What stays with TLC. The liveness properties (`WorkEnds`, `ReplyIsSent`,
`AcceptedIsTakenUp`): liveness under fairness is outside what the proof system can do.
The three properties of the violation runs, which are false. And what no theorem adds
to a run: that the properties can be broken by a plausible bug, which the mutants show.

## 5. Plan

What could follow, in this order:

1. `VersionedRecord`, an abstract compare-and-swap register, and a refinement from
   `Trials`, `Personas`, `ProcessingGrants` and `PersonalContext`, proved like the lease.
2. A refinement of `TelegramDelivery`: one update as a job of an abstract queue that
   hands it out once, and once more for each accepted repetition; the token counts are its
   invariant already.
3. A refinement of `ConversationTurns`: a session as a log to which whole exchanges are
   appended, with `TurnsInv` as its invariant.
4. A composition of `ConversationTurns`, `ModelRuns` and `ProcessingGrants`: one message from page
   to transcript with its grant and its record.

## 6. Not modelled

* Rendering, wording, routing, argument parsing, encryption, provider protocols and
  terminal input (`terminal.py`, `setup_terminal.py`, `setup_copy.py`, `command.py`,
  `presentation.py`, `config.py`): they keep no state that two steps could disagree on.
* The evaluation harness (`conversation_evaluation.py`, `evaluation_web_driver.py`), which is not
  part of the running program.
* The in-memory test repositories; the unguarded `save_proposal`, `save_run` and
  `save_receipt` of the routine store, which no service calls; `bind_run_authority`.
* `memory_maintenance.py`, `setup_telegram_polling` and the research half of
  `research_forecasts.py`, which nothing but tests calls.
* The Telegram webhook, an alternative to polling, which shares the adapter but not the inbox.
* The version 1 to 2 migration of the interface database, one transaction over rows of the older form,
  and the renaming of personas.
* Backups read the stores one after the other while the program runs; what such a copy of several moments
  amounts to is not stated anywhere, so there is no property to check.
* The digests: two payloads whose joined texts coincide have one digest in the code.
