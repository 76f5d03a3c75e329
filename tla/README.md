# Verification of OpenClaw Research Agents

TLA+ models of the parts of this repository whose correctness depends on the order of
events: calls that interleave between their awaits, processes that die between two writes,
requests whose answers never come, queues and limits. The models are checked with TLC on
small instances, and their safety is proved with TLAPS for every value of the
constants. `PROJECT.json` lists the runs, the theorems, the hazards and, under `map`, the
lines of the source that each definition stands for.

## How to run

    tlc -config MCMutationControl_concurrent.cfg MCMutationControl.tla
    tlapm MutationControlProofs.tla

Each `MC<Module>_<question>.cfg` is one run; `MC<Module>.tla` instantiates the component.
Variants of a definition named `<definition>_<fault>` are the same code with one plausible
fault. No specification uses them: putting one in the place of its definition must make the
property named with it in `PROJECT.json` fail.

## Inventory

The program is a set of Node.js processes around a governance core. Everything durable is a
file: a JSON state written to a temporary file and renamed, or an append-only NDJSON file
whose records are chained by hashes. JavaScript interleaves only at an `await`, so a stretch
of code between two awaits is one step of a model; files outlive the process.

### Governance core (`src/security`)

| Part | State | Operations | Works with | Hard behaviour | Correct when |
|---|---|---|---|---|---|
| Publication protocol, `mutation-control.js` | `outboundMutation`: enabled, kill-switch, last sequence, pending and committed publications | prepare, commit (two transactions around a request), retry, reconcile, hydrate, kill-switch, enable | governance transactions, provider over HTTPS, mutation log | two calls on one sequence; answer lost or late; crash while in flight; operator against a late answer | committed once; one sequence per key; each attempt sent once; nothing executed is forgotten; in-flight records settle |
| Governance transactions, `api-governance.js`, `state-manager.js` | state file, research records, mutation log, promise chain | load and reconcile, run handler, append, persist | every MCP method | crash or failed write between two files; overlapping transactions; a handler that throws | sequences 1, 2, 3...; state never ahead of records; nothing reported is lost; log verifies; every call settles |
| Governance limits, same files | usage windows, attempt accounting, breaker states | count a request, count an attempt once, open and close breakers | transactions, breaker | window boundaries, dedupe expiry, a violation counted by a handler that throws | limits never exceeded; an attempt charged once |
| Operator and role authorization | single-use tokens | issue, validate, consume | transactions | token consumed before the transaction it authorizes | a token authorizes one action |
| Startup integrity, `phase7-` to `phase14-startup-integrity.js` | none | checks in a fixed order before the server listens, and before the first mutation | MCP service | a fault that appears between two checks, or stays in the files for good | nothing is handled on a deployment that was faulty when looked at |
| Runtime policy, prompt sanitizer | none | pure validation | all | - | - |

### Bridge (`src/openclaw-bridge`)

| Part | State | Operations | Works with | Hard behaviour | Correct when |
|---|---|---|---|---|---|
| Mission orchestration, `core/spawn-orchestrator.js`, `core/lane-queue.js` | durable lane queue and open loops; in memory: in-flight, completed and failed subtasks, lane limits, checkpoints | enqueue and register, dispatch, settle, time out, scale lanes, checkpoint, fail, resume | runtime state, role router, comms bus | subtasks settle in any order; unlocked read-modify-write of the runtime state; late answers after a timeout; crash | dependencies first; lane and key limits; no deadlock; unfinished work is kept; checkpoints complete |
| Mission lifecycle, `core/agent-spawner.js`, `core/restart-resume-orchestrator.js` | mission status file | approvals, spawn, resume, teardown | orchestration | failure of one step of many; resume against work of an older process | a mission ends in one status; resume executes what is unresolved |
| Research tasks, `core/supervisor-authority.js`, `core/agent-engine.js`, `core/governance-bridge.js`, `core/interaction-log.js` | receipts, status in memory, output index, interaction log, drafts, two records of an execution, breaker | approve, run behind the breaker, call the model, save, draft, record, catch a failure | model adapter, governance transactions | a step fails after the output was saved; two calls of one task; one failed append refuses all later ones | no output of a response that was not logged; no logged response is lost unless a writing is cut off; completed means drafted and recorded |
| Persistent store, `state/*` | debounced snapshot, runtime state file | scheduleWrite, flush, close; load-change-save updates | supervisor, orchestration | updates of several writers overlap; close during a write | last snapshot persisted; unfinished work kept |
| Supervisor, queue, breaker, `supervisor/*` | request queue, breaker per skill | enqueue, process, import and export state, half-open probe | persistent store | a probe's lease that nobody gives back; late answers of calls started while closed; queue at its limit; a shutdown during a write | no lease is orphaned; trips in time; order of arrival; a restart resumes what a shutdown left |
| MCP service and gateway, `mcp/*`, `bridge/bridge-auth.js`, `bridge/server.ts` | tokens, streams, rate counters, hydration | resolve a principal, accept, read the body, handle, hydrate | governance core | a token revoked while its request's body is awaited; a stream closed under a message; the minute changes between two counts | handled with the right it was accepted with, within the rate |
| Bridge jobs, `bridge/state-store.ts`, `bridge/worker.ts` | jobs in memory and in one file, queue of the worker, inbox | create, cancel, take, deliver, end, recover | comms files | writings that overlap on one temporary file; an exception that ends the worker's loop; a crash while a job runs | no job is forgotten; a withdrawn one is not delivered; a lone writing stores the memory |
| Release bundle and evidence, `monetization/*` | bundle of an offer, approval, two pairs of chained ledgers, attachments, derived snapshots, lock files | generate, approve, export, record an outcome, verify, rebuild | files of other commands | commands overlap at each file operation; a crash between two of them; the bundle is generated again | what is left verifies; a key names one outcome; a delivery follows its submission; no event is rewritten |
| Dataset pipeline, `dataset/*` | files of a build, index of builds | collect, validate, deduplicate, trace, score, clear, store, index | outputs of tasks | two processes build at once, one dies between two files; a source changes under the same id | a ready build holds cleared rows only; one computed id, one set of rows; what is offered is ready |
| Communications bus, Sider handoff, adapters, execution sandbox | message files | synchronous writes and pure computations | all | - | - |

### Workflows (`src/workflows`), analytics and scripts

| Part | State | Operations | Works with | Hard behaviour | Correct when |
|---|---|---|---|---|---|
| Access control | tokens, sessions, decision ledger, queue of appends | issue, rotate, revoke, open and close sessions, evaluate | file stores | stores change at once, the ledger later; one failed append rejects those behind it | the ledger never allows after it revokes; a granted answer is recorded; one successor per token |
| Experiment governance | experiments, assignments, analyses, decisions, active profile, ledger | create, move, assign, capture, decide, repair | governance transactions | an analysis computed before its transaction; decisions on several experiments | the profile is the last adoption that stands; keys are written once; nothing is recorded once the lock is broken |
| Operator actions: restore, runbook, dependency update, escalation | approval tokens, overrides, operational decisions, kill-switch | approve, check, take effect, record twice | governance transactions, executors | a crash or failure between effect and record; the kill-switch while a call waits | each effect has one token of its kind; records in order; no effect of a call the switch was closed to |
| Recovery assurance | checkpoints, manifests | checkpoint, build, verify | evidence files | files and manifests change in between | what verifies is unchanged |
| Compliance governance | attestations, bundles, decisions, ledger | attest, bundle, decide, repair | governance transactions | a stale or replaced bundle; a truncated ledger | a release is allowed on fresh evidence that passes; the ledger follows the decisions |
| RLHF drafts, packages, outcomes | drafts and queues, artifact files, package files, outcome chain | run, review, package, verify, record, repair | governance transactions, files | runs and builds that overlap; a crash between state and artifact | a paper is drafted once; an artifact shows a stored state; a mixed package is reported; an outcome is recorded once |

Observability, governance automation, supply chain, attestation, incidents and research ingestion
compute reports from files, but for the ledgers above. Analytics and most scripts have no state.

`PROJECT.json` lists every component with its status and the reason for what is left out.

## Modules

A step of a model is what runs between two awaits, unless said otherwise. A process that
crashes loses its variables and keeps its files.

| Module | Models | Proved in |
|---|---|---|
| `MutationControl`, over the abstract `PublicationLedger` | `security/mutation-control.js` | `MutationControlProofs` |
| `GovernanceStore` | `security/api-governance.js` (transactions), `state/state-manager.js` (the chain), `mcp/base-mcp.js` (records of a request) | `GovernanceStoreProofs` |
| `SpawnOrchestrator` | `core/spawn-orchestrator.js`, `core/lane-queue.js`, `core/agent-spawner.js`, `core/restart-resume-orchestrator.js`, the runtime state of `state/persistent-store.js` | `SpawnOrchestratorProofs` |
| `CircuitBreaker` | `supervisor/circuit-breaker.js`: operators on one entry | `SupervisorProofs` |
| `PersistentStore` | `createPersistentStore` of `state/persistent-store.js`: operations of the debounced store | `SupervisorProofs` |
| `Supervisor`, which composes the two before it | `supervisor/supervisor-v1.js`, `supervisor/request-queue.js`, `state/state-manager.js` | `SupervisorProofs` |
| `ReleaseBundle`, `Evidence`, `Release`, which composes both | `monetization/`: the bundle of an offer, the evidence kept of one kind, and all commands on one offer | `EvidenceProofs`, `ReleaseProofs` |
| `AccessControl` | `workflows/access-control` | `WorkflowProofs` |
| `OperatorActions` | `workflows/recovery-assurance/restore-orchestrator.js`, `runbook-automation`, `supply-chain/dependency-update-governor.js`, `incident-management`, `security/operator-authorization.js` and the two ledgers they write | `WorkflowProofs` |
| `BridgeJobs` | `bridge/state-store.ts`, `bridge/worker.ts` and the job routes of `bridge/server.ts` | `ServiceProofs` |
| `TaskExecution` | `core/supervisor-authority.js`, `core/agent-engine.js`, `core/governance-bridge.js`, `core/interaction-log.js`, `core/research-output-manager.js` | `ServiceProofs` |
| `Gateway` | `bridge/bridge-auth.js`, the MCP routes of `bridge/server.ts`, `bridge/mcp-transport.js`, `mcp/mcp-service.js`, `security/phase7-` to `phase14-startup-integrity.js` | `ServiceProofs` |
| `GovernanceQuota` | the limits of `security/api-governance.js` | `ServiceProofs` |
| `ExperimentGovernance` | `workflows/experiment-governance` | `WorkflowProofs` |
| `ReleaseDecisions` | `workflows/compliance-governance` | `WorkflowProofs` |
| `RecoveryAssurance` | checkpoints, manifests and verification of `workflows/recovery-assurance` | `WorkflowProofs` |
| `DatasetPipeline` | `dataset/`, for the builds of one dataset | `ServiceProofs` |
| `DraftWorkflows`, `ManualPackage`, `DraftOutcomes` | `workflows/rlhf-generator`, `workflows/rlhf-review.js`, `workflows/rlhf-outcomes` | `ServiceProofs` |
| `Workflows` | every component from `AccessControl` on, side by side, one at work at a time | `WorkflowProofs`, over both |

### MutationControl

A sequence's pending record is `dispatch`, `allowRetry`, `retryCount` and `deadline`; its
committed records are counted. A payload is its idempotency key (provider and canonical
payload hash), a model value. Each of `Prepare`, `BeginAttempt`, `Finalize`,
`MarkUncertain`, `ConfirmCommitted`, `ConfirmNotCommitted`, `Abandon`, `SetKillSwitch` and
`SetMutationEnabled` is one governance transaction, so one step, with the checks of its
handler in the order of the code; a handler that throws persists nothing. `Send` and the
answers are steps in between. The provider (`Accept`) may execute a request at any time
after it was sent and whatever the caller sees. `RetryCheck` is the first transaction of
`retryPublication`, whose result is stale when the commit begins.

`PublicationLedger` is the promise seen by key: opened once, published once, from open only and
on grounds only: the provider has executed the payload, or the operator has confirmed it
(`confirmed`). That the provider executes a key no more than once is its own affair, as the code
relies on its honouring the key, and no part of the promise. `ImplementsLedger` is the
refinement, with the status of a key computed from both lists and the grounds from the answers
and the rulings there have been.

### GovernanceStore

The steps of a transaction are `Load` (with the reconciliation of `loadState`),
`AppendResearch` or `AppendAudit` (the append-only file) and `Commit` (the state file),
because a crash or a failed write may fall between any two of them. `chain` is the promise
chain of `createStateTransactionWrapper`. `AppendEvent` is the third user of a transaction: the
governance bridge stores the decisions and executions of tasks in the file of the research
records, without a sequence (`unsequenced`). The next start then fails in `verifyStoredReplay`,
which `Startup` checks in full, so `SequencesContiguous` speaks of the records that have a sequence
and promises nothing of that check. A record is its sequence, an entry of the mutation
log its id and the hash before it; a hash stands for the entries that it covers.
MutationControl takes from here that a transaction is atomic for its readers
(`ReportedIsStored`); its own crash cases do not include a crash inside a transaction.

### SpawnOrchestrator

`queue` and `runtime` are files, everything else is memory. The scheduler is a sequence of
steps that no callback may enter: `loop` says where it is, and `Yields` where it awaits.
A call of `runSubtask` is `at`, `task` and `read`; completing it loads the runtime state,
saves it with its loop resolved, and wakes the scheduler. `executePlan` of the spawner
records the status in the runtime state with the same lock-free load and save. A resume
requeues open loops in the order of their identifiers and executes them one by one. The plan
is a constant: what `buildPlan` returns, a subtask depending on earlier ones only.

### CircuitBreaker, PersistentStore, Supervisor

The breaker's operations run within one step of their caller, so they are functions of an
entry: time is whether `timeoutMs` has passed. `PersistentStore` has the waiting snapshot,
the timer, the write in progress and the flushes that queue behind it; a write that fails
drops its snapshot. `Supervisor` calls both: `Execute` is the gate, `Succeed` and `Fail` the
settling of a handler; the processor takes a request and runs it whether the breaker admits
it or not. One skill is modelled, as skills share nothing but the file. A request is its
number in the order of acceptance.

### ReleaseBundle, Evidence, Release

Each command (`generate-offer.js`, `approve-release.js`, ...) is a process of its own, so here a
step is a file operation and a process may end between any two. `ReleaseBundle` is the directory
of an offer: generation removes the old directory and renames the new one into its place;
approval and validation hash what they read. `Evidence` is one kind of evidence in it: a call
takes the lock (`WithLock`), checks the approval, the target, the transition and the key, stages
its attachment, writes the ledger and rebuilds the derived snapshots, which no code reads and the
model leaves empty. `Release` instantiates `Evidence` for deliveries as well; an export records
both, the submission first (`HalfExported` is a process that ends in between). A hash is what it
is taken of.

### AccessControl

`tokens` and `sessions` change at once, with the decision; the entry then waits in `appendQueue`,
the chain of promises, until `AppendDecision` writes it. `AppendFails` breaks the chain: what
waits, and all that comes until a restart, is rejected, while the stores keep their change. The
legacy bridge answers before its entry is written, so it is left out of `AnswersRecorded`.

### OperatorActions, RecoveryAssurance

A call consumes its token (`Approve`), reads the state without the lock and looks at its
kill-switch (`ReadState`), and takes effect in a later step, when the switch may be set already:
the executor of a runbook or a restore does not look again (`Execute`), an update looks in its
governance transaction (`ApplyKnownGoodManifest`). Then it appends an override and a
decision in two transactions. A failure or a restart may come before each. `openTo` remembers the
calls to which the switch was open at some time since their approval, which is all that
`SwitchStopsEffects` can claim of a runbook or a restore. `RecoveryAssurance`
has the checkpoints and manifests of the evidence files, which change in between.

### BridgeJobs, Gateway

`jobs` is the memory of the store and `storedJobs` its file. A change is in memory at once;
`WriteTemporary` and `RenameTemporary` take it to the file, through one temporary name that all
callers share, so a rename may find the file gone (`WriteFails`) and an exception in the worker
leaves its loop for good. `Gateway` is the way of a request: `Initialize` with the eight startup
checks in their order, the principal of a bearer token, the streams, the count of the minute, and
`Accept`, after which the body is awaited and the token is not looked at again.

### TaskExecution

A call of `runApprovedTask` is `at` one of the awaits of `executeTask`. `RunLegacyTask` asks for
the receipt; `ExecuteTask` takes the steps of the engine up to the two records, and
`CatchFailure`, with its own steps, is what a failing one leads to. `taskIndex` is the output that
readers find; `unsettled` marks the tasks of which a call was cut short. The interaction log and
the index of outputs are rewritten in place: a writing that fails, or the end of the process in it,
may leave a file that does not parse (`LoseLog`, `LoseIndex`), after which every append, or every
save, is refused. `logged` remembers what the log has had.

### GovernanceQuota, ExperimentGovernance, ReleaseDecisions

Each operation is a governance transaction, so one step; a handler that throws stores nothing.
`GovernanceQuota` counts by the minute, hour and day of a clock, and keeps every count in
`history` for its properties. In `ExperimentGovernance` a capture is two steps, as its analysis is
computed from the state before its transaction. In `ReleaseDecisions` a bundle carries the
attestation it was built on, the results of its checks and its `asOf`, which the caller chooses.

### DatasetPipeline, DraftWorkflows, ManualPackage, DraftOutcomes

`DatasetPipeline` computes a whole build in `Begin`, under the identifier of its contents or one
that the caller names (`NamedId`), and then writes its rows, its metadata and the index in steps that
another process may overlap. Each file is emptied and written in place: `OpenRows` and `WriteRows`
are two steps, two writings of one file may mix, and a crash may cut any of them off (`Cut`).
`disturbed` marks the identifiers whose last writing was cut off or overlapped.

`DraftWorkflows` has the steps of `pipeline-runner.js` between its awaits: select from a snapshot,
store in a transaction, read the state again, write the artifact. Each reading of the state verifies
the drafts (`DraftReplayVerifies`) and ends the run when two share a source. A research task adds a
draft to the same state (`GenerateTaskDraft`), with a review item but no record of a candidate, and
without looking whether its source has a draft.

`ManualPackage` writes the three files of a draft one after another, each emptied first, and then
reads them back: the manifest, then file after file, while another build may rewrite what it has not
read yet.

`DraftOutcomes` has the chain of outcomes: verify at the first call (the state, then the artifact),
check the key in a snapshot and again in the transaction, refresh, write, verify. The artifact goes
through a temporary file whose name is the process and the millisecond, so two calls may share one
(`OpenTemp`): one of them then writes into a file that the other has renamed to the artifact already
(`Moved`, `Overlaid`), or finds nothing to rename. A repair reads the state, examines the artifact and
writes, in steps that take no lock. A write may fail in the middle.

### Workflows

Its components share no state, so `Workflows` extends each of them, under names that tell their
variables and actions apart, and lets one (`part`) take the steps while the others stay as they
start. `Parts`, a constant, says which components a run is about. `captures` and `rollouts` are two
bounded uses of `ExperimentGovernance`: one experiment whose captures overlap each other and an edit
of its fields, and two experiments, unedited, with one capture at a time. The properties are grouped by area: each names the properties of the
components that it stands for. `MCWorkflows` gives the constants their values. Each component has
a specification of its own besides (`AccessSpec`, `BridgeSpec`, ...), which the proofs are about.

## Runs and what they show

| Run | Checks | Shows |
|---|---|---|
| `publication_concurrent` | `CommittedOnce KeyAllocatedOnce AttemptSentOnce DeliveredNotForgotten` | safety of two overlapping calls with a restart and a failing storage |
| `publication_sequential` | `InFlightOwned OverdueNeedsRuling ImplementsLedger AttemptSettles` | what holds when the operator runs one call at a time, over restarts; the refinement; liveness |
| `publication_resent` | `NotResentOnceCommitted` | violated with two calls (finding 1) |
| `publication_abandoned` | `AbandonedNotRetried` | violated (finding 2) |
| `store_failures` | `SequencesContiguous StateNotAhead ReportedIsStored LogVerifies CallsSettle` | transactions under failed writes and a crash |
| `store_torn_log` | `OnlyTamperingBreaksLog` | violated (finding 3) |
| `mission_reruns` | `WorkPreserved BoundedConcurrency CompletedMeansAll CheckpointsComplete NeverDeadlocks DependenciesFirst` | two missions on one session with failures, timeouts and a crash |
| `mission_ends` | `MissionEnds` | a mission and a resume come to an end |
| `supervisor` | `NothingStranded LeaseOwned TripsInTime InArrivalOrder RestartResumes QueueMoves ShutdownReturns` | a caller and the queue over a breaker and the store, with restarts, crashes and failed writes |
| `release_evidence` | `VerificationPasses KeyRecordedOnce DeliveryFollowsSubmission AppendOnlyWithinBundle` | two commands at a time on one offer, with a crash and an edit of the bundle |
| `release_rewritten` | `NeverRewritten` | violated (finding 4) |
| `workflows` | `TypesOK AccessAccountable ExperimentsGoverned OperationsAuthorized DatasetsCleared DraftsConsistent ReleasesWithinLimits ServicesKeepTrack StepsPermitted` | the thirteen components of `Workflows`, each on its own small instance, with overlapping calls, failures and restarts |

The longest, `workflows`, visits 1.8 million states in about two minutes.

The types of the components that have runs of their own are left to TLAPS (`TypeCorrect`,
`EvidenceTypes`); the types of the others are checked by `TypesOK` and proved as well.

### Bounds

- Publications: two calls, since a hazard needs one call to overtake another; two sequences
  on one key, since keys meet only in `KeyIsPending` and `KeyIsCommitted`; three attempts, one
  more than a retry needs; one restart, two when calls are sequential.
- Store: two callers make overlapping transactions, three records of batches of two make
  batches that cross a failure, and one crash leaves each pair of files in every state it can
  have; a second crash starts from a state that the first one could leave too.
- Missions: two scouts and a synthesizer on both is the smallest plan with concurrency in a
  lane, a join and two stages. Two runs on one session show what the second one finds of the
  first. `MaxCalls` is what the lanes admit together.
- Supervisor: a threshold of one for failures and for successes, so that each of a few calls may
  move the breaker; a queue of two and two requests make it full, empty and refilled.
  `MaxFlushes = 2` is one flush behind the one that writes: only a shutdown and one timer can be
  behind it, and those behind the second one find what it left.
- Release: two processes, two keys and two outcomes let a key be used twice at once and an
  outcome follow another; one crash, one edit of the bundle, and a second build in
  `release_rewritten`. Processes, keys and contents are interchangeable, hence the symmetry.
- Workflows: two overlapping callers wherever calls overlap; one failure, restart, revocation,
  truncation or edit more than none, since each starts from a state the first could leave; limits
  of one, so that the second of anything is one too many; a clock of two or three ticks, which
  passes every window once. Three tokens give a rotation of a rotation; two experiments give an
  adoption over another; two jobs and two starts give a job found by a second process.
  One type of data sets, in which rows of several tasks can be equal; the labels of `classification`
  only keep them apart. One identifier that callers name (`CallerIds`) can hide two different builds;
  one answer of a task (`TaskSources`) drafted twice (`MaxTaskDrafts`) is the smallest way to a source
  with two drafts; one review of a draft falls before, between or after the two runs.
- Counters of attempts, failures and requests are bounded by guards of the actions that
  raise them; crashes, runs and resumes by constants. The supervisor's crashes are unbounded.

### Deadlock

The supervisor may always crash, so its run checks for deadlock, and `QueueMoves` and
`ShutdownReturns` say what may not be stuck. The other runs turn deadlock checking off: their
bounded counters let the system stop.

### Fairness

Only what the runtime schedules is fair: a call that has started goes on, because each await
is a file operation or a request with a timeout (`https.request` has one; a subtask races
the 300 seconds of `config/agent-spawner.json`), promises settle and timers fire. No operator, provider,
caller, crash or restart is ever obliged to act. Calls of a mission need strong fairness,
as they are disabled while the scheduler runs and ticks may interrupt them for ever. For the
supervisor a handler is assumed to settle: the code gives it no timeout.

## Findings

1. `NotResentOnceCommitted`: a second commit call is not refused while the record is in
   flight, and sends its request after the first one was recorded as committed.
2. `AbandonedNotRetried`: `allowRetry = false` is looked at for uncertain records only, so an
   abandoned publication is attempted again.
3. `OnlyTamperingBreaksLog`: a crash between the mutation log and the state makes every later
   startup fail with `MUTATION_LOG_CHAIN_INVALID`.
4. `NeverRewritten`: generating an offer again removes the directory of its bundle, and the
   export events, ledgers and attachments in it.

Behaviour at odds with a text of the repository that has no run of its own: the models have it, and
the properties make no claim about it.

- A record that the governance bridge stores has no sequence, and every later start of the MCP
  service refuses the file (`mcp-service.js:416`), with no crash and no tampering;
  `tests/security/api-governance.test.js:155` expects contiguous sequences (`unsequenced` in
  `GovernanceStore`).
- A task that runs again and is answered the same adds a second draft of its source, and every later
  pipeline run throws `RLHF_DRAFT_SOURCE_DUPLICATE` (`GenerateTaskDraft` in `DraftWorkflows`).
- The interaction log, "append-only and chain-hashed" in `docs/attack-surface.md:182`, is rewritten in
  place by every append: one that fails halfway, or a crash in it, loses all earlier responses
  (`LoseLog` in `TaskExecution`).
- A runbook or a restore acts on a state that it read before the kill-switch was set, although
  `docs/supervisor-architecture.md:103` says that the switch gates mutation (`Execute` in
  `OperatorActions`). Its executor is injected; the default one starts a script that finds no token
  and has no effect.

Behaviour that no text of the repository speaks against, and that the models therefore have
with no property against it:

- A half-open breaker may see a second probe: the answer of a call that was let through while
  the breaker was closed clears the lease of the probe, and counts for or against it.
- A snapshot whose write fails is gone until the next change schedules another, and a
  shutdown in between reports a flush that had nothing to write.
- A request accepted while `initialize` reads the file is replaced by what the file holds,
  and one accepted during a shutdown is never run.
- A commit already under way when `setKillSwitch` returns still sends its request.
- On a lane queue that a dead process left behind, a mission may stop with
  `PHASE18_SUBTASK_DEADLOCK`; a resume runs loops in no order of dependency, and again at the
  next resume, as nothing resolves them.
- Two subtasks that complete together may overwrite each other's resolution, and a resume then
  executes one of them again.
- A build named by its caller replaces the files of an earlier one under the same name while the index
  still has the old record; after a crash there the index offers rows that are gone or cut off.
- A repair of the outcomes, or a call that shares a temporary file, may leave the artifact short of the
  last records, or torn, until the next call rewrites it.
- A failed append of the access ledger or of the interaction log rejects every later one until
  the process restarts. The legacy access bridge answers before its entry is written.
- An operation whose process dies after its effect has no records, and its token is spent.
- Overlapping writings of the job index may leave an older state in the file, or end the loop of
  the worker, until the next start. A lock file of the evidence that a dead process left behind
  makes later commands time out until it is removed.
- An evidence bundle with a check that is not required loses it when it is read back, no longer
  matches its hash, and blocks every later gate decision until a bundle without is built.
- A truncated artifact of the outcomes cannot always be repaired: a last line that is cut within
  itself is refused by the reader before the repair looks at it.
- Limits are checked after the research service was asked; a count whose transaction fails is
  lost; a passed limit of publications opens the breaker of the requests.
- A receipt is not bound to a task and not consumed; `releaseHalfOpenLease` in the `finally` of one
  call may release the lease of another.

Met while reading and not modelled: `detectTamper` of the communications bus compares the hash of
the previous file, which an entry of the blackboard carries, with the chain hash of the previous
entry, so it reports every untouched blackboard of two entries. A split
of 0 to 10000 basis points is stored as 5000 to 5000.

## Proofs

Every invariant and every action property that a passing run checks is a theorem here, and so is
the refinement of the ledger. Every step of a proof is checked, and the theorems hold for every
value of the constants under the assumptions that the components name:

- bounds of counters are naturals; thresholds, lengths of windows, the rate of a minute, the starts
  of the bridge and the failures that open the breaker of tasks are positive, as the code's defaults
  and checks make them; there is a task; minimal limits of lanes are at most the maximal ones;
- `NoKey`, `None`, `NoProc` and `NoContent` are outside what they stand beside;
- a subtask depends on earlier ones; a ranking is a sequence of sources; each draft has a cohort; the
  faults of a deployment are among those that the startup checks look for;
- `Release` is written from the submission's side and has finitely many processes.

`InFlightOwnedHolds` assumes that no write fails, and `OverdueNeedsRulingHolds` that there is one
call at a time besides: both are false without.

| Theorems | Argument |
|---|---|
| `MutationControlProofs`: `TypeCorrect`, `CommittedOnceHolds`, `KeyAllocatedOnceHolds`, `AttemptSentOnceHolds`, `DeliveredNotForgottenHolds`, `LedgerImplemented`, `InFlightOwnedHolds`, `OverdueNeedsRulingHolds` | `LedgerInv` (an allocated sequence is in exactly one list and alone on its key), `AttemptInv` (a call in an attempt holds a counted number that no other call holds; one that is about to send has not sent it), `DeliveryInv` (only what was attempted is executed, and a record that is prepared or abandoned without a ruling was never attempted), `GroundsInv` (what a call is about to record as committed the provider has executed, and what the operator confirmed is committed). The refinement uses all four: a step is a stutter unless it moves a record between lists. `InFlightOwned` is inductive with `LedgerInv` while no write fails. |
| `GovernanceStoreProofs`: `TypeCorrect`, `SequencesContiguousHolds`, `StateNotAheadHolds`, `ReportedIsStoredHolds`, `LogVerifiesHolds` | Only the head of the chain runs (`HeadRuns`), so the loaded state of the running call stays true until it writes: `StoreInv` says that it is about to allocate the sequence after the last one stored, with or without records that have none in between, `RecordInv` that it counts all that was reported and, while every entry of the log was reported, holds the chain of them. |
| `SpawnOrchestratorProofs`: `TypeCorrect`, `WorkPreservedHolds`, `CompletedMeansAllHolds`, `DependenciesFirstHolds`, `BoundedConcurrencyHolds`, `NeverDeadlocksHolds`, `CheckpointsCompleteHolds` | `Counting` keeps the loops over subtasks and status writes in range. `WorkInv`: whatever any writer has loaded holds all unfinished work, since subtasks are registered only while no call runs. `ScheduleInv`: every subtask that was enqueued is queued, in flight, completed or failed, and a failure is fatal once the scheduler hears of it (`Accounted`); the dependencies of what is in flight have completed (`Supported`). `BoundInv` counts the calls of a lane. `OrderInv`: the queue of a first mission is ascending, so its head waits for nothing behind it. `CheckpointInv`: the last call of a stage, or of a threshold, to settle writes its checkpoint; `Stage` is recursive, and that it is defined follows from a least subtask for which it is not. |
| `SupervisorProofs`: `TypeCorrect`, `LeaseOwnedHolds`, `TripsInTimeHolds`, `NothingStrandedHolds`, `InArrivalOrderHolds`, `RestartResumesHolds` | `TripInv`: the count of a closed entry is the streak, in memory and in every snapshot. `StrandInv`: a snapshot that waits without a timer has a second flush. `ArrivalInv`: the queue and every snapshot are ascending, and above what was taken. `ResumeInv`: the newest of the waiting snapshot, the one being written and the file is the one last scheduled, and agrees with the queue until a shutdown clears it. |
| `EvidenceProofs`: `EvidenceTypes`, `EvidenceVerifies`, `EvidenceKeys`, `EvidenceAppends` | `EvidenceInv`, for one kind of evidence whatever the commands of the other do in between (`After`, `before`): who holds the lock is the only one whose ledger changes, so what a staged call has read is what it replaces, and its attachment is in place (`Staged`); without an approval there is no evidence (`StoreInv`). |
| `ReleaseProofs`: `SubmissionVerifies`, `SubmissionKeys`, `SubmissionAppends`, `DeliveryAppends`, `DeliveryFollows` | The invariant of `EvidenceProofs` for both kinds at once, since a step of one leaves the files of the other alone, and `CreditInv`: each delivery export, and each that is still to be written, is paid for by a submission export of its own, which gives `DeliveryFollowsSubmission`. |
| `WorkflowProofs`, access: `AccessTypes`, `RevocationFinalHolds`, `AnswersRecordedHolds`, `OneSuccessorHolds` | Stores change with the decision and the queue keeps the order, so `RevokedInv` is about `AccessDecisions`, the ledger followed by the queue: a token revoked there is revoked in the store, and no later decision uses it. `AnswersInv`: an entry that waits is that of its call, and a call is told only when its entry leaves the queue for the ledger. `RotationInv`: a token that has been replaced is revoked, and only a live one can be. |
| operators: `OperatorTypes`, `EffectsAuthorizedHolds`, `SwitchStopsEffectsHolds`, `RecordsInOrderHolds`, `RecoveryTypes`, `VerifiedIsUnchangedHolds` | `AuthInv`: a call that acts has a consumed token that no other call and no effect has. `LookInv`: a call that has passed its look at the switch is one that the switch was open to (`openTo`). `TodoInv` and `OrderInv`: what a call has recorded and what it has still to record are together the records of its operation, in order. `RecoveryInv`: the hash of a manifest is taken of what its checkpoint saw, whatever was written over its artifacts (`Built`). |
| experiments: `ExperimentTypes`, `ProfileIsLastAdoptedHolds`, `WrittenOnceHolds`, `RecordedUnderLockHolds` | The code computes the profile one decision at a time; the property says which adoption it must be. The proof follows the stack of adoptions (`Profiles`) beside the count of adoptions and rollbacks behind each of them, and shows that a new decision moves both alike. |
| compliance: `ComplianceTypes`, `AllowedOnEvidenceHolds`, `LedgerFollowsDecisionsHolds` | `ComplianceInv`: a gate that allowed stands on a bundle that is intact, passes and was fresh then, and nothing rewrites a bundle; the ledger is a prefix of the projection of the decisions. |
| all of `Workflows`: `TypesAreKept`, `AccessIsAccountable`, `ExperimentsAreGoverned`, `OperationsAreAuthorized`, `DatasetsAreCleared`, `DraftsAreConsistent`, `ReleasesStayWithinLimits`, `ServicesKeptTrack`, `StepsArePermitted` | A behaviour of `Workflows` in which a component is at work is a behaviour of its own specification (`AccessRuns`, `BridgeRuns`, ...), so its theorems apply. |
| `ServiceProofs`, datasets: `DatasetTypesHold`, `ReadyIsClearedHolds`, `SameIdSameRowsHolds`, `OfferedIsReadyHolds` | `DatasetInv`: a computed identifier stands for its rows, in every whole file, every record and every build under way, so that builds which overlap under one write the same; and of an identifier that is not disturbed, what its one build has written so far is its own and whole, or what the index has. |
| bridge and gateway: `BridgeTypes`, `StoredWhenAloneHolds`, `WithdrawnNotDeliveredHolds`, `NoneForgottenHolds`, `GatewayTypes`, `NoStartOnFaultHolds`, `HandledByRightHolds` | `FileInv`: unless writings overlapped, either none is under way and the file holds the memory, or one is and carries it. `WithdrawnInv`: a withdrawn job stays cancelled, and what the worker has or has delivered was begun. No job is forgotten, as a start requeues in the order of the file and the worker takes from the head. `GatewayInv`: a request that was let through is counted in its minute, and carries the right its token had then. |
| drafts: `DraftTypes`, `OneDraftPerPaperHolds`, `QueuesAgreeHolds`, `ArtifactShowsAStateHolds`, `PackageTypes`, `MixedPackageReportedHolds` | `Story`: drafts are numbered in order, reviews follow them, candidates name those of papers and of no task, and both queues share a counter; storing a selection keeps all of it, one candidate at a time (`StoredOnce`). `ShowsFirst`: an artifact and a reading show the first drafts as they are or were. `MixedInv`: a package that does not verify belongs to a build under way or to one that has reported it. |
| outcomes: `OutcomeTypes`, `OneRecordPerKeyHolds`, `ArtifactIsPrefixHolds` | `OutcomeInv`: what is in the artifact, and what any call has read, are first records of the state, which only grows; a key is looked at again in the transaction that writes it. |
| limits: `QuotaTypes`, `CountedInTurnHolds`, `WithinLimitsHolds` | `WindowsInv`: the counters stored for the current minute, hour and day are what `history` has counted in that window; a limit is checked before it is counted. `StoppedInv`: what was one too many, or a trip, keeps the breaker open until it is let go. |
| tasks: `TaskTypes`, `ResponsesAreLoggedHolds`, `CompletedIsRecordedHolds` | `LogInv`: a call saves or drafts only a response that was logged. `LogWhole`: unless a writing was cut off, the log holds all that was logged. `RecordInv`: an output that says completed belongs to a call that has reached its records or goes on towards them, unless it was cut short. |

What a recursive function computes (`Profiles` of the decisions, `SelectCandidates`,
`StoreCandidates`, `TokensOf` a window, `Stage` of a plan) is proved without induction over data:
were a statement about it false for some argument, there would be a least one, and the step before
refutes that. Only model-checked is liveness, which is out of the prover's reach: `AttemptSettles`,
`CallsSettle`, `MissionEnds`, `QueueMoves` and `ShutdownReturns`.

One proof corrected its property: `OfferedIsReady` was stated of an index that a crash had left
torn, too. A later build of the offered identifier then writes its files and is refused when it
loads the index, so the old offer and the new files may disagree, in a file that nothing can read.
The property is about an index that can be read.

## What could come next

The prerequisites of a mission before its plan runs; the queue of approved tasks, once something
calls it; one abstract chained ledger that the ledgers of the workflows refine; arguments for the
liveness properties (`~>` steps whose enabledness TLC confirms).

## Not modelled

Text and configuration policies, adapters of models and publishers, the execution sandbox,
analytics, reports and most scripts read files and compute results, with no order of events to
get wrong. The communications bus, the Sider handoff and research ingestion write within one
synchronous call, and nothing in the program acts on what they wrote. The approvals that precede a
mission are a sequence that any failure ends.

Contents of messages, papers and payloads, hashes (by what they cover) and file formats are
abstracted. A write is atomic, as most are (temporary file and rename), unless a module says
otherwise (those of `DatasetPipeline`, `ManualPackage` and `TaskExecution` are made in place), and
survives a crash of the process; loss of a disk is not modelled. One process works
on a file at a time, except in `Evidence`, `DatasetPipeline`, `DraftWorkflows` and
`ManualPackage`.
