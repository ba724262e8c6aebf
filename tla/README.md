# A TLA+ model of the scan pipeline

This directory specifies, model-checks and proves properties of the part of the
repository that decides *what runs, when, at what cost and with whose
permission*: the orchestrator, the queue between API and workers, the kill
switch, the approval gates, the LLM budget, the confirmation of findings by live
probes, the delivery of fixes, scenario runs, scheduled scans, and the
hash-chained audit log. Paths are relative to the repository.

## 1. The system

A scan goes through six layers (App Map, discovery, correlation, confirmation,
fixes, report). `apps/api` serves operators and approvers and only *produces*
layer jobs; `apps/worker` *consumes* them. Both hold an
`OrchestratorController` over the same Postgres store and the same Redis.

| Part | State it keeps | Operations | Talks to |
|---|---|---|---|
| controller (`packages/orchestrator/src/controller.ts`, `fsm.ts`, `persist.ts`) | nothing durable of its own; per process a kill registry, meters, caches, `schedulerStarted` | createScan, start, pause, resume, cancel, kill, approveGate, runLayerJob | store, scheduler, runners, audit log, event bus |
| kill switch (`kill-switch.ts`) | controllers, killed set and global flag, per process | register, signalFor, abortScan, abortAll, clear | running layers, through their AbortSignal |
| scheduler (`bullmq-scheduler.ts`, `apps/api/src/enqueue-scheduler.ts`) | queues, consumers, kill channel | start, enqueue, publishKill | BullMQ, Redis pub/sub |
| BullMQ (external) | one job per layer and scan, with state, lock and stall count | add, take, finish, stall, evict | worker processes |
| worker (`apps/worker/src/index.ts`, `reconcile.ts`) | booted or not | boot, reconcile stuck scans | controller |
| routes (`apps/api/src/routes/scans.ts`, `gate.ts`) | none | role checks, then one call of the controller | controller |
| repositories (`packages/state-store/src`) | Scan row, ResumeToken, App Map, findings, fixes | whole-row update, create, bulkCreate with skipDuplicates | Postgres |
| audit log (`audit.ts`, `hash-chain.ts`) | one hash chain per client | append, verifyChain | Postgres |
| retry loop (`retry.ts`) | attempt, the layer's AbortSignal | runWithRetry | layer runners |
| LLM gateway and cost meter (`packages/llm-gateway/src`, `packages/cost-meter/src`) | a meter per scan, cached by the controller and registered for the guard | complete, stream, the guard before a call, retries, fallback, escalation, accounting | providers, controller |
| confirmation (`packages/confirm/src`, `apps/worker/src/runners.ts`) | request, mutation and rate counters per scope guard; findings confirmed so far | static review, live probes, adaptive rounds, investigation, verifiers, purple-team scenarios | LLM gateway, the staging target |
| fixes and pull requests (`packages/fix/src`, `packages/report/src`) | fixes, branches, pull requests | propose, validate, classify, record, stage, open | LLM gateway, git, the VCS host |
| scenario runs (`routes/scenarios.ts`, `scenario-run-producer.ts`, `worker/src/scenario-runs`) | a versioned row with its written authorization, a queue | create, edit, authorize, delete, run, execute | Postgres, BullMQ, the target |
| scheduled scans (`routes/schedules.ts`, `worker/src/scheduling`) | a row and a repeatable job | create, edit, delete, sync, trigger | Postgres, BullMQ, controller |
| correlation (`packages/correlation/src`) | none: candidates in, ranked findings and an appendix out | ground, group, demote, score, nudge, rank | LLM gateway, the App Map |
| event bus, sessions | see section 7 | planned | |
| app map, discovery, semantic index, hardening, report rendering, telemetry, CLI, web console, QA | data processing or presentation | not modelled | |

What is hard about it:

* A controller method is a chain of awaits. At each await any other method, in
  this process or another one, may run; the method then goes on with the `Scan`
  object it loaded, and `scans.update` replaces the whole row by it.
* The gate, the checkpoint and the job live in different stores and are written
  one after the other, so a crash or another method sees any prefix.
* A layer can reach the queue through the transition after a layer, an approval,
  an operator's resume and a worker's reconciliation at boot.
* BullMQ delivers a job again when a lock is not renewed: two runs of a layer.
* The kill switch is per process and crosses processes by a fire-and-forget
  message.
* The audit chain is extended by concurrent transactions of many processes.
* The budget guard compares an estimate with what has been *recorded*; a call is
  recorded when it ends, and runs of a scan overlap.
* A probe is checked, sleeps for the rate limit, is sent and is counted in
  different steps; the kill switch may fire between any two.
* Git branches, pull requests, audit records and rows are four systems written
  one after the other under a retry loop and redelivery.
* Edits, authorizations and the workers' bookkeeping write back whole rows of
  scenarios and schedules that they loaded earlier.

What makes it correct: the resume token names only persisted layers; layers are
queued in order; nothing passes a gate without its approval; no pull request and
no live probing without the approvals the policy asks for; a process that knows
of a kill starts nothing and aborts what runs; a verdict stays; a running scan
gets on; the chain verifies and no event is lost once returned, duplicated or
rewritten; spending exceeds the ceiling by no more than the calls in flight; no
request reaches a target without authorization and no probe leaves beyond the caps or after a kill;
a finding has one verdict, and one that its evidence supports; a pull request is
for a validated fix, and there is one per fix; a live run probes what was
authorized; the queue fires what the schedule says. `PROJECT.json` lists the hazards behind these, line by line.

## 2. Modules

| Module | Contents |
|---|---|
| `Orchestrator` | one scan, the API and worker processes, the queue, the kill registry, the store |
| `MCOrchestrator` | instances: one API process and one worker, two or three concurrent calls |
| `Orchestrator_proofs` | type correctness, kills and their reach, locks, the estimate gate |
| `OrchestratorSafety_proofs` | checkpoints, order of layers, approvals, the refinement, when a signal stays attached |
| `AuditLog` | `PrismaAuditLogClient.append` and `verifyChainRecords` |
| `MCAuditLog` | its instance, with the symmetry of writers and clients |
| `AtomicLog` | what `append` promises its callers; `AuditLog` ends with the refinement mapping |
| `AuditLog_proofs` | all its properties |
| `ScanPipeline` | what the orchestrator promises, without processes and copies |
| `OrchestratorRefinement` | the refinement mapping; `MCOrchestrator` extends it |
| `LlmGateway`, `MCLlmGateway` | runs of a layer, the gateway, the meters |
| `LlmGateway_proofs` | all its properties |
| `ConfirmRules` | the decisions of Layer 3 as operators: taxonomy, data flow, probes, oracle, payload safety, caps of turns and votes |
| `CorrelationRules` | Layer 2 as operators: grounding, root causes, scores, the set of outputs it may have |
| `Confirmation`, `MCConfirmation` | Layer 3 as a state machine, on an output of Layer 2 |
| `Confirmation_proofs` | what every output of Layer 2 has, and the safety of Layer 3 |
| `FixDelivery`, `MCFixDelivery` | Layers 4 and 5 and the gate between them |
| `FixDelivery_proofs` | all its safety properties |
| `ScenarioRuns`, `MCScenarioRuns` | one scenario, the routes, the queue, the workers |
| `ScenarioRuns_proofs` | all its safety properties |
| `CronRules` | the cron evaluator over a calendar whose units are constants |
| `ScanSchedules`, `MCScanSchedules` | one schedule, the routes, the repeatable job, the workers |
| `ScanSchedules_proofs` | its safety, and the correctness of the evaluator |

The modules of one layer are finer pictures of what `Orchestrator` takes as one
step (`ExecOk`, `ExecFail`, `OpensPrs`); what they share with it (gate, retry,
kill, redelivery, resume) is modelled in each as far as the layer sees it.

### Orchestrator

A *handler* is one asynchronous call in a process (`Home`). Its record `st[h]`
holds the await it is suspended at (`pc`) and the locals that survive an await:
the loaded `scan`, the completed layers read from the token (`done`), the job
(`layer`, `auto`, `live`) and the layer to schedule (`next`, `apply`). One action
is everything between two awaits, because Node runs that without interruption.
A request whose guard fails returns without an effect and is no action.

| Variables | Code |
|---|---|
| `row` | the columns `status`, `gateState`, `approver` of the Scan row; `approver` is the role of whoever was stored |
| `token`, `tiers`, `fixes`, `eligible` | ResumeToken, persisted layer outputs, rows of `store.fixes` and whether one is auto-eligible |
| `jobs`, `owner` | the BullMQ job of each layer, and who holds its lock |
| `killed`, `globalKilled`, `ctrl`, `sig` | `KillRegistry`, and the signal a running layer holds: live, detached (its controller was dropped), aborted |
| `schedulerStarted`, `mail`, `booted` | `controller.schedulerStarted`, kill messages under way, reconciliation still to run |
| `granted`, `prOpen` | history: approvals written, a pull request was opened |

| Actions | Code |
|---|---|
| `Start`, `StartPut`, `StartToken` | `start` |
| `Pause`, `PausePut`, `Cancel`, `CancelPut`, `Cleanup` | `pause`, `cancel`, `cleanup` |
| `Resume`, `Reconcile`, `ResumeLoad`, `ResumeToken`, `ResumePut` | `resume`, called by a route or by `reconcileStuckScans` |
| `Kill`, `KillAll`, `KillPublish`, `RemoteKill`, `KillGet`, `KillPut` | `kill`, `publishKill`, `handleRemoteKill`, `blockKilled` |
| `ApproveEstimate`, `EstimatePut`, `ApproveFix`, `FixPut` | `approveGate` behind the routes' role checks |
| `SchedPut`, `Enqueue` | `scheduleLayer`, `buildJob`, `enqueue` |
| `TakeJob`, `JobGet`, `ExecOk`, `ExecFail`, `Persist`, `PersistRest`, `PersistPut`, `TokenGet`, `TokenPut`, `Reread`, `FixGate`, `GatePut`, `Complete`, `Fail` | `runLayerJob` and what it calls |
| `Ack`, `Evict`, `Stall` | BullMQ: finishing a job, `removeOnComplete`, a lost lock with `maxStalledCount` 1 |
| `StoreError`, `Crash` | a rejected Postgres or Redis call; a process that dies and restarts |

Abstractions: one scan (scans share only the global kill flag); a layer's run is
one step with its outcomes (success, failure after retries, stopped by an abort);
findings are reduced to "this layer's output is stored"; the staleness test of
the reconciliation and the budget check may answer either way; audit appends and
events change nothing here, as `safeAudit` swallows every error. Reading the row
and the code up to the next await are one action: what other processes do in
between commutes with it.

### AuditLog

The rows of a client are a function from sequence numbers, which is what the
unique index enforces. `FindLast` and `Create`/`Conflict` are the two statements
of a transaction; other writers commit between them. A digest is the tuple of
what it covers (collision freedom). `Throw` is any error other than the unique
violation, `LostReply` a commit whose reply never arrives. `Serializable` is
deliberately not relied on: the properties rest on the unique index alone.

### ScanPipeline

Four variables: the layers whose output is stored, the approvals, whether pull
requests were opened, whether the scan is completed. Layers are stored in order,
an approval comes after the output it is about, pull requests come after the
approval the policy asks for, and a scan is finished with all six layers stored.
`Overwrite` admits that a stale whole-row write takes a finished scan back.
`OrchestratorRefinement` maps `tiers`, `granted`, `prOpen` and
`row.status = "completed"` to them.

### LlmGateway

A *run* is one execution of `runLayerJob`; two of a scan overlap after a lost
lock or a resume. `StartLayer` is `getMeter` and `register`, `Attempt` and
`Throw` are `runWithRetry`, `Call` and `Guard` the two halves of
`assertPreCallBudget` around the token count it awaits, `Fail` and `Succeed` one
request under `withRetryAndFallback` with its accounting, `Escalate` the next
tier of `completeWithEscalation`, `EnforceBudget` the check between layers.
Tokens and prices are small numbers; a provider may use `Drift` tokens more than
the guard estimated.

### CorrelationRules, ConfirmRules and Confirmation

`CorrelationRules` is Layer 2: `groundCandidate` looks a candidate up in the App
Map, `groupCandidates` merges those with one root cause and grounds the group on
its representative, `demotedGroup` sends a group to the appendix, the three
scores are exact integers in units of their own, `blendScore` lets a model move
them by at most a tenth, and `correlate` is the set of rankings for every choice
of model answers, an empty one for a call that failed. Exact ties are ordered by
a hash in the code and in any order in the model; ties that only floating point
breaks are ties in the model. `Init` of `Confirmation` takes one of these
outputs, so that Layer 3 is checked on findings Layer 2 really produces; its App
Map and its false-positive marks may be later ones.

`Confirmation` follows one delivery of Layer 3, await by await: `TakeFinding`,
`Static`, `Live`, the browser login where a route needs a session, then per probe `Gate` (`assertProbeAllowed` and
`throttle`), `Wake`, `Send` and `Response` or `TransportError`; `Round` and
`Choose` are the adaptive loop, `Turn`, `Evidence` and `Verify` the
investigation, `Settle` the choice between the proofs, and `Output`,
`NextScenario` and `Done` the purple-team loop, whose probes pass a guard of
their own. `Login` looks at the kill switch once, `Browse` launches the browser and asks
for the login page past guard and signal, `LoggedIn` takes the session or gives
up. Payloads are records of what the safety rules look at, responses
records of what the oracle looks at, and the App Map is routes, sinks and
sources with positions. `Tick` ages the recorded send times, the only use of
time; they are a set, each with the number of its request, as only their number
and their ages matter. The runner passes no `repoRoot`; jobs with one are in the instance because
`confirmFindings` accepts it, and the investigation needs it to confirm.

### FixDelivery

Layers 4 and 5 of one scan under the retry loop, with crashes and a resume. The
queue keeps one job per layer (`job`): it is delivered again after a crash until
`MaxStalls` is used up, then given up; a job that returned is kept as completed
until `Evict` drops it, and `Resume` adds a job only under an id the queue does
not keep, otherwise it writes the row and nothing else. `loaded` is the copy of
the gate a delivery works on: Layer 5 plans from it and `failScan` writes it back,
over a kill too. `fixApproved` is a history of the approver's decision. A patch is
a record of what classifier and validation look at; the proof test asks for the
vulnerable pattern to be gone and the safe one to be there, the oracle of the
agent loop for the first only. `Propose` is the
single-shot or the agent loop, `Validate` the loop over candidates,
`validatePatch` and `validatePatchWithContainerReplay` the outcomes the two
harnesses can have, `Stage`, `Create` and `AuditPr` the three effects of opening
a pull request, each of which may fail; `Stage` before the branch exists, after it, or with the
answer to the push lost. Plans are opened in the order of the findings. One pull
request per fix; the `grouped`
strategy differs in the plan only.

### ScenarioRuns

A scenario is its version, its body (steps and target), `enabled` and the version
it is authorized for. Routes are two actions, the load and the write or the
decision. `granted` is a history of what approvers authorized. `Reload` is the
worker's second check of everything, `Probe` a step of `runScenario`.

### CronRules and ScanSchedules

The evaluator is the code's: parse each field, a sequence of terms, then jump (`advance`, one round of
the loop) to the start of the next month, day, hour, minute or second until all
fields match. `firstAfter` is the reference, the least matching instant. The
calendar is a table of the days before each month, so leap years are entries like
any others; that of the run has short months, days and hours and a leap day at
the end of the horizon, so that every jump, every day some months lack and both
sides of the horizon are reached. `ScanSchedules` has the two routes that write a row, `sync` with its
five awaits in every worker, and `trigger` with redelivery. `calm` remembers
which syncs nobody else has written into.

## 3. Runs

All runs bound the number of requests, failures, crashes and resumes by named
constants; nothing else is bounded. Deadlock is not an error: a scan that ended,
or waits for an approver, may stop.

| Run | Question | Bounds |
|---|---|---|
| `gates_and_checkpoints` | `JobsInOrder`, `LiveApproved` and `ImplementsPipeline` with approvals, operator resume, reconciliation, a runner failure or crash | 4 requests, 1 failure, 1 API call and 1 job at a time |
| `kill_and_redelivery` | `KillStopsStart`, `KillReachesRunning`, `CheckpointSound`, `EstimateGate` with kills and cancels of the scan, approvals, store errors, runner failures, budget halts and lost locks, without resume | 3 requests, 1 failure; two handlers in the worker, so that a kill arrives while a layer runs and a layer runs twice; no approver required, so every layer is reached |
| `progress` | `Progress` under fairness, with approvals, pauses, cancels, failures, budget halts | 4 requests, one at a time, 1 failure |
| `stale_approval` | `ApprovalAdvances` is violated: two approvals and a cancel | 4 requests, two at a time |
| `cancelled_revived` | `CancelIsFinal` is violated: a kill while Layer 0 runs | 2 requests |
| `job_dedupe` | `OneRunner` with operator resume, reconciliation, a global kill, runner failures, evictions and two consumers per layer | 2 requests, 2 failures |
| `audit_chain` | `ChainIntact`, `RecordedOnce`, `GivesUpUnderContention`, `TamperEvident`, `AppendIsAtomic` | 2 clients, 2 writers, 3 attempts, 5 appends, failed transactions |
| `gateway_budget` | `OvershootBounded`, `GuardArmed`, `NoAttemptAfterAbort`, and the bounds on meters, attempts and requests in `TypeOK` | 2 overlapping runs, 3 executions, 1 resume, a ceiling of two tokens and calls of one token with a drift of one |
| `layer3` | `ProbesGuarded` (caps, rate, authorization), `NoProbeAfterKill`, `KillPrompt`, `ClassifiedOnce` (with `CandidatesKept` and `RankGrounded` on the output of Layer 2), `VerdictBacked`, `LayerEnds`, and the bound on model calls in `TypeOK` | 6 candidates: one demoted, two merged, 4 findings, one of each path; 3 answers per root cause, which give 4 rankings; 4 requests, 1 of them mutating, 2 per window; 3 adaptive rounds, 2 turns, 3 verifiers; 1 crash |
| `fix_delivery` | `AutoEligibleSound`, `PrsGated`, `OnePrPerFix`, `GateOnAllFixes`, `LayersEnd`, and the bounds on attempts and model calls in `TypeOK` | 4 findings, one in auth code, one in a shared file and one without its source; 6 proposals, one good and five that each fail in one way (auth code, a line too long, does not apply, stays vulnerable, lacks the safe pattern); 4 deployments, one with a reserved category; 2 attempts, 2 faults, 1 redelivery, 1 resume |
| `scenario_runs` | `ProbesGranted`, `RejectedSentNothing`, `RunsSettle`, and the row's consistency in `TypeOK` | 2 requests at once, 5 in all, 2 workers, 3 bodies, 2 steps, 1 live run |
| `scan_schedules` | `SyncReconciles`, `ScansPerFiring`, `FiringsSettle`, `CronExact`, and the row's consistency in `TypeOK` | 1 request, 2 workers, 1 firing, 1 crash; 720 expressions from 25 instants on a calendar of 5 years of 5 days, one of them a leap year |

Four requests are start, both approvals and one more; one failure is enough to
put a scan into each recovery path.
Three attempts with five appends let a writer lose every attempt. Two runs are
the most a process can have of one layer (the stalled one and its redelivery). A
cap of four requests is exhausted by the first finding's probes and adaptive
rounds, so that later findings meet a full guard. Two faults are a failed step
and a failed retry of it. Five requests are two edits, an authorization, a run
and one more in between.

Two runs end in a counterexample (`findings` quotes the lines).
`cancelled_revived`: Layer 0's row write puts a killed scan back to running.
`stale_approval`: two approvals of the estimate load the pending row, the first
enqueues Layer 1, a cancel (or a pause) is stored and the job returns; the second
writes *running* from its copy and its enqueue is dropped, as the queue keeps the
job id. The scan is running without a job. `Progress` therefore holds, and is
checked, while the requests of a scan are served one at a time; `ApprovalAdvances`
is the part of it the documentation promises of an approval.

Other disagreements between the code and what the repository says of it, met
while modelling and visible in the models:

* `resume()` between the checkpoint of Layer 0 and the write of
  `estimate_pending` schedules Layer 1 without approval (`controller.ts:313`
  against `routes/scans.ts:303`); `EstimateGate` is therefore checked without
  resume.
* An API process restarted since its last start or resume drops the broadcast of
  a kill (`enqueue-scheduler.ts:124` against `bullmq-scheduler.ts:3`).
* A crash after `appMaps.create` makes the redelivered Layer 0 fail the scan, and
  every resume of it (`persist.ts:38` against `docs/modules/orchestration.md:38`).
* Resuming a failed layer enqueues under a job id the queue still keeps, and the
  scan is running with no job (`bullmq-scheduler.ts:167` against
  `controller.ts:767`); `Progress` is therefore checked without resume, and
  `LayersEnd` speaks of queued layers.
* A job given up after its second lost delivery is kept as failed, so the
  reconciliation that is to be "the backstop that resumes the scan"
  (`bullmq-scheduler.ts:301`) adds no job.
* `failScan` writes *failed* over a kill stored while the layer ran
  (`controller.ts:764` against `fsm.ts:43`), and a failed scan may be resumed.
* A browser login that was begun goes on to the target's login page after a kill,
  and that request is neither counted nor throttled (`live.ts:1697` against
  `live.ts:1724`, "all probing halts").
* `sync` stores the row it listed and re-enables a schedule disabled meanwhile
  (`scan-scheduler.ts:196`, "Bookkeeping only").
* `startScanScheduler` is exported and never called; the scheduler's operator
  `scan-scheduler` must exist as a user for `createScan` to succeed.
* A kill never reaches a scenario run: its worker is built without a signal
  (`scenario-runs/index.ts:43`).
* The Layer 3 runner passes no `repoRoot`, so that no investigation can confirm
  (`runners.ts:771` against `docs/modules/confirmation.md:9`).
* No pull request opener is wired, and PullRequest rows are never created
  (`persist.ts:72` against `docs/modules/reporting-vcs.md:37`).

Also seen: a pause stored during Layer 0 is overwritten like a kill; `cancel`
aborts work in its own process only; a global kill leaves the status of scans
waiting at a gate alone; with a stalled duplicate that finished the scan, a kill
no longer reaches the older run, whose signal is *detached*; with `approverRequiredForGate` off, an
operator's estimate approval is what `computeAllowLive` takes for the approver; a
serialization failure (P2034) is not retried by `append`; removing the *last*
rows of a chain is not detected by `verifyChainRecords`; usage of a request that
timed out, of a stream that failed and of embeddings is on no meter; a halted
scan that is resumed starts with an empty meter; caps and rate are per guard, so
a redelivery, a resume or the next scenario starts with fresh counters; a pull
request whose audit record fails, or whose worker dies, is opened and linked to
nothing; with the container harness a patch that merely breaks the application
counts as a fix, as the exploit no longer replays; a firing that is redelivered
after `createScan` creates a second scan, and so does a webhook delivered twice;
a group is demoted on its representative alone, so that a sanitizer call in the
snippet of the most severe report of a sink demotes the other tools' reports of
it; a false-positive mark that names a rule counts in Layer 2 only, as Layer 3
passes no rule.

## 4. Fairness

`FairSpec` asks for weak fairness of: every handler's next step (Node resumes a
settled await; store and runner calls end in success or failure), the delivery
of a waiting job to some free consumer (BullMQ workers poll), and the stall
check of a job whose holder is gone (`stalledInterval`). Requests, approvals,
failures, kill delivery and reconciliation are not fair. `Progress` needs nothing
else: a waiting gate is a legitimate end.

The other modules ask for weak fairness of the steps a process takes by itself:
model calls have a timeout (`runWithTimeout`), probes the HTTP client's default
ones, test runs and containers those of `evidence.ts`, `patch.ts` and
`container-harness.ts`, so each ends in an answer or an error; git and the VCS
host, which are given none, are assumed to answer. In
`Confirmation` time passes as well, which is what a throttled probe waits for. In
`ScanSchedules` a dead worker is started again. Kills, crashes, stalls,
approvals, resumes and requests are never fair.

## 5. Proofs

TLAPS checks every obligation of the eight proof modules. The constants are
arbitrary: any sets of processes, handlers, clients, runs and workers, any
findings, App Maps, model answers and patches, any limits and bounds. What is
assumed of them are the ASSUMEs of the modules, which TLC evaluates in every run:

* bounds and limits are natural numbers, switches are Boolean, at least one
  attempt, verifier, turn and request per window (the ranges of
  `config/src/schema.ts` and of the retry policies);
* `Orchestrator`: handlers have a home, processes are API or worker;
* `LlmGateway`: finitely many runs, models have a price and tiers a model;
* `Confirmation`: candidates have the fields of their schema, scores a model
  answers are integers, a scenario is a sequence of methods; nothing about App
  Maps, marks, responses and payloads;
* `FixDelivery`: patches and findings have the fields of their schema;
* `ScenarioRuns`, `ScanSchedules`: finitely many requests or workers at a time,
  and the times from which the evaluator is called have a horizon ahead of them;
* `CronRules`: units have at least one part, and the table of months starts at day
  0 and increases.

The theorems and the invariants they rest on (each was checked by TLC on the
instance of its run before it was proved):

* `Orchestrator_proofs`: `Spec => []TypeOK`. `TypeOK` is not inductive: saving
  the token needs the handler's layer to be a layer, recording an approval needs
  a role. `ControlOK` ties both to the await the handler is at. `KillStopsStart`
  follows from the types and what a handler keeps over one step (`Moved`): the
  only way into the runner asks `isKilled` after the last await. `OneRunner`
  holds where locks are renewed in time, with any crashes, evictions, resumes and
  consumers: whoever processes a job holds its lock (`Locked`). `EstimateGate`
  holds without resume and reconciliation, with any crashes and lost locks:
  whoever is in Layer 1 or about to schedule it comes from a stored approval
  (`Estimated`). `KillReachesRunning` holds for any operations and faults: with
  `Reached`, a running layer has a signal, and no signal is live in a process that
  knows of a kill; `signalFor` hands out an aborted one once the kill is
  known, `abortScan` and `abortAll` abort every live one, and `clear` can only
  detach.
* `OrchestratorSafety_proofs`: `CheckpointSound`, `JobsInOrder`, `PrsApproved`,
  and `LiveApproved` where an approver is required for gates. The inductive
  invariant `Safe` says what every *copy* may claim: a token, a stale row, a
  handler's locals or a job claims only layers in `tiers` and only permissions
  backed by `granted`. Both sets only grow, so a stale copy stays sound
  (`Monotone`), which is why whole-row overwrites, redelivery and crashes cannot
  break these properties although they break others.
* `OrchestratorSafety_proofs`, refinement: `Spec => ImplementsPipeline`, every step
  of every handler, process and queue is a step of `ScanPipeline` or stutters.
  `Safe` gives the order of layers and the approvals; `Finished` adds that a row,
  a copy or a handler that says *completed* says so with every layer stored, and
  that no approval is written from a copy that does.
* `OrchestratorSafety_proofs`, signals: how far a kill really reaches. Without
  resume, reconciliation, crashes, lost locks and evictions no running layer is
  detached, so the signal of `KillReachesRunning` is the aborted one
  (`RunningStaysAttached`). The danger is `cleanup()`, which drops the controller
  of the process whoever runs under it. `Tracked` says
  that a handler works on a layer with all earlier ones *behind* the scan (taken,
  and every handler of theirs past its work), a set that only grows; so when a
  handler cleans up after its layer nobody runs another one, and when it cleans up
  after a kill the signals are already aborted. Each of the five exclusions is
  needed: with any one of them an earlier layer is finished, or run again, beside
  a later one, and a budget halt of the earlier one detaches the later one's
  signal. TLC finds a behaviour for each; for evictions it takes two approvals
  under way at the same time.
* `AuditLog_proofs`: `TypeOK`, `ChainIntact`, `RecordedOnce`,
  `GivesUpUnderContention`, `AppendOnly`, `TamperEvident`, and the refinement
  `Spec => AppendIsAtomic`. The invariant adds
  that a writer about to create holds the hash of the row its number follows,
  that stored events are among those called and not in progress elsewhere, and
  that the chain grew by one for every attempt a call lost. The refinement needs
  `Gapless` as well: numbers run from 1 without a gap and nobody has read past the
  last one, so that a number that is not taken is the next one and an insert,
  however old its read, goes to the end. Its commit is the moment at which a call
  takes effect.
* `LlmGateway_proofs`: `TypeOK`, `OvershootBounded`, `GuardArmed`,
  `NoAttemptAfterAbort`. `OvershootBounded` speaks of what is recorded; the
  danger is in what is not recorded yet. `Ahead` bounds the two together: if the
  guard of the registered meter can no longer stop a set of calls, what is
  recorded and what these calls may still add stay within the bound. Only the
  call that passed the guard last is known to fit under the ceiling, so the
  invariant singles out one call and counts every other run at the largest size.
  `RequestsCounted` counts the requests of the tiers a call has left, which is
  what bounds retries, fallback and escalation together.
* `Confirmation_proofs`: `TypeOK`, `ProbesGuarded`, `NoProbeAfterKill`,
  `KillPrompt`, `ClassifiedOnce`, `VerdictBacked`. The Layer 2 half is about the
  operator `correlate`: for any candidates and answers, groups partition the
  candidates by root cause, a group's representative is one of its members, and a
  blended score is within a tenth of the grounded one, so that each candidate is
  kept once (`CandidatesKept`) and the ranking is grounded (`RankGrounded`). The
  Layer 3 half is an invariant of six parts: `Counted` (a budget of calls that is
  charged in the order review, rounds, turns, votes, so that each stage leaves
  enough for the next), `Guarded` (the check of a probe still holds while the
  layer sleeps and while the request is under way), `Placed` (verdicts so far are
  exactly the findings before the one at hand), `Prompt` (a finding worked on
  after the kill is the first one), `Shown` (what static review, responses and
  test have shown of this finding), and the types.
* `FixDelivery_proofs`: `TypeOK`, `AutoEligibleSound`, `PrsGated`, `OnePrPerFix`,
  `GateOnAllFixes`. The invariant follows a fix from the candidate that was
  validated to its row (`Produced`, `RowsSound`), ties the gate to the rows
  (`GatePassed`) and a plan to the gate's decision (`Planned`), and says that an
  opened pull request has its branch (`Opened`): that branch is what refuses the
  second one.
* `ScenarioRuns_proofs`: `TypeOK`, `ProbesGranted`, `RejectedSentNothing`. As in
  the orchestrator, every copy of the row that claims an authorization has it on
  record (`CopiesSound`, `RunsSound`); `Recorded` counts audit records against
  jobs and requests about to enqueue one.
* `ScanSchedules_proofs`: `TypeOK`, `SyncReconciles`, `ScansPerFiring`, `CronExact`.
  `CalmKnows` says what an undisturbed sync knows at each of its awaits; `Paid`
  counts the scans of a firing together with the deliveries that may still
  create one. `CronExact` rests on `NextCronRunIsFirst`, about the operator
  `nextCronRun` for every calendar, expression and instant. `Advance` is its core:
  a round stops where every field matches, and otherwise jumps ahead, to the end
  of the calendar at most, over instants that fail the same field (instants of one
  minute, hour, day or month agree on the fields of that unit and of the larger
  ones). `SearchFinds` turns that into the result of the loop: the least matching
  instant from t on satisfies the loop's equation, and any other solution would
  differ from it at a latest instant, whose jump goes to a later one. So the
  induction over instants is an argument about the greatest element of a finite
  set of numbers, which needs no induction theorem with an operator parameter.
  `WholeMinutes` is the last step: an expression without seconds is searched from
  the next whole minute on and its least match is a whole minute.

Only model-checked: the liveness properties (`Progress`, `LayerEnds`,
`LayersEnd`, `RunsSettle`, `FiringsSettle`), which are out of the prover's reach.
`CancelIsFinal` and `ApprovalAdvances` are violated (section 3). The theorems that name operations or faults in their
hypotheses (`OneRunnerHolds`, `EstimateGateHolds`, `RunningStaysAttached`) leave out only
those; the instances of the runs satisfy the hypotheses. `TypeOK` of
`Orchestrator` and `AuditLog`, `PrsApproved` and `AppendOnly` are proved and no
longer model-checked; on the instances of the runs `ImplementsPipeline` has the
content of `PrsApproved`, and `AppendIsAtomic` with `ChainIntact` that of
`AppendOnly`.

## 6. Not modelled

Several scans and tenants at once, per-tenant queues, the inline scheduler,
orderly shutdown, wall-clock time, the batch and embedding interfaces of the
gateway, the estimate and the variance report of the cost meter, the `grouped`
strategy of pull requests, the tools an investigation reads the checkout with,
the text of findings, payloads, patches and reports. App map, discovery, semantic
index and hardening are analyses of source text, one pass without state to
interleave: their results are inputs here. The console, the command line,
telemetry and the QA harness are presentation or measurement; `corpus/` and
`fixtures` are programs to be scanned. `PROJECT.json` gives the reason per
component.

## 7. Plan

The event bus (`events.ts`) and sessions are left to model. The safety
properties of the passing runs are all proved.
