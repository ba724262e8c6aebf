---------------------------- MODULE Orchestrator ----------------------------
(***************************************************************************)
(* One scan driven through Layers 0..5 by the API process(es), which only  *)
(* produce jobs, and the worker process(es), which consume them.           *)
(*                                                                         *)
(* Every handler of the controller is split at its awaits: between two     *)
(* awaits a Node process is atomic, and at an await any other handler of   *)
(* any process may run.  A handler carries the Scan object it loaded; a    *)
(* store write replaces the WHOLE row by that copy, as scans.update does.  *)
(* Audit appends and event emissions change none of this state (safeAudit  *)
(* swallows every error) and are left out here; AuditLog models them.      *)
(***************************************************************************)
EXTENDS Integers, FiniteSets

CONSTANTS
  Apis, Workers,          \* operating-system processes of apps/api and apps/worker
  Handlers, Home,         \* concurrent async calls, and the process each runs in
  NoHandler,              \* the lock of a job is free or lost
  Ops,                    \* requests the environment issues
  Faults,                 \* failures the environment produces
  MaxRequests,            \* bound on the requests in a behaviour
  MaxFailures,            \* bound on the failures in a behaviour
  EstimateRequired,       \* effectiveBudgetPolicy(...).requireEstimateApproval
  ApproverRequired,       \* config.rbac.approverRequiredForGate
  AutoFixEnabled,         \* config.autoFix.enabled, auto-eligible allowed
  DastConfigured,         \* dast.enabled and the staging URL is allowlisted
  DastRequiresApprover,   \* config.dast.requireApprover
  HardHalt                \* budget enforcement is "hard_halt"

OpNames == {"start", "pause", "resume", "cancel", "kill", "killall",
            "approve", "reconcile"}
FaultNames == {"runner", "store", "crash", "stall", "evict", "budget"}

ASSUME HandlersAssumption == Home \in [Handlers -> Apis \cup Workers]
ASSUME NoHandlerAssumption == NoHandler \notin Handlers
ASSUME ProcessesDisjoint == Apis \cap Workers = {}
ASSUME EnvironmentAssumption == Ops \subseteq OpNames /\ Faults \subseteq FaultNames
ASSUME BoundsAssumption == MaxRequests \in Nat /\ MaxFailures \in Nat
ASSUME ConfigAssumption ==
  /\ EstimateRequired \in BOOLEAN /\ ApproverRequired \in BOOLEAN
  /\ AutoFixEnabled \in BOOLEAN /\ DastConfigured \in BOOLEAN
  /\ DastRequiresApprover \in BOOLEAN /\ HardHalt \in BOOLEAN

Procs == Apis \cup Workers
LAYER_ORDER == 0..5
NoLayer == 6

ScanStatus == {"queued", "running", "paused", "completed", "failed",
               "cancelled", "partial"}
TERMINAL_STATUSES == {"completed", "failed", "cancelled", "partial"}
GateState == {"not_started", "estimate_pending", "estimate_approved", "running",
              "fix_gate_pending", "approved", "auto_approved", "rejected",
              "blocked"}
Roles == {"none", "operator", "approver"}

\* The columns of the Scan row that the pipeline reads back.
Scan == [status : ScanStatus, gateState : GateState, approver : Roles]

\* Where a handler is suspended; the name says which await comes next.
Awaits == {"start_put", "start_token", "pause_put", "cancel_put",
           "resume_load", "resume_token", "resume_put",
           "kill_publish", "killall_publish", "killall_publish_only",
           "kill_get", "kill_put",
           "estimate_put", "fix_put", "sched_put", "enqueue",
           "job_get", "exec", "persist", "persist_rest", "persist_put",
           "token_get", "token_put", "reread", "fix_gate", "gate_put",
           "complete", "partial", "fail"}
Labels == Awaits \cup {"idle", "cleanup", "ack"}

HandlerState ==
  [pc : Labels,
   layer : LAYER_ORDER \cup {NoLayer},   \* the layer job being processed
   auto : BOOLEAN, live : BOOLEAN,       \* autoApply / allowLive of that job
   scan : Scan,                          \* the loaded Scan object
   done : SUBSET LAYER_ORDER,            \* completedLayers read from the token
   next : LAYER_ORDER \cup {NoLayer},    \* the layer to schedule
   apply : BOOLEAN]                      \* extra.autoApply of that layer

VARIABLES
  row,               \* the Scan row
  token,             \* completedLayers of the resume token ({} when absent)
  tiers,             \* layers whose output is persisted
  fixes,             \* rows of store.fixes: none, some or all of Layer 4's
  eligible,          \* store.fixes holds an auto-eligible fix
  jobs,              \* the BullMQ job of each layer
  owner,             \* the handler that holds the lock of an active job
  st,                \* state of each handler
  sig,               \* the AbortSignal a handler's layer runs under
  killed,            \* KillRegistry.killed holds the scan, per process
  globalKilled,      \* KillRegistry.globalKilled, per process
  ctrl,              \* KillRegistry.controllers holds the scan, per process
  schedulerStarted,  \* controller.schedulerStarted, per process
  mail,              \* kill signals on their way to a process
  booted,            \* worker booted and its reconciliation has not run yet
  granted,           \* history: <<gate, role>> of every approval written
  prOpen,            \* a pull request was opened
  requests,          \* requests served so far
  failures           \* failures met so far

store == <<row, token, tiers, fixes, eligible>>
queue == <<jobs, owner>>
registry == <<killed, globalKilled, ctrl>>
process == <<schedulerStarted, mail, booted>>
bounds == <<requests, failures>>
vars == <<store, queue, st, sig, registry, process, granted, prOpen, bounds>>

JobState == {"none", "waiting", "active", "done", "failed"}
Job == [state : JobState, auto : BOOLEAN, live : BOOLEAN, stalls : 0..1]
Signals == {"none", "live", "detached", "aborted"}

NewScan == [status |-> "queued", gateState |-> "not_started", approver |-> "none"]
NoJob == [state |-> "none", auto |-> FALSE, live |-> FALSE, stalls |-> 0]
Idle == [pc |-> "idle", layer |-> NoLayer, auto |-> FALSE, live |-> FALSE,
         scan |-> NewScan, done |-> {}, next |-> NoLayer, apply |-> FALSE]

-----------------------------------------------------------------------------
(* Pure decisions (fsm.ts).                                                *)

isTerminalStatus(s) == s \in TERMINAL_STATUSES

\* Mutant: count the completed layers instead of looking for the first gap, one off.
nextLayer_Counted(completed) ==
  IF LAYER_ORDER \subseteq completed THEN NoLayer ELSE Cardinality(completed \ {5}) + 1

\* The first layer not completed yet, NoLayer when all are.
nextLayer(completed) ==
  IF LAYER_ORDER \subseteq completed THEN NoLayer
  ELSE CHOOSE l \in LAYER_ORDER \ completed :
         \A m \in LAYER_ORDER \ completed : l <= m

evaluateFixGate == AutoFixEnabled /\ eligible

\* Mutant: the approver check is forgotten.
computeAllowLive_NoApprover(scan) == DastConfigured

computeAllowLive(scan) ==
  DastConfigured /\ (DastRequiresApprover => scan.approver # "none")

\* prGateDecision for an auto-eligible fix.
prGateDecision(auto, gate) == auto /\ gate \in {"approved", "auto_approved"}

-----------------------------------------------------------------------------
(* Processes: kill registry and scheduler.                                 *)

isKilled(p) == globalKilled[p] \/ killed[p]

\* A worker opens its queues and kill channel at boot, an API process in the
\* first start() or resume() it serves.
Connected(p) == p \in Workers \/ schedulerStarted[p]

\* Workers per layer: boot starts one, and ensureSchedulerStarted, which does
\* not know of it, a second one in the first resume().
Consumers(p) == IF p \notin Workers THEN 0 ELSE IF schedulerStarted[p] THEN 2 ELSE 1

Running(p, l) == {h \in Handlers : Home[h] = p /\ st[h].layer = l}

\* Mutant: only the flag is raised.
abortScan_FlagOnly(p) ==
  /\ killed' = [killed EXCEPT ![p] = TRUE]
  /\ UNCHANGED <<sig, globalKilled, ctrl>>

\* abortScan: flag the scan and abort the controller in the map.
abortScan(p) ==
  /\ killed' = [killed EXCEPT ![p] = TRUE]
  /\ sig' = [h \in Handlers |-> IF Home[h] = p /\ sig[h] = "live" THEN "aborted" ELSE sig[h]]
  /\ UNCHANGED <<globalKilled, ctrl>>

\* abortAll: flag every scan that has a controller and raise the global flag.
abortAll(p) ==
  /\ globalKilled' = [globalKilled EXCEPT ![p] = TRUE]
  /\ killed' = [killed EXCEPT ![p] = @ \/ ctrl[p]]
  /\ sig' = [h \in Handlers |-> IF Home[h] = p /\ sig[h] = "live" THEN "aborted" ELSE sig[h]]
  /\ UNCHANGED ctrl

-----------------------------------------------------------------------------
(* Control of a handler.                                                   *)

At(h, l) == st[h].pc = l

\* The handler goes on as s: at the await l, or finished.
Become(h, s) == st' = [st EXCEPT ![h] = s]
Goto(h, l) == Become(h, [st[h] EXCEPT !.pc = l])

\* The handler's promise resolves: a layer job is then acknowledged.
Returned(s) == IF s.layer = NoLayer THEN Idle ELSE [Idle EXCEPT !.pc = "ack", !.layer = s.layer]
Return(h) == Become(h, Returned(st[h]))

\* scheduleLayer writes the gate only on the way into Layer 1.
ScheduleLabel(layer, scan) ==
  IF layer = 1 /\ scan.gateState # "running" THEN "sched_put" ELSE "enqueue"

Request(h, op) ==
  /\ At(h, "idle") /\ Home[h] \in Apis /\ op \in Ops
  /\ requests < MaxRequests
  /\ requests' = requests + 1
  /\ UNCHANGED failures

Failure(f) ==
  /\ f \in Faults
  /\ failures < MaxFailures
  /\ failures' = failures + 1
  /\ UNCHANGED requests

-----------------------------------------------------------------------------
(* createScan has stored the row; the workers are up, the API has served   *)
(* nothing yet.                                                            *)

Init ==
  /\ row = NewScan /\ token = {} /\ tiers = {}
  /\ fixes = "none" /\ eligible = FALSE
  /\ jobs = [l \in LAYER_ORDER |-> NoJob]
  /\ owner = [l \in LAYER_ORDER |-> NoHandler]
  /\ st = [h \in Handlers |-> Idle]
  /\ sig = [h \in Handlers |-> "none"]
  /\ killed = [p \in Procs |-> FALSE]
  /\ globalKilled = [p \in Procs |-> FALSE]
  /\ ctrl = [p \in Procs |-> FALSE]
  /\ schedulerStarted = [p \in Procs |-> FALSE]
  /\ mail = [p \in Procs |-> {}]
  /\ booted = [p \in Procs |-> p \in Workers]
  /\ granted = {} /\ prOpen = FALSE
  /\ requests = 0 /\ failures = 0

-----------------------------------------------------------------------------
(* start                                                                   *)

Start(h) ==
  /\ Request(h, "start")
  /\ row.status = "queued"
  /\ ~globalKilled[Home[h]]
  /\ Become(h, [st[h] EXCEPT !.pc = "start_put", !.scan = row])
  /\ ctrl' = [ctrl EXCEPT ![Home[h]] = TRUE]
  /\ schedulerStarted' = [schedulerStarted EXCEPT ![Home[h]] = TRUE]
  /\ UNCHANGED <<store, queue, sig, killed, globalKilled, mail, booted, granted, prOpen>>

StartPut(h) ==
  /\ At(h, "start_put")
  /\ row' = [st[h].scan EXCEPT !.status = "running"]
  /\ Become(h, [st[h] EXCEPT !.pc = "start_token", !.scan.status = "running"])
  /\ UNCHANGED <<token, tiers, fixes, eligible, queue, sig, registry, process, granted, prOpen, bounds>>

StartToken(h) ==
  /\ At(h, "start_token")
  /\ token' = {}
  /\ Become(h, [st[h] EXCEPT !.pc = "enqueue", !.next = 0])
  /\ UNCHANGED <<row, tiers, fixes, eligible, queue, sig, registry, process, granted, prOpen, bounds>>

-----------------------------------------------------------------------------
(* pause, cancel                                                           *)

Pause(h) ==
  /\ Request(h, "pause")
  /\ ~isTerminalStatus(row.status)
  /\ Become(h, [st[h] EXCEPT !.pc = "pause_put", !.scan = row])
  /\ UNCHANGED <<store, queue, sig, registry, process, granted, prOpen>>

PausePut(h) ==
  /\ At(h, "pause_put")
  /\ row' = [st[h].scan EXCEPT !.status = "paused"]
  /\ Return(h)
  /\ UNCHANGED <<token, tiers, fixes, eligible, queue, sig, registry, process, granted, prOpen, bounds>>

Pending(scan) == scan.gateState \in {"estimate_pending", "fix_gate_pending"}

Cancel(h) ==
  /\ Request(h, "cancel")
  /\ ~isTerminalStatus(row.status)
  /\ abortScan(Home[h])
  /\ Become(h, [st[h] EXCEPT !.pc = "cancel_put", !.scan = row])
  /\ UNCHANGED <<store, queue, process, granted, prOpen>>

CancelPut(h) ==
  /\ At(h, "cancel_put")
  /\ LET s == st[h].scan
     IN  row' = [s EXCEPT !.status = "cancelled",
                          !.gateState = IF Pending(s) THEN "rejected" ELSE @]
  /\ Goto(h, "cleanup")
  /\ UNCHANGED <<token, tiers, fixes, eligible, queue, sig, registry, process, granted, prOpen, bounds>>

\* cleanup forgets the controller: a layer still running under it keeps a
\* signal that nothing can abort any more.
Cleanup(h) ==
  /\ At(h, "cleanup")
  /\ ctrl' = [ctrl EXCEPT ![Home[h]] = FALSE]
  /\ sig' = [g \in Handlers |-> IF Home[g] = Home[h] /\ sig[g] = "live" THEN "detached" ELSE sig[g]]
  /\ Return(h)
  /\ UNCHANGED <<store, queue, killed, globalKilled, process, granted, prOpen, bounds>>

-----------------------------------------------------------------------------
(* resume, by an operator or by a worker's boot-time reconciliation        *)

Resumable(p) == ~isKilled(p) /\ row.status \notin {"completed", "cancelled"}

Resume(h) ==
  /\ Request(h, "resume")
  /\ Resumable(Home[h])
  /\ Become(h, [st[h] EXCEPT !.pc = "resume_token", !.scan = row])
  /\ UNCHANGED <<store, queue, sig, registry, process, granted, prOpen>>

\* listByStatus("running"); whether the checkpoint counts as stale is a matter
\* of time, so either answer is possible.
Reconcile(h) ==
  /\ At(h, "idle") /\ "reconcile" \in Ops
  /\ booted[Home[h]]
  /\ booted' = [booted EXCEPT ![Home[h]] = FALSE]
  /\ \/ row.status = "running" /\ Goto(h, "resume_load")
     \/ UNCHANGED st
  /\ UNCHANGED <<store, queue, sig, registry, schedulerStarted, mail, granted, prOpen, bounds>>

ResumeLoad(h) ==
  /\ At(h, "resume_load")
  /\ \/ /\ Resumable(Home[h])
        /\ Become(h, [st[h] EXCEPT !.pc = "resume_token", !.scan = row])
     \/ ~Resumable(Home[h]) /\ Return(h)
  /\ UNCHANGED <<store, queue, sig, registry, process, granted, prOpen, bounds>>

ResumeToken(h) ==
  /\ At(h, "resume_token")
  /\ Become(h, [st[h] EXCEPT !.pc = "resume_put", !.done = token])
  /\ ctrl' = [ctrl EXCEPT ![Home[h]] = TRUE]
  /\ schedulerStarted' = [schedulerStarted EXCEPT ![Home[h]] = TRUE]
  /\ UNCHANGED <<store, queue, sig, killed, globalKilled, mail, booted, granted, prOpen, bounds>>

\* Mutant: a scan of which only the report is left counts as complete.
ResumePut_SkipsReport(h) ==
  /\ At(h, "resume_put")
  /\ LET s == [st[h].scan EXCEPT !.status = "running"]
         n == nextLayer(st[h].done)
     IN  /\ row' = s
         /\ \/ Pending(s) /\ Return(h)
            \/ /\ ~Pending(s) /\ n >= 5
               /\ Become(h, [st[h] EXCEPT !.pc = "complete", !.scan = s])
            \/ /\ ~Pending(s) /\ n < 5
               /\ Become(h, [st[h] EXCEPT !.pc = ScheduleLabel(n, s), !.scan = s,
                                          !.next = n])
  /\ UNCHANGED <<token, tiers, fixes, eligible, queue, sig, registry, process, granted, prOpen, bounds>>

\* A pending gate is only announced again; otherwise the next layer is
\* scheduled, without extra, so that Layer 5 runs with autoApply off.
ResumePut(h) ==
  /\ At(h, "resume_put")
  /\ LET s == [st[h].scan EXCEPT !.status = "running"]
         n == nextLayer(st[h].done)
     IN  /\ row' = s
         /\ \/ Pending(s) /\ Return(h)
            \/ /\ ~Pending(s) /\ n = NoLayer
               /\ Become(h, [st[h] EXCEPT !.pc = "complete", !.scan = s])
            \/ /\ ~Pending(s) /\ n # NoLayer
               /\ Become(h, [st[h] EXCEPT !.pc = ScheduleLabel(n, s), !.scan = s,
                                          !.next = n])
  /\ UNCHANGED <<token, tiers, fixes, eligible, queue, sig, registry, process, granted, prOpen, bounds>>

-----------------------------------------------------------------------------
(* kill, scoped or global, and its arrival at the other processes          *)

Kill(h) ==
  /\ Request(h, "kill")
  /\ abortScan(Home[h])
  /\ Goto(h, "kill_publish")
  /\ UNCHANGED <<store, queue, process, granted, prOpen>>

\* Only a scan with a controller in this process is blocked afterwards.
KillAll(h) ==
  /\ Request(h, "killall")
  /\ abortAll(Home[h])
  /\ Goto(h, IF ctrl[Home[h]] THEN "killall_publish" ELSE "killall_publish_only")
  /\ UNCHANGED <<store, queue, process, granted, prOpen>>

\* Redis pub/sub reaches whoever is subscribed now; a process that has not
\* opened its channel publishes nothing.
KillPublish(h) ==
  /\ st[h].pc \in {"kill_publish", "killall_publish", "killall_publish_only"}
  /\ LET scope == IF At(h, "kill_publish") THEN "scan" ELSE "global"
     IN  mail' = [p \in Procs |-> IF Connected(Home[h]) /\ Connected(p)
                                  THEN mail[p] \cup {scope} ELSE mail[p]]
  /\ IF At(h, "killall_publish_only") THEN Return(h) ELSE Goto(h, "kill_get")
  /\ UNCHANGED <<store, queue, sig, registry, schedulerStarted, booted, granted, prOpen, bounds>>

\* handleRemoteKill; the publisher receives its own message too.
RemoteKill(h) ==
  /\ At(h, "idle")
  /\ \E scope \in mail[Home[h]] :
       /\ mail' = [mail EXCEPT ![Home[h]] = @ \ {scope}]
       /\ \/ scope = "scan" /\ abortScan(Home[h]) /\ Goto(h, "kill_get")
          \/ /\ scope = "global" /\ abortAll(Home[h])
             /\ IF ctrl[Home[h]] THEN Goto(h, "kill_get") ELSE UNCHANGED st
  /\ UNCHANGED <<store, queue, schedulerStarted, booted, granted, prOpen, bounds>>

KillGet(h) ==
  /\ At(h, "kill_get")
  /\ Become(h, [st[h] EXCEPT !.scan = row,
                             !.pc = IF isTerminalStatus(row.status) THEN "cleanup" ELSE "kill_put"])
  /\ UNCHANGED <<store, queue, sig, registry, process, granted, prOpen, bounds>>

KillPut(h) ==
  /\ At(h, "kill_put")
  /\ row' = [st[h].scan EXCEPT !.status = "cancelled", !.gateState = "blocked"]
  /\ Goto(h, "cleanup")
  /\ UNCHANGED <<token, tiers, fixes, eligible, queue, sig, registry, process, granted, prOpen, bounds>>

-----------------------------------------------------------------------------
(* approveGate: the routes let an approver in, and for the estimate also   *)
(* an operator when no approver is required for gates.                     *)

ApproveEstimate(h) ==
  /\ Request(h, "approve")
  /\ ~isTerminalStatus(row.status)
  /\ row.gateState = "estimate_pending"
  /\ \E role \in {"approver"} \cup (IF ApproverRequired THEN {} ELSE {"operator"}) :
       Become(h, [st[h] EXCEPT !.pc = "estimate_put",
                               !.scan = [status |-> "running", gateState |-> "estimate_approved",
                                         approver |-> role]])
  /\ UNCHANGED <<store, queue, sig, registry, process, granted, prOpen>>

\* Mutant: the approval is stored and nothing is scheduled.
EstimatePut_NoSchedule(h) ==
  /\ At(h, "estimate_put")
  /\ row' = st[h].scan
  /\ granted' = granted \cup {<<"estimate", st[h].scan.approver>>}
  /\ Return(h)
  /\ UNCHANGED <<token, tiers, fixes, eligible, queue, sig, registry, process, prOpen, bounds>>

EstimatePut(h) ==
  /\ At(h, "estimate_put")
  /\ row' = st[h].scan
  /\ granted' = granted \cup {<<"estimate", st[h].scan.approver>>}
  /\ Become(h, [st[h] EXCEPT !.pc = ScheduleLabel(1, st[h].scan), !.next = 1])
  /\ UNCHANGED <<token, tiers, fixes, eligible, queue, sig, registry, process, prOpen, bounds>>

ApproveFix(h) ==
  /\ Request(h, "approve")
  /\ ~isTerminalStatus(row.status)
  /\ row.gateState = "fix_gate_pending"
  /\ Become(h, [st[h] EXCEPT !.pc = "fix_put",
                             !.scan = [row EXCEPT !.gateState = "approved", !.approver = "approver"]])
  /\ UNCHANGED <<store, queue, sig, registry, process, granted, prOpen>>

FixPut(h) ==
  /\ At(h, "fix_put")
  /\ row' = st[h].scan
  /\ granted' = granted \cup {<<"fix", "approver">>}
  /\ Become(h, [st[h] EXCEPT !.pc = "enqueue", !.next = 5, !.apply = TRUE])
  /\ UNCHANGED <<token, tiers, fixes, eligible, queue, sig, registry, process, prOpen, bounds>>

-----------------------------------------------------------------------------
(* scheduleLayer and the queue                                             *)

SchedPut(h) ==
  /\ At(h, "sched_put")
  /\ row' = [st[h].scan EXCEPT !.gateState = "running"]
  /\ Become(h, [st[h] EXCEPT !.pc = "enqueue", !.scan.gateState = "running"])
  /\ UNCHANGED <<token, tiers, fixes, eligible, queue, sig, registry, process, granted, prOpen, bounds>>

buildJob(s) ==
  [state |-> "waiting", auto |-> s.next = 5 /\ s.apply,
   live |-> s.next = 3 /\ computeAllowLive(s.scan), stalls |-> 0]

\* Mutant: a fresh job id for every enqueue, so nothing is a duplicate.
Enqueue_NoDedupe(h) ==
  /\ At(h, "enqueue")
  /\ jobs' = [jobs EXCEPT ![st[h].next] = buildJob(st[h])]
  /\ Return(h)
  /\ UNCHANGED <<store, owner, sig, registry, process, granted, prOpen, bounds>>

\* The job id is the scan and the layer: adding a job whose id the queue still
\* holds, finished ones included, does nothing.  A process that is not
\* connected has no queue and throws.
Enqueue(h) ==
  /\ At(h, "enqueue")
  /\ jobs' = [jobs EXCEPT ![st[h].next] =
                IF @.state = "none" /\ Connected(Home[h]) THEN buildJob(st[h]) ELSE @]
  /\ Return(h)
  /\ UNCHANGED <<store, owner, sig, registry, process, granted, prOpen, bounds>>

\* BullMQ forgets a completed job once 100 newer ones have completed.
Evict(l) ==
  /\ Failure("evict")
  /\ jobs[l].state = "done"
  /\ jobs' = [jobs EXCEPT ![l] = NoJob]
  /\ UNCHANGED <<store, owner, st, sig, registry, process, granted, prOpen>>

\* The lock of an active job expired: its process died, or did not renew it in
\* time.  maxStalledCount = 1: redelivered once, then failed.
Stall(l) ==
  /\ jobs[l].state = "active"
  /\ \/ owner[l] = NoHandler /\ UNCHANGED bounds
     \/ owner[l] # NoHandler /\ Failure("stall")
  /\ jobs' = [jobs EXCEPT ![l].state = IF jobs[l].stalls = 0 THEN "waiting" ELSE "failed",
                          ![l].stalls = 1]
  /\ owner' = [owner EXCEPT ![l] = NoHandler]
  /\ UNCHANGED <<store, st, sig, registry, process, granted, prOpen>>

-----------------------------------------------------------------------------
(* runLayerJob                                                             *)

\* A worker takes the job of layer l; a killed scan is not even loaded.
TakeJob(h, l) ==
  /\ At(h, "idle") /\ Home[h] \in Workers
  /\ jobs[l].state = "waiting"
  /\ Cardinality(Running(Home[h], l)) < Consumers(Home[h])
  /\ jobs' = [jobs EXCEPT ![l].state = "active"]
  /\ owner' = [owner EXCEPT ![l] = h]
  /\ Become(h, [Idle EXCEPT !.layer = l, !.auto = jobs[l].auto,
                            !.live = jobs[l].live,
                            !.pc = IF isKilled(Home[h]) THEN "ack" ELSE "job_get"])
  /\ UNCHANGED <<store, sig, registry, process, granted, prOpen, bounds>>

\* Mutant: signalFor hands out the map's controller without asking isKilled.
JobGet_NoKillCheck(h) ==
  /\ At(h, "job_get")
  /\ \/ /\ isTerminalStatus(row.status) \/ row.status = "paused"
        /\ Return(h)
        /\ UNCHANGED <<sig, ctrl>>
     \/ /\ ~isTerminalStatus(row.status) /\ row.status # "paused"
        /\ Become(h, [st[h] EXCEPT !.pc = "exec", !.scan = row])
        /\ sig' = [sig EXCEPT ![h] = "live"]
        /\ ctrl' = [ctrl EXCEPT ![Home[h]] = TRUE]
  /\ UNCHANGED <<store, queue, killed, globalKilled, process, granted, prOpen, bounds>>

\* Load the scan and take its signal.  A kill that landed during the load gives
\* an aborted signal, under which runWithRetry never calls the runner.
JobGet(h) ==
  /\ At(h, "job_get")
  /\ \/ /\ isTerminalStatus(row.status) \/ row.status = "paused" \/ isKilled(Home[h])
        /\ Return(h)
        /\ UNCHANGED <<sig, ctrl>>
     \/ /\ ~isTerminalStatus(row.status) /\ row.status # "paused" /\ ~isKilled(Home[h])
        /\ Become(h, [st[h] EXCEPT !.pc = "exec", !.scan = row])
        /\ sig' = [sig EXCEPT ![h] = "live"]
        /\ ctrl' = [ctrl EXCEPT ![Home[h]] = TRUE]
  /\ UNCHANGED <<store, queue, killed, globalKilled, process, granted, prOpen, bounds>>

OpensPrs(s) == s.layer = 5 /\ prGateDecision(s.auto, s.scan.gateState) /\ eligible

\* Mutant: the checkpoint is advanced without the tier being persisted.
ExecOk_CheckpointFirst(h) ==
  /\ At(h, "exec")
  /\ prOpen' = (prOpen \/ OpensPrs(st[h]))
  /\ Goto(h, "token_get")
  /\ UNCHANGED <<store, queue, sig, registry, process, granted, bounds>>

\* The runner returns (an aborted one may still get that far).
ExecOk(h) ==
  /\ At(h, "exec")
  /\ prOpen' = (prOpen \/ OpensPrs(st[h]))
  /\ Goto(h, "persist")
  /\ UNCHANGED <<store, queue, sig, registry, process, granted, bounds>>

\* The runner gives up after its retries, or because its signal was aborted.
\* Some pull requests may be open by then.
ExecFail(h) ==
  /\ At(h, "exec")
  /\ prOpen' \in {prOpen, prOpen \/ OpensPrs(st[h])}
  /\ \/ (sig[h] = "aborted" \/ isKilled(Home[h])) /\ Return(h) /\ UNCHANGED bounds
     \/ sig[h] # "aborted" /\ ~isKilled(Home[h]) /\ Goto(h, "fail") /\ Failure("runner")
  /\ UNCHANGED <<store, queue, sig, registry, process, granted>>

\* persistLayerOutput.  Layers 1-3 insert with skipDuplicates and Layer 5 only
\* updates rows; Layer 0 creates the App Map, and Layer 4 each fix, under an id
\* derived from the scan, so creating one again is a unique violation.
Persist(h) ==
  /\ At(h, "persist")
  /\ LET l == st[h].layer IN
     \/ /\ l = 0 /\ 0 \notin tiers
        /\ tiers' = tiers \cup {0}
        /\ Goto(h, "persist_put")
        /\ UNCHANGED <<fixes, eligible>>
     \/ /\ l \in {1, 2, 3, 5}
        /\ tiers' = tiers \cup {l}
        /\ Goto(h, "token_get")
        /\ UNCHANGED <<fixes, eligible>>
     \/ /\ l = 4                                   \* nothing to fix
        /\ tiers' = tiers \cup {4}
        /\ Goto(h, "token_get")
        /\ UNCHANGED <<fixes, eligible>>
     \/ /\ l = 4 /\ fixes = "none"                 \* the first fix
        /\ fixes' = "some" /\ eligible' \in {eligible, TRUE}
        /\ Goto(h, "persist_rest")
        /\ UNCHANGED tiers
     \/ /\ (l = 0 /\ 0 \in tiers) \/ (l = 4 /\ fixes # "none")
        /\ Goto(h, "fail")
        /\ UNCHANGED <<tiers, fixes, eligible>>
  /\ UNCHANGED <<row, token, queue, sig, registry, process, granted, prOpen, bounds>>

\* The other fixes of Layer 4.
PersistRest(h) ==
  /\ At(h, "persist_rest")
  /\ fixes' = "all" /\ eligible' \in {eligible, TRUE}
  /\ tiers' = tiers \cup {4}
  /\ Goto(h, "token_get")
  /\ UNCHANGED <<row, token, queue, sig, registry, process, granted, prOpen, bounds>>

\* Layer 0 writes appMapId, estimate and scope, and with them the status and
\* the gate the scan had when the job loaded it.
PersistPut(h) ==
  /\ At(h, "persist_put")
  /\ row' = st[h].scan
  /\ Goto(h, "token_get")
  /\ UNCHANGED <<token, tiers, fixes, eligible, queue, sig, registry, process, granted, prOpen, bounds>>

TokenGet(h) ==
  /\ At(h, "token_get")
  /\ Become(h, [st[h] EXCEPT !.pc = "token_put", !.done = token])
  /\ UNCHANGED <<store, queue, sig, registry, process, granted, prOpen, bounds>>

\* Save the checkpoint, then enforceBudget on the scan loaded before the layer.
TokenPut(h) ==
  /\ At(h, "token_put")
  /\ token' = st[h].done \cup {st[h].layer}
  /\ \/ Goto(h, "reread") /\ UNCHANGED bounds
     \/ /\ Failure("budget") /\ HardHalt
        /\ Become(h, [st[h] EXCEPT !.pc = "partial", !.scan.gateState = "blocked"])
  /\ UNCHANGED <<row, tiers, fixes, eligible, queue, sig, registry, process, granted, prOpen>>

-----------------------------------------------------------------------------
(* advanceAfterLayer                                                       *)

\* Mutant: the estimate is presented to nobody.
Advance_NoEstimateGate(s, l) ==
  CASE l = 0 -> [pc |-> "gate_put", gate |-> "estimate_approved", next |-> 1]
    [] l \in 1..3 -> [pc |-> "enqueue", gate |-> s.gateState, next |-> l + 1]
    [] l = 4 -> [pc |-> "fix_gate", gate |-> s.gateState, next |-> NoLayer]
    [] OTHER -> [pc |-> "complete", gate |-> s.gateState, next |-> NoLayer]

\* The transition that follows layer l, for the scan s just read again.
Advance(s, l) ==
  CASE l = 0 /\ EstimateRequired ->
         [pc |-> "gate_put", gate |-> "estimate_pending", next |-> NoLayer]
    [] l = 0 /\ ~EstimateRequired ->
         [pc |-> "gate_put", gate |-> "estimate_approved", next |-> 1]
    [] l \in 1..3 -> [pc |-> "enqueue", gate |-> s.gateState, next |-> l + 1]
    [] l = 4 -> [pc |-> "fix_gate", gate |-> s.gateState, next |-> NoLayer]
    [] OTHER -> [pc |-> "complete", gate |-> s.gateState, next |-> NoLayer]

Reread(h) ==
  /\ At(h, "reread")
  /\ \/ /\ isKilled(Home[h]) \/ row.status = "paused" \/ isTerminalStatus(row.status)
        /\ Return(h)
     \/ /\ ~isKilled(Home[h]) /\ row.status # "paused" /\ ~isTerminalStatus(row.status)
        /\ LET a == Advance(row, st[h].layer)
           IN  Become(h, [st[h] EXCEPT !.pc = a.pc, !.next = a.next,
                                       !.scan = [row EXCEPT !.gateState = a.gate]])
  /\ UNCHANGED <<store, queue, sig, registry, process, granted, prOpen, bounds>>

\* The fix gate: wait for an approver, open pull requests, or report only.
FixGate(h) ==
  /\ At(h, "fix_gate")
  /\ \/ /\ evaluateFixGate /\ ApproverRequired
        /\ Become(h, [st[h] EXCEPT !.pc = "gate_put", !.scan.gateState = "fix_gate_pending"])
     \/ /\ ~(evaluateFixGate /\ ApproverRequired)
        /\ Become(h, [st[h] EXCEPT !.pc = "gate_put", !.scan.gateState = "auto_approved",
                                   !.next = 5, !.apply = evaluateFixGate])
  /\ UNCHANGED <<store, queue, sig, registry, process, granted, prOpen, bounds>>

GatePut(h) ==
  /\ At(h, "gate_put")
  /\ row' = st[h].scan
  /\ IF st[h].next = NoLayer THEN Return(h)
     ELSE Goto(h, ScheduleLabel(st[h].next, st[h].scan))
  /\ UNCHANGED <<token, tiers, fixes, eligible, queue, sig, registry, process, granted, prOpen, bounds>>

-----------------------------------------------------------------------------
(* Outcomes: finalizeComplete, failScan, and the job's acknowledgement     *)

Complete(h) ==
  /\ st[h].pc \in {"complete", "partial"}
  /\ row' = [st[h].scan EXCEPT !.status = IF At(h, "partial") THEN "partial" ELSE "completed"]
  /\ Goto(h, "cleanup")
  /\ UNCHANGED <<token, tiers, fixes, eligible, queue, sig, registry, process, granted, prOpen, bounds>>

Fail(h) ==
  /\ At(h, "fail")
  /\ row' = [st[h].scan EXCEPT !.status = "failed"]
  /\ Return(h)
  /\ UNCHANGED <<token, tiers, fixes, eligible, queue, sig, registry, process, granted, prOpen, bounds>>

\* Only the holder of the lock moves the job out of the active set.
Settle(h, outcome) ==
  LET l == st[h].layer
      holds == l # NoLayer /\ \E m \in LAYER_ORDER : m = l /\ owner[m] = h
  IN  /\ jobs' = IF holds THEN [jobs EXCEPT ![l].state = outcome] ELSE jobs
      /\ owner' = IF holds THEN [owner EXCEPT ![l] = NoHandler] ELSE owner
      /\ Become(h, Idle)
      /\ sig' = [sig EXCEPT ![h] = "none"]

Ack(h) ==
  /\ At(h, "ack")
  /\ Settle(h, "done")
  /\ UNCHANGED <<store, registry, process, granted, prOpen, bounds>>

-----------------------------------------------------------------------------
(* Failures                                                                *)

Guarded == {"persist", "persist_rest", "persist_put", "token_get", "token_put"}

\* Postgres or Redis rejects the next call.  Inside the persist block this fails
\* the scan; anywhere else the handler's promise rejects, and a job with it.
StoreError(h) ==
  /\ Failure("store")
  /\ st[h].pc \in Awaits \ {"exec"}
  /\ \/ st[h].pc \in Guarded /\ Goto(h, "fail") /\ UNCHANGED <<queue, sig>>
     \/ st[h].pc \notin Guarded /\ Settle(h, "failed")
  /\ UNCHANGED <<store, registry, process, granted, prOpen>>

\* A process dies and is restarted: everything it held in memory is gone.
Crash(p) ==
  /\ Failure("crash")
  /\ st' = [h \in Handlers |-> IF Home[h] = p THEN Idle ELSE st[h]]
  /\ sig' = [h \in Handlers |-> IF Home[h] = p THEN "none" ELSE sig[h]]
  /\ owner' = [l \in LAYER_ORDER |->
                 IF owner[l] \in Handlers /\ Home[owner[l]] = p THEN NoHandler ELSE owner[l]]
  /\ killed' = [killed EXCEPT ![p] = FALSE]
  /\ globalKilled' = [globalKilled EXCEPT ![p] = FALSE]
  /\ ctrl' = [ctrl EXCEPT ![p] = FALSE]
  /\ schedulerStarted' = [schedulerStarted EXCEPT ![p] = FALSE]
  /\ mail' = [mail EXCEPT ![p] = {}]
  /\ booted' = [booted EXCEPT ![p] = p \in Workers]
  /\ UNCHANGED <<store, jobs, granted, prOpen>>

-----------------------------------------------------------------------------

\* A request, a boot or a kill message makes an idle handler busy.
Begin(h) ==
  \/ Start(h) \/ Pause(h) \/ Cancel(h) \/ Resume(h) \/ Reconcile(h)
  \/ Kill(h) \/ KillAll(h) \/ RemoteKill(h)
  \/ ApproveEstimate(h) \/ ApproveFix(h)

\* A busy handler goes on to its next await.
Step(h) ==
  \/ StartPut(h) \/ StartToken(h) \/ PausePut(h) \/ CancelPut(h) \/ Cleanup(h)
  \/ ResumeLoad(h) \/ ResumeToken(h) \/ ResumePut(h)
  \/ KillPublish(h) \/ KillGet(h) \/ KillPut(h)
  \/ EstimatePut(h) \/ FixPut(h) \/ SchedPut(h) \/ Enqueue(h)
  \/ JobGet(h) \/ ExecOk(h) \/ ExecFail(h)
  \/ Persist(h) \/ PersistRest(h) \/ PersistPut(h) \/ TokenGet(h) \/ TokenPut(h)
  \/ Reread(h) \/ FixGate(h) \/ GatePut(h) \/ Complete(h) \/ Fail(h) \/ Ack(h)

Next ==
  \/ \E h \in Handlers : Begin(h) \/ Step(h) \/ StoreError(h)
  \/ \E h \in Handlers, l \in LAYER_ORDER : TakeJob(h, l)
  \/ \E l \in LAYER_ORDER : Evict(l) \/ Stall(l)
  \/ \E p \in Procs : Crash(p)

Spec == Init /\ [][Next]_vars

\* Node runs what is ready, BullMQ delivers a waiting job to a free worker and
\* re-queues an orphaned one.  Requests and failures are not fair.
Fairness ==
  /\ \A h \in Handlers : WF_vars(Step(h))
  /\ \A l \in LAYER_ORDER : WF_vars(\E h \in Handlers : TakeJob(h, l))
  /\ \A l \in LAYER_ORDER : WF_vars(owner[l] = NoHandler /\ Stall(l))

FairSpec == Spec /\ Fairness

-----------------------------------------------------------------------------
(* Properties                                                              *)

\* Every variable keeps the shape the code gives it.
TypeOK ==
  /\ row \in Scan /\ token \in SUBSET LAYER_ORDER /\ tiers \in SUBSET LAYER_ORDER
  /\ fixes \in {"none", "some", "all"} /\ eligible \in BOOLEAN
  /\ jobs \in [LAYER_ORDER -> Job]
  /\ owner \in [LAYER_ORDER -> Handlers \cup {NoHandler}]
  /\ st \in [Handlers -> HandlerState]
  /\ sig \in [Handlers -> Signals]
  /\ killed \in [Procs -> BOOLEAN] /\ globalKilled \in [Procs -> BOOLEAN]
  /\ ctrl \in [Procs -> BOOLEAN] /\ schedulerStarted \in [Procs -> BOOLEAN]
  /\ mail \in [Procs -> SUBSET {"scan", "global"}]
  /\ booted \in [Procs -> BOOLEAN]
  /\ granted \in SUBSET ({"estimate", "fix"} \X {"operator", "approver"})
  /\ prOpen \in BOOLEAN
  /\ requests \in 0..MaxRequests /\ failures \in 0..MaxFailures

\* The resume token never names a layer whose output is not in the store: what
\* resume() skips can be read back.  advanceResumeToken runs after
\* persistLayerOutput, and its read-modify-write may race with another one.
CheckpointSound == token \subseteq tiers

\* A layer is put on the queue only when every earlier layer's output is in the
\* store, whichever of advanceAfterLayer, approveGate and resume put it there.
JobsInOrder ==
  \A l \in LAYER_ORDER : jobs[l].state # "none" => 0..(l - 1) \subseteq tiers

\* Golden rule 5: a pull request is opened only with auto-fix on, and, where an
\* approver is required, only after an approver passed the fix gate.  Between
\* the approval and the opener lie the row, the job and the scan copy of
\* runLayerJob, each of which another handler may overwrite.
PrsApproved ==
  prOpen => AutoFixEnabled /\ (ApproverRequired => <<"fix", "approver">> \in granted)

\* A Layer-3 job carries allowLive only when DAST is configured and, where the
\* policy asks for one, a user with the approver role approved a gate.
LiveApproved ==
  jobs[3].live =>
    DastConfigured /\ (DastRequiresApprover =>
                         \E g \in {"estimate", "fix"} : <<g, "approver">> \in granted)

\* Where the policy asks for it, no Layer-1 job exists before somebody approved
\* the cost estimate.
EstimateGate ==
  EstimateRequired /\ jobs[1].state # "none" =>
    \E r \in {"operator", "approver"} : <<"estimate", r>> \in granted

\* Once a process knows of a kill it starts no runner any more, also not for a
\* job it had taken before the kill arrived.
KillStopsStart ==
  [][\A h \in Handlers : isKilled(Home[h]) /\ ~At(h, "exec") => st'[h].pc # "exec"]_vars

\* No layer goes on under a live signal in a process that knows of a kill: its
\* signal was aborted, whenever the kill landed, or an earlier cleanup of another
\* run of the scan had dropped the controller, and then no kill can reach it
\* (signalFor, abortScan, abortAll, clear).
KillReachesRunning ==
  \A h \in Handlers : At(h, "exec") /\ isKilled(Home[h]) => sig[h] \in {"aborted", "detached"}

\* A cancelled (or killed) scan stays cancelled.
CancelIsFinal == [][row.status = "cancelled" => row'.status = "cancelled"]_vars

\* As long as locks are renewed in time, job id and lock keep a layer from running
\* twice at the same time, whatever resume and evictions put on the queue and
\* however many consumers a process has.
OneRunner ==
  \A g, h \in Handlers :
    At(g, "exec") /\ At(h, "exec") /\ st[g].layer = st[h].layer => g = h

Waiting == Pending(row)

\* A scan that is running and not waiting at a gate gets on: it ends, is paused
\* or reaches a gate, through layers, enqueues and approvals that each depend on
\* the step before having left something on the queue (start, approveGate,
\* advanceAfterLayer).  It holds while the API serves the requests of a scan one
\* at a time; two approvals at once can leave a running scan without a job.
Progress == (row.status = "running" /\ ~Waiting) ~> (row.status # "running" \/ Waiting)

\* Once an estimate is approved the next layer is on its way: a running scan past
\* the estimate gate ends, is paused or reaches the fix gate (approveGate).
ApprovalAdvances ==
  (row.status = "running" /\ row.gateState \in {"estimate_approved", "running"})
    ~> (row.status # "running" \/ Waiting)

=============================================================================
