---------------------------- MODULE ScenarioRuns ----------------------------
(***************************************************************************)
(* A red-team scenario of the library: its row (packages/state-store/src/  *)
(* phase4.ts), the routes that edit, authorize, delete and run it          *)
(* (apps/api/src/routes/scenarios.ts), the queue of live runs              *)
(* (apps/api/src/scenario-run-producer.ts) and the worker that executes    *)
(* them (apps/worker/src/scenario-runs/service.ts, runScenario of          *)
(* packages/confirm/src/scenarios.ts).                                     *)
(*                                                                         *)
(* Every route loads the row, then writes the whole row or acts on what it *)
(* loaded; requests and workers interleave at those awaits.                *)
(***************************************************************************)
EXTENDS Integers, FiniteSets

CONSTANTS
  Handlers,          \* API requests served at once
  Workers,           \* worker processes
  Bodies,            \* steps and target of a scenario
  Allowed,           \* the bodies whose target passes assertScenarioAuthorized
  Steps,             \* steps of a scenario
  RequestCap,        \* config.dast.scope.maxRequestsPerScan
  MaxJobs,           \* bound: live runs enqueued
  MaxRequests,       \* bound: requests served
  MAX_STALLED        \* BullMQ maxStalledCount

ASSUME ScenarioAssumption ==
  /\ IsFiniteSet(Handlers) /\ Allowed \subseteq Bodies
  /\ {Steps, RequestCap, MaxJobs, MaxRequests, MAX_STALLED} \subseteq Nat

VARIABLES
  api,        \* the request each handler serves: what it loaded and is to write
  scenario,   \* the row, or Gone
  jobs,       \* live runs enqueued; a job is its number
  queue,      \* jobs waiting
  stalls,     \* how often each job was put back
  run,        \* what each worker executes
  runAudits,  \* scenario.run records
  requests,   \* requests served so far
  granted     \* the versions and bodies an approver authorized

worker == <<queue, stalls, run>>
records == <<jobs, runAudits, granted>>
vars == <<api, scenario, requests, worker, records>>

Idle == [op |-> "idle"]
Gone == [version |-> 0]
NoRun == [pc |-> "idle", job |-> 0, copy |-> Gone, sent |-> 0]

\* POST /scenarios: disabled, version 1, without authorization.
Init ==
  /\ api = [h \in Handlers |-> Idle] /\ requests = 0
  /\ scenario \in {[body |-> b, version |-> 1, enabled |-> FALSE, authFor |-> 0] : b \in Bodies}
  /\ jobs = 0 /\ queue = {} /\ stalls = [j \in 1 .. MaxJobs |-> 0]
  /\ run = [k \in Workers |-> NoRun]
  /\ runAudits = 0 /\ granted = {}

-----------------------------------------------------------------------------
(* The routes *)

hasLiveRunAuthorization(s) == s.authFor = s.version

\* A route loads the row; without one it answers 404.
Serve(h, request) ==
  /\ api[h] = Idle /\ scenario # Gone /\ requests < MaxRequests
  /\ requests' = requests + 1
  /\ api' = [api EXCEPT ![h] = request]
  /\ UNCHANGED <<scenario, worker, records>>
Load(h) ==
  \/ \E b \in Bodies, e \in BOOLEAN :
       Serve(h, [op |-> "edit", version |-> scenario.version, body |-> b, enabled |-> e])
  \/ \E op \in {"authorize", "run"} : Serve(h, [op |-> op, row |-> scenario])
  \/ Serve(h, [op |-> "delete"])

done(h) == api' = [api EXCEPT ![h] = Idle]

\* redTeamScenarios.update: every column, and an error when the row is gone.
update(row) == scenario' = IF scenario = Gone THEN Gone ELSE row

\* Variant of Edit: the columns the edit leaves out keep their value.
Edit_KeepsGrant(h) ==
  /\ api[h].op = "edit"
  /\ update([body |-> api[h].body, version |-> api[h].version + 1,
             enabled |-> api[h].enabled,
             authFor |-> IF scenario = Gone THEN 0 ELSE scenario.authFor])
  /\ done(h)
  /\ UNCHANGED <<requests, worker, records>>

\* PUT /scenarios/:id: the version after the one loaded, the authorization gone.
Edit(h) ==
  /\ api[h].op = "edit"
  /\ update([body |-> api[h].body, version |-> api[h].version + 1,
             enabled |-> api[h].enabled, authFor |-> 0])
  /\ done(h)
  /\ UNCHANGED <<requests, worker, records>>

\* POST /scenarios/:id/authorize: the row that was loaded, authorized.
Authorize(h) ==
  LET row == api[h].row IN
  /\ api[h].op = "authorize"
  /\ update([row EXCEPT !.authFor = row.version])
  /\ granted' = IF scenario = Gone THEN granted ELSE granted \cup {<<row.version, row.body>>}
  /\ done(h)
  /\ UNCHANGED <<requests, worker, jobs, runAudits>>

Delete(h) ==
  /\ api[h].op = "delete"
  /\ scenario' = Gone
  /\ done(h)
  /\ UNCHANGED <<requests, worker, records>>

\* POST /scenarios/:id/run up to the record of the preview: disabled and
\* unauthorized scenarios are refused, so is a target off the allowlist, be it the
\* scenario's or one the request names instead; a record that fails ends it.
Gate(h) ==
  LET row == api[h].row IN
  /\ api[h].op = "run"
  /\ \/ /\ row.enabled /\ hasLiveRunAuthorization(row)
        /\ Allowed # {}
        /\ runAudits' = runAudits + 1
        /\ api' = [api EXCEPT ![h] = [op |-> "enqueue"]]
     \/ done(h) /\ UNCHANGED runAudits
  /\ UNCHANGED <<scenario, requests, worker, jobs, granted>>

\* The job is named by the scenario and the millisecond: a second request of the
\* same millisecond adds nothing.
Enqueue(h) ==
  /\ api[h].op = "enqueue"
  /\ \/ /\ jobs < MaxJobs
        /\ jobs' = jobs + 1 /\ queue' = queue \cup {jobs + 1}
     \/ jobs > 0 /\ UNCHANGED <<jobs, queue>>
  /\ done(h)
  /\ UNCHANGED <<scenario, requests, stalls, run, runAudits, granted>>

-----------------------------------------------------------------------------
(* The worker *)

TakeJob(k) ==
  /\ run[k] = NoRun
  /\ \E j \in queue :
       /\ queue' = queue \ {j}
       /\ run' = [run EXCEPT ![k] = [NoRun EXCEPT !.pc = "load", !.job = j]]
  /\ UNCHANGED <<api, scenario, requests, stalls, records>>

goto(k, pc) == run' = [run EXCEPT ![k].pc = pc]

\* processScenarioRunJob up to the first step: the row is loaded and checked
\* again; reading it, or building the transport, may fail.
Reload(k) ==
  /\ run[k].pc = "load"
  /\ \/ goto(k, "reject")
     \/ /\ scenario # Gone /\ scenario.enabled /\ hasLiveRunAuthorization(scenario)
        /\ scenario.body \in Allowed
        /\ run' = [run EXCEPT ![k].pc = "probe", ![k].copy = scenario]
  /\ UNCHANGED <<api, scenario, requests, queue, stalls, records>>

\* Variant of Probe: a transport error is thrown.
Probe_Throws(k) ==
  /\ run[k].pc = "probe"
  /\ \/ run[k].sent < Steps /\ run' = [run EXCEPT ![k].sent = @ + 1]
     \/ run[k].sent < Steps /\ goto(k, "reject")
     \/ run[k].sent = Steps /\ goto(k, "report")
  /\ UNCHANGED <<api, scenario, requests, queue, stalls, records>>

\* runScenario, a step: sent, or stopped by a cap, or by the transport, which
\* ends the run as blocked.
Probe(k) ==
  /\ run[k].pc = "probe"
  /\ \/ /\ run[k].sent < Steps /\ run[k].sent < RequestCap
        /\ run' = [run EXCEPT ![k].sent = @ + 1]
     \/ goto(k, "report")
  /\ UNCHANGED <<api, scenario, requests, queue, stalls, records>>

\* Variant of Report: a record that fails starts the job again.
Report_Retries(k) ==
  /\ run[k].pc \in {"report", "reject"}
  /\ \/ run' = [run EXCEPT ![k] = NoRun]
     \/ run' = [run EXCEPT ![k] = [NoRun EXCEPT !.pc = "load", !.job = run[k].job]]
  /\ UNCHANGED <<api, scenario, requests, queue, stalls, records>>

\* The outcome is recorded, a record that fails is logged, and the job is over.
Report(k) ==
  /\ run[k].pc \in {"report", "reject"}
  /\ run' = [run EXCEPT ![k] = NoRun]
  /\ UNCHANGED <<api, scenario, requests, queue, stalls, records>>

\* The queue takes a job back whose lock was lost, once; then it gives it up.
putBack(j) ==
  IF j # 0 /\ stalls[j] < MAX_STALLED
  THEN queue' = queue \cup {j} /\ stalls' = [stalls EXCEPT ![j] = @ + 1]
  ELSE UNCHANGED <<queue, stalls>>

\* A worker that does not renew its lock goes on with the job.
Stall(k) ==
  /\ run[k].job # 0 /\ run[k].job \notin queue /\ stalls[run[k].job] < MAX_STALLED
  /\ putBack(run[k].job)
  /\ UNCHANGED <<api, scenario, requests, run, records>>

\* The process dies.
Crash(k) ==
  /\ run[k] # NoRun
  /\ run' = [run EXCEPT ![k] = NoRun]
  /\ IF \E g \in Workers \ {k} : run[g].job = run[k].job
     THEN UNCHANGED <<queue, stalls>> ELSE putBack(run[k].job)
  /\ UNCHANGED <<api, scenario, requests, records>>

Answer(h) == Edit(h) \/ Authorize(h) \/ Delete(h) \/ Gate(h) \/ Enqueue(h)
Work(k) == Reload(k) \/ Probe(k) \/ Report(k)

Next ==
  \/ \E h \in Handlers : Load(h) \/ Answer(h)
  \/ \E k \in Workers : TakeJob(k) \/ Work(k) \/ Stall(k) \/ Crash(k)

Spec == Init /\ [][Next]_vars

\* Node runs every handler and every consumer it started to its end.
Fairness == \A k \in Workers : WF_vars(TakeJob(k)) /\ WF_vars(Work(k))
FairSpec == Spec /\ Fairness

-----------------------------------------------------------------------------
(* Properties *)

\* Type correctness; whichever route wrote the row last, from whatever copy, an
\* authorization is of the version it is stored with (PUT, authorize).
TypeOK ==
  /\ scenario = Gone \/ (/\ scenario.body \in Bodies /\ scenario.version \in Nat \ {0}
                         /\ scenario.enabled \in BOOLEAN
                         /\ scenario.authFor \in {0, scenario.version})
  /\ jobs \in 0 .. MaxJobs /\ queue \subseteq 1 .. jobs
  /\ stalls \in [1 .. MaxJobs -> 0 .. MAX_STALLED]
  /\ \A k \in Workers : /\ run[k].pc \in {"idle", "load", "probe", "reject", "report"}
                        /\ run[k].job \in 0 .. jobs /\ run[k].sent \in 0 .. Steps
  /\ requests \in 0 .. MaxRequests /\ runAudits \in Nat /\ granted \subseteq (Nat \X Bodies)

\* A worker probes only what an approver authorized: this version with these
\* steps and this target, although edits, authorizations and deletions overwrite
\* each other's rows and two edits may take the same version number, and only for
\* runs whose scenario.run record was written first (PUT, authorize, run,
\* processScenarioRunJob).
ProbesGranted ==
  \A k \in Workers : run[k].pc = "probe" =>
    LET s == run[k].copy
    IN s.enabled /\ s.body \in Allowed /\ <<s.version, s.body>> \in granted /\ jobs <= runAudits

\* A run recorded as rejected has sent nothing: every refusal comes before the
\* first step, and what stops a run later is reported with it (reject,
\* runScenario).
RejectedSentNothing == \A k \in Workers : run[k].pc = "reject" => run[k].sent = 0

\* No job keeps a worker or the queue for ever, whatever fails in it: the
\* consumer gets back to idle (processScenarioRunJob never throws).
RunsSettle == []<>(queue = {} /\ \A k \in Workers : run[k] = NoRun)
=============================================================================
