--------------------------- MODULE ScanSchedules ---------------------------
(***************************************************************************)
(* A scan schedule: its row (ScanScheduleRepositoryImpl), the routes that  *)
(* replace and delete it (apps/api/src/routes/schedules.ts), the           *)
(* repeatable job of the queue, and the workers' scheduler, which          *)
(* reconciles the two when it starts (sync) and creates a scan when the    *)
(* job fires (trigger of apps/worker/src/scheduling/scan-scheduler.ts).    *)
(***************************************************************************)
EXTENDS CronRules

CONSTANTS
  Handlers,      \* API requests served at once
  Workers,       \* worker processes
  Clock,         \* instants at which requests and syncs read the clock
  Crons,         \* the cron expressions requests carry
  CronInputs,    \* the cron expressions the evaluator is compared on
  MaxRequests,   \* bound: requests served
  MaxFirings,    \* bound: times the repeatable job fires
  MaxCrashes,    \* bound: workers that die
  MAX_STALLED    \* BullMQ maxStalledCount

ASSUME ScheduleAssumption ==
  /\ IsFiniteSet(Workers) /\ {MaxRequests, MaxFirings, MaxCrashes, MAX_STALLED} \subseteq Nat
  /\ Clock \subseteq Times /\ \A t \in Times : t + Horizon < End

VARIABLES
  api,        \* the request each handler serves
  schedule,   \* the row, or Gone
  repeat,     \* the cron of the repeatable job, or None
  sync,       \* each worker's sync: where it is and the row it listed
  calm,       \* workers whose sync nobody else has written into
  trigger,    \* the firing each worker handles
  queue,      \* firings waiting
  stalls,     \* how often each firing was put back
  scans,      \* scans created for each firing
  count       \* requests, firings and crashes so far

store == <<schedule, repeat>>
firing == <<trigger, queue, stalls, scans>>
vars == <<api, store, sync, calm, firing, count>>

Idle == [op |-> "idle"]
Gone == [enabled |-> FALSE, cron |-> 0, next |-> Never]
None == 0
Firings == 1 .. MaxFirings
NoTrigger == [pc |-> "idle", job |-> 0]
Down == [pc |-> "down", row |-> Gone]

\* The rows requests ask for: of the cron expressions that are not refused.
rows ==
  {[enabled |-> r[2], cron |-> r[1], next |-> computeNextRunAt(Crons[r[1]], r[2], r[3])] :
     r \in {q \in (DOMAIN Crons) \X BOOLEAN \X Clock : ~refusedCron(Crons[q[1]], q[2], q[3])}}

\* The next run the queue may give for a repeatable job.
nextMs == [c \in DOMAIN Crons |-> {nextCronRun(Crons[c], now) : now \in Clock} \ {Never}]

\* POST /schedules
Init ==
  /\ api = [h \in Handlers |-> Idle]
  /\ schedule \in rows
  /\ repeat = None
  /\ sync = [k \in Workers |-> Down] /\ calm = {}
  /\ trigger = [k \in Workers |-> NoTrigger]
  /\ queue = {} /\ stalls = [j \in Firings |-> 0] /\ scans = [j \in Firings |-> 0]
  /\ count = [requests |-> 0, firings |-> 0, crashes |-> 0]

-----------------------------------------------------------------------------
(* The routes *)

Serve(h, request) ==
  /\ api[h] = Idle /\ schedule # Gone /\ count.requests < MaxRequests
  /\ count' = [count EXCEPT !.requests = @ + 1]
  /\ api' = [api EXCEPT ![h] = request]
  /\ UNCHANGED <<store, sync, calm, firing>>

\* PUT /schedules/:id up to the update: the row exists, the cron expression is
\* valid and, if the schedule is to be enabled, fires within the horizon.
Put(h) == \E row \in rows : Serve(h, [op |-> "put", row |-> row])

Delete(h) == Serve(h, [op |-> "delete", row |-> Gone])

\* The update replaces every column; it fails when the row is gone.
Save(h) ==
  /\ api[h] # Idle
  /\ schedule' = IF schedule = Gone THEN Gone ELSE api[h].row
  /\ api' = [api EXCEPT ![h] = Idle]
  /\ calm' = {}
  /\ UNCHANGED <<repeat, sync, firing, count>>

-----------------------------------------------------------------------------
(* start: the consumer, then one sync *)

at(k, pc) == sync[k].pc = pc
goto(k, pc) == sync' = [sync EXCEPT ![k].pc = pc]
over(k) == sync' = [sync EXCEPT ![k] = [pc |-> "up", row |-> Gone]]

\* listEnabled.
Boot(k) ==
  /\ at(k, "down")
  /\ sync' = [sync EXCEPT ![k] = [pc |-> IF schedule.enabled THEN "upsert" ELSE "prune",
                                  row |-> IF schedule.enabled THEN schedule ELSE Gone]]
  /\ calm' = calm \cup {k}
  /\ UNCHANGED <<api, store, firing, count>>

\* Variant of Upsert: a job that is registered is left alone.
Upsert_AddsOnly(k) ==
  /\ at(k, "upsert")
  /\ repeat' = IF repeat = None THEN sync[k].row.cron ELSE repeat
  /\ goto(k, "prune")
  /\ calm' = calm \cap {k}
  /\ UNCHANGED <<api, schedule, firing, count>>

\* transport.schedule: the job is replaced, keyed by the schedule.
Upsert(k) ==
  /\ at(k, "upsert")
  /\ repeat' = sync[k].row.cron
  /\ goto(k, "prune")
  /\ calm' = calm \cap {k}
  /\ UNCHANGED <<api, schedule, firing, count>>

\* listScheduled: a job the list of enabled schedules lacks is to go.
Prune(k) ==
  /\ at(k, "prune")
  /\ goto(k, IF repeat # None /\ sync[k].row = Gone THEN "drop" ELSE "refresh")
  /\ UNCHANGED <<api, store, calm, firing, count>>
Unschedule(k) ==
  /\ at(k, "drop")
  /\ repeat' = None
  /\ goto(k, "refresh")
  /\ calm' = calm \cap {k}
  /\ UNCHANGED <<api, schedule, firing, count>>

\* listScheduled again: the next run the queue gives, if it gives one, goes into
\* the row that was listed.
Refresh(k) ==
  /\ at(k, "refresh")
  /\ \/ /\ repeat # None /\ sync[k].row # Gone
        /\ \E next \in nextMs[repeat] \ {sync[k].row.next} :
             sync' = [sync EXCEPT ![k] = [pc |-> "save", row |-> [@.row EXCEPT !.next = next]]]
     \/ over(k)
  /\ UNCHANGED <<api, store, calm, firing, count>>

\* Variant of SaveNext: the next run alone is written.
SaveNext_OneColumn(k) ==
  /\ at(k, "save")
  /\ schedule' = IF schedule = Gone THEN Gone ELSE [schedule EXCEPT !.next = sync[k].row.next]
  /\ over(k)
  /\ calm' = calm \cap {k}
  /\ UNCHANGED <<api, repeat, firing, count>>

\* The whole row that was listed is written.
SaveNext(k) ==
  /\ at(k, "save")
  /\ schedule' = IF schedule = Gone THEN Gone ELSE sync[k].row
  /\ over(k)
  /\ calm' = calm \cap {k}
  /\ UNCHANGED <<api, repeat, firing, count>>

\* A call of the store or of the queue that fails ends the sync.
SyncFails(k) ==
  /\ sync[k].pc \in {"upsert", "prune", "drop", "refresh", "save"}
  /\ over(k)
  /\ calm' = calm \ {k}
  /\ UNCHANGED <<api, store, firing, count>>

Sync(k) == Upsert(k) \/ Prune(k) \/ Unschedule(k) \/ Refresh(k) \/ SaveNext(k) \/ SyncFails(k)

-----------------------------------------------------------------------------
(* The queue and the consumer *)

Fire ==
  /\ repeat # None /\ count.firings < MaxFirings
  /\ count' = [count EXCEPT !.firings = @ + 1]
  /\ queue' = queue \cup {count.firings + 1}
  /\ UNCHANGED <<api, store, sync, calm, trigger, stalls, scans>>

Take(k) ==
  /\ ~at(k, "down") /\ trigger[k] = NoTrigger
  /\ \E j \in queue :
       /\ queue' = queue \ {j}
       /\ trigger' = [trigger EXCEPT ![k] = [pc |-> "get", job |-> j]]
  /\ UNCHANGED <<api, store, sync, calm, stalls, scans, count>>

\* trigger up to createScan: a missing or a disabled schedule never runs.
Get(k) ==
  /\ trigger[k].pc = "get"
  /\ \/ schedule.enabled /\ trigger' = [trigger EXCEPT ![k].pc = "create"]
     \/ trigger' = [trigger EXCEPT ![k] = NoTrigger]
  /\ UNCHANGED <<api, store, sync, calm, queue, stalls, scans, count>>

\* Variant of Create: a scan whose start fails is created anew.
Create_Again(k) ==
  /\ trigger[k].pc = "create"
  /\ scans' = [scans EXCEPT ![trigger[k].job] = @ + 1]
  /\ \E pc \in {"create", "start"} : trigger' = [trigger EXCEPT ![k].pc = pc]
  /\ UNCHANGED <<api, store, sync, calm, queue, stalls, count>>

\* Variant of Create: an error starts the trigger over.
Create_Retries(k) ==
  /\ trigger[k].pc = "create"
  /\ \/ /\ scans' = [scans EXCEPT ![trigger[k].job] = @ + 1]
        /\ trigger' = [trigger EXCEPT ![k].pc = "start"]
     \/ trigger' = [trigger EXCEPT ![k].pc = "get"] /\ UNCHANGED scans
  /\ UNCHANGED <<api, store, sync, calm, queue, stalls, count>>

\* createScan: the row of the scan, whose operator must be a user; or an error,
\* which fails the job: it has one attempt.
Create(k) ==
  /\ trigger[k].pc = "create"
  /\ \/ /\ scans' = [scans EXCEPT ![trigger[k].job] = @ + 1]
        /\ trigger' = [trigger EXCEPT ![k].pc = "start"]
     \/ trigger' = [trigger EXCEPT ![k] = NoTrigger] /\ UNCHANGED scans
  /\ UNCHANGED <<api, store, sync, calm, queue, stalls, count>>

\* orchestrator.start, then the schedule.triggered record; either may fail.
Start(k) ==
  /\ trigger[k].pc = "start"
  /\ trigger' = [trigger EXCEPT ![k] = NoTrigger]
  /\ UNCHANGED <<api, store, sync, calm, queue, stalls, scans, count>>

Handle(k) == Get(k) \/ Create(k) \/ Start(k)

\* A firing whose lock was lost is put back, once.
putBack(j) ==
  IF j # 0 /\ stalls[j] < MAX_STALLED
  THEN queue' = queue \cup {j} /\ stalls' = [stalls EXCEPT ![j] = @ + 1]
  ELSE UNCHANGED <<queue, stalls>>

Stall(k) ==
  /\ trigger[k].job # 0 /\ trigger[k].job \notin queue /\ stalls[trigger[k].job] < MAX_STALLED
  /\ putBack(trigger[k].job)
  /\ UNCHANGED <<api, store, sync, calm, trigger, scans, count>>

\* The process dies; it is started again by Boot.
Crash(k) ==
  /\ ~at(k, "down") /\ count.crashes < MaxCrashes
  /\ count' = [count EXCEPT !.crashes = @ + 1]
  /\ sync' = [sync EXCEPT ![k] = Down]
  /\ calm' = calm \ {k}
  /\ trigger' = [trigger EXCEPT ![k] = NoTrigger]
  /\ IF \E g \in Workers \ {k} : trigger[g].job = trigger[k].job
     THEN UNCHANGED <<queue, stalls>> ELSE putBack(trigger[k].job)
  /\ UNCHANGED <<api, store, scans>>

Next ==
  \/ \E h \in Handlers : Put(h) \/ Delete(h) \/ Save(h)
  \/ \E k \in Workers : Boot(k) \/ Sync(k) \/ Take(k) \/ Handle(k) \/ Stall(k) \/ Crash(k)
  \/ Fire

Spec == Init /\ [][Next]_vars

\* Workers are started again and Node runs what they await to its end.
Fairness == \A k \in Workers : WF_vars(Boot(k)) /\ WF_vars(Sync(k)) /\ WF_vars(Take(k)) /\ WF_vars(Handle(k))
FairSpec == Spec /\ Fairness

-----------------------------------------------------------------------------
(* Properties *)

\* Type correctness; a row shows a next run exactly when it is enabled, however
\* edits and the syncs of the workers write over each other (computeNextRunAt,
\* sync).
TypeOK ==
  /\ schedule.enabled <=> schedule.next # Never
  /\ schedule.enabled \in BOOLEAN /\ schedule.cron \in {0} \cup DOMAIN Crons
  /\ repeat \in {None} \cup DOMAIN Crons
  /\ queue \subseteq 1 .. count.firings
  /\ stalls \in [Firings -> 0 .. MAX_STALLED]
  /\ calm \subseteq {k \in Workers : ~at(k, "down")}

\* After a sync that nobody else wrote into, whatever earlier syncs left halfway,
\* the queue fires the schedule exactly if it is enabled and with the cron
\* expression of its row (sync of scan-scheduler.ts).
SyncReconciles ==
  \A k \in calm : at(k, "up") =>
    repeat = IF schedule.enabled THEN schedule.cron ELSE None

\* Expressions and instants for which the evaluator and the reference disagree.
misses == {p \in CronInputs \X Times :
             cronIsValid(p[1]) /\ nextCronRun(p[1], p[2]) # firstAfter(p[1], p[2])}

\* While a schedule can be edited, the evaluator is right about every expression
\* an edit may bring: jumping field by field finds the first instant after the
\* given one at which every field matches, within the horizon, and none when
\* there is none, for steps, ranges, days of the month that some months lack and
\* both day fields restricted at once (nextCronRun).
CronExact == schedule # Gone => misses = {}

\* A firing creates a scan at most once per delivery: the redelivery after a
\* crash or a stall creates another one, and nothing creates a third (trigger).
ScansPerFiring == \A j \in Firings : scans[j] <= 1 + stalls[j]

\* Every firing is handled or given up, through crashes, restarts and stalls, and
\* whatever fails in its trigger, which is never tried again (consume, trigger).
FiringsSettle == []<>(queue = {} /\ \A k \in Workers : trigger[k] = NoTrigger)
=============================================================================
