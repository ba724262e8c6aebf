------------------------- MODULE ScenarioRuns_proofs -------------------------
(***************************************************************************)
(* The safety of scenario runs for any number of requests, workers, jobs,  *)
(* steps and stalls.                                                       *)
(*                                                                         *)
(* A row is copied into requests and into runs and written back much       *)
(* later, so what is known of the row must be known of every copy: one     *)
(* that claims an authorization has it on record.  Grants are never        *)
(* withdrawn from the record, which is why a stale copy stays sound.       *)
(***************************************************************************)
EXTENDS ScenarioRuns, FiniteSetTheorems, TLAPS

USE DEF worker, records

\* The assumption, taken apart.
LEMMA Constants ==
  /\ IsFiniteSet(Handlers) /\ Allowed \subseteq Bodies
  /\ Steps \in Nat /\ RequestCap \in Nat /\ MaxJobs \in Nat /\ MaxRequests \in Nat
  /\ MAX_STALLED \in Nat
  BY ScenarioAssumption

USE Constants

Rows == {s \in [body : Bodies, version : Nat \ {0}, enabled : BOOLEAN, authFor : Nat] :
           s.authFor \in {0, s.version}}

Requests ==
  {Idle} \cup [op : {"edit"}, version : Nat \ {0}, body : Bodies, enabled : BOOLEAN]
         \cup [op : {"authorize", "run"}, row : Rows]
         \cup [op : {"delete", "enqueue"}]

RunStates ==
  [pc : {"idle", "load", "probe", "reject", "report"}, job : 0 .. MaxJobs,
   copy : Rows \cup {Gone}, sent : 0 .. Steps]

\* TypeOK with the requests and the copies the workers hold.
Typed ==
  /\ api \in [Handlers -> Requests]
  /\ scenario \in Rows \cup {Gone}
  /\ jobs \in 0 .. MaxJobs /\ queue \subseteq 1 .. jobs
  /\ stalls \in [1 .. MaxJobs -> 0 .. MAX_STALLED]
  /\ run \in [Workers -> RunStates]
  /\ \A k \in Workers : run[k].job <= jobs
  /\ requests \in 0 .. MaxRequests /\ runAudits \in Nat /\ granted \subseteq (Nat \X Bodies)

\* A copy of the row that is authorized is so by an approver.
Sound(s, G) == s # Gone /\ s.authFor = s.version => <<s.version, s.body>> \in G

\* Every copy of the row is sound.
CopiesSound ==
  /\ Sound(scenario, granted)
  /\ \A h \in Handlers : api[h].op \in {"authorize", "run"} => Sound(api[h].row, granted)

\* A worker that probes was given an enabled, allowed and authorized row; one
\* that has not passed the checks has sent nothing.
RunsSound ==
  \A k \in Workers :
    /\ run[k].pc = "probe" =>
         /\ run[k].copy \in Rows /\ run[k].copy.enabled /\ run[k].copy.body \in Allowed
         /\ <<run[k].copy.version, run[k].copy.body>> \in granted
    /\ run[k].pc \in {"load", "reject"} => run[k].sent = 0

\* The requests between the record of a run and its job.
enqueueing == {h \in Handlers : api[h].op = "enqueue"}

\* Every job, and every job about to be added, has its record.
Recorded == jobs + Cardinality(enqueueing) <= runAudits

Inv == Typed /\ CopiesSound /\ RunsSound /\ Recorded

-----------------------------------------------------------------------------

LEMMA GoneIsNoRow == Gone \notin Rows
  BY DEF Gone, Rows

LEMMA EnqueueingFinite == IsFiniteSet(enqueueing) /\ Cardinality(enqueueing) \in Nat
<1>1. enqueueing \subseteq Handlers
  BY DEF enqueueing
<1>. QED BY <1>1, FS_Subset, FS_CardinalityType

LEMMA InitInv == Init => Inv
<1>. SUFFICES ASSUME Init PROVE Inv
  OBVIOUS
<1>1. Typed
  <2>1. PICK b \in Bodies :
          scenario = [body |-> b, version |-> 1, enabled |-> FALSE, authFor |-> 0]
    BY DEF Init
  <2>3. scenario \in Rows
    BY <2>1 DEF Rows
  <2>2. NoRun \in RunStates /\ NoRun.job = 0 /\ Idle \in Requests
    BY DEF NoRun, RunStates, Requests
  <2>. QED BY <2>3, <2>2 DEF Init, Typed
<1>2. CopiesSound
  BY DEF Init, CopiesSound, Sound, Idle
<1>3. RunsSound
  BY DEF Init, RunsSound, NoRun
<1>4. Recorded
  <2>1. enqueueing = {}
    BY DEF Init, enqueueing, Idle
  <2>. QED BY <2>1, FS_EmptySet DEF Init, Recorded
<1>. QED BY <1>1, <1>2, <1>3, <1>4 DEF Inv

\* What an answer to a request leaves of the invariant when the handler is done.
LEMMA DoneRecorded ==
  ASSUME Typed, Recorded, NEW h \in Handlers, done(h),
         UNCHANGED <<jobs, runAudits>>
  PROVE  Recorded'
<1>1. enqueueing' \subseteq enqueueing
  BY DEF done, Typed, enqueueing, Idle
<1>2. Cardinality(enqueueing') <= Cardinality(enqueueing) /\ Cardinality(enqueueing') \in Nat
  BY <1>1, EnqueueingFinite, FS_Subset, FS_CardinalityType
<1>. QED BY <1>2, EnqueueingFinite DEF Recorded, Typed

LEMMA LoadInv == ASSUME Inv, NEW h \in Handlers, Load(h) PROVE Inv'
<1>. USE DEF Inv
<1>1. PICK q \in Requests : /\ Serve(h, q) /\ q.op # "enqueue"
                            /\ q.op \in {"authorize", "run"} => q.row = scenario
  <2>1. scenario \in Rows \/ scenario = Gone
    BY DEF Typed
  <2>2. CASE scenario = Gone
    BY <2>2 DEF Load, Serve
  <2>3. CASE scenario \in Rows
    <3>1. ASSUME NEW b \in Bodies, NEW e \in BOOLEAN
          PROVE  [op |-> "edit", version |-> scenario.version, body |-> b, enabled |-> e]
                   \in Requests
      BY <2>3 DEF Requests, Rows
    <3>2. ASSUME NEW op \in {"authorize", "run"}
          PROVE  [op |-> op, row |-> scenario] \in Requests
      BY <2>3 DEF Requests
    <3>3. [op |-> "delete"] \in Requests
      BY DEF Requests
    <3>. QED BY <3>1, <3>2, <3>3 DEF Load
  <2>. QED BY <2>1, <2>2, <2>3
<1>2. Typed'
  BY <1>1 DEF Serve, Typed
<1>3. CopiesSound'
  BY <1>1 DEF Serve, Typed, CopiesSound
<1>4. RunsSound'
  BY <1>1 DEF Serve, RunsSound
<1>5. Recorded'
  <2>1. enqueueing' = enqueueing
    BY <1>1 DEF Serve, enqueueing, Idle, Typed
  <2>. QED BY <1>1, <2>1 DEF Serve, Recorded
<1>. QED BY <1>2, <1>3, <1>4, <1>5

LEMMA EditInv == ASSUME Inv, NEW h \in Handlers, Edit(h) PROVE Inv'
<1>. USE DEF Inv
<1>1. [body |-> api[h].body, version |-> api[h].version + 1, enabled |-> api[h].enabled,
       authFor |-> 0] \in Rows
  <2>0. api[h] \in Requests /\ api[h].op = "edit"
    BY DEF Edit, Typed
  <2>1. api[h] \in [op : {"edit"}, version : Nat \ {0}, body : Bodies, enabled : BOOLEAN]
    BY <2>0 DEF Requests, Idle
  <2>. QED BY <2>1 DEF Rows
<1>2. scenario' \in Rows \cup {Gone} /\ Sound(scenario', granted)
  BY <1>1 DEF Edit, update, Sound, Rows
<1>3. Typed'
  BY <1>2 DEF Edit, done, Typed, Requests
<1>4. CopiesSound'
  BY <1>2 DEF Edit, done, CopiesSound, Typed, Idle
<1>5. RunsSound'
  BY DEF Edit, RunsSound
<1>6. Recorded'
  BY DoneRecorded DEF Edit
<1>. QED BY <1>3, <1>4, <1>5, <1>6

LEMMA AuthorizeInv == ASSUME Inv, NEW h \in Handlers, Authorize(h) PROVE Inv'
<1>. USE DEF Inv
<1>. DEFINE r == [api[h].row EXCEPT !.authFor = api[h].row.version]
<1>1. api[h].row \in Rows /\ r \in Rows /\ r.version = api[h].row.version
      /\ r.body = api[h].row.body
  <2>0. api[h] \in Requests /\ api[h].op = "authorize"
    BY DEF Authorize, Typed
  <2>1. api[h] \in [op : {"authorize", "run"}, row : Rows]
    BY <2>0 DEF Requests, Idle
  <2>. QED BY <2>1 DEF Rows
<1>2. granted \subseteq granted' /\ granted' \subseteq (Nat \X Bodies)
  BY <1>1 DEF Authorize, Typed, Rows
<1>3. scenario' \in Rows \cup {Gone} /\ Sound(scenario', granted')
  BY <1>1, GoneIsNoRow DEF Authorize, update, Sound
<1>4. Typed'
  BY <1>2, <1>3 DEF Authorize, done, Typed, Requests
<1>5. CopiesSound'
  BY <1>2, <1>3 DEF Authorize, done, CopiesSound, Typed, Idle, Sound
<1>6. RunsSound'
  BY <1>2 DEF Authorize, RunsSound
<1>7. Recorded'
  BY DoneRecorded DEF Authorize
<1>. QED BY <1>4, <1>5, <1>6, <1>7

LEMMA DeleteInv == ASSUME Inv, NEW h \in Handlers, Delete(h) PROVE Inv'
<1>. USE DEF Inv
<1>1. Typed'
  BY DEF Delete, done, Typed, Requests
<1>2. CopiesSound'
  BY DEF Delete, done, CopiesSound, Typed, Idle, Sound
<1>3. RunsSound'
  BY DEF Delete, RunsSound
<1>4. Recorded'
  BY DoneRecorded DEF Delete
<1>. QED BY <1>1, <1>2, <1>3, <1>4

LEMMA GateInv == ASSUME Inv, NEW h \in Handlers, Gate(h) PROVE Inv'
<1>. USE DEF Inv
<1>1. CASE done(h) /\ UNCHANGED runAudits
  <2>1. Typed'
    BY <1>1 DEF Gate, done, Typed, Requests
  <2>2. CopiesSound'
    BY <1>1 DEF Gate, done, CopiesSound, Typed, Idle
  <2>3. RunsSound'
    BY <1>1 DEF Gate, RunsSound
  <2>4. Recorded'
    BY <1>1, DoneRecorded DEF Gate
  <2>. QED BY <2>1, <2>2, <2>3, <2>4
<1>2. CASE runAudits' = runAudits + 1 /\ api' = [api EXCEPT ![h] = [op |-> "enqueue"]]
  <2>1. Typed'
    BY <1>2 DEF Gate, Typed, Requests
  <2>2. CopiesSound'
    BY <1>2 DEF Gate, CopiesSound, Typed
  <2>3. RunsSound'
    BY <1>2 DEF Gate, RunsSound
  <2>4. Recorded'
    <3>1. enqueueing' = enqueueing \cup {h} /\ h \notin enqueueing
      BY <1>2 DEF Gate, enqueueing, Typed
    <3>2. Cardinality(enqueueing') = Cardinality(enqueueing) + 1
      BY <3>1, EnqueueingFinite, FS_AddElement
    <3>. QED BY <1>2, <3>2, EnqueueingFinite DEF Gate, Recorded, Typed
  <2>. QED BY <2>1, <2>2, <2>3, <2>4
<1>. QED BY <1>1, <1>2 DEF Gate

LEMMA EnqueueInv == ASSUME Inv, NEW h \in Handlers, Enqueue(h) PROVE Inv'
<1>. USE DEF Inv
<1>1. jobs' \in 0 .. MaxJobs /\ jobs' \in {jobs, jobs + 1} /\ queue' \subseteq 1 .. jobs'
  <2>1. CASE jobs < MaxJobs /\ jobs' = jobs + 1 /\ queue' = queue \cup {jobs + 1}
    BY <2>1 DEF Typed
  <2>2. CASE UNCHANGED <<jobs, queue>>
    BY <2>2 DEF Typed
  <2>. QED BY <2>1, <2>2 DEF Enqueue
<1>2. Typed'
  BY <1>1 DEF Enqueue, done, Typed, Requests, RunStates
<1>3. CopiesSound'
  BY DEF Enqueue, done, CopiesSound, Typed, Idle
<1>4. RunsSound'
  BY DEF Enqueue, RunsSound
<1>5. Recorded'
  <2>1. enqueueing' = enqueueing \ {h} /\ h \in enqueueing
    BY DEF Enqueue, done, enqueueing, Typed, Idle
  <2>2. Cardinality(enqueueing') = Cardinality(enqueueing) - 1
    BY <2>1, EnqueueingFinite, FS_RemoveElement
  <2>. QED BY <1>1, <2>2, EnqueueingFinite DEF Enqueue, Recorded, Typed
<1>. QED BY <1>2, <1>3, <1>4, <1>5

-----------------------------------------------------------------------------
(* The workers leave the row, the requests and the record alone *)

LEMMA WorkerRest ==
  ASSUME Inv, UNCHANGED <<api, scenario, requests, records>>
  PROVE  CopiesSound' /\ Recorded'
<1>1. CopiesSound'
  BY DEF Inv, CopiesSound
<1>2. enqueueing' = enqueueing
  BY DEF enqueueing
<1>. QED BY <1>1, <1>2 DEF Inv, Recorded

LEMMA PutBackTyped ==
  ASSUME Typed, NEW j \in 0 .. jobs, putBack(j), UNCHANGED jobs
  PROVE  queue' \subseteq 1 .. jobs /\ stalls' \in [1 .. MaxJobs -> 0 .. MAX_STALLED]
<1>1. CASE j # 0 /\ stalls[j] < MAX_STALLED
  <2>1. j \in 1 .. MaxJobs /\ j \in 1 .. jobs /\ stalls[j] \in 0 .. MAX_STALLED
    BY <1>1 DEF Typed
  <2>2. stalls[j] + 1 \in 0 .. MAX_STALLED
    BY <1>1, <2>1
  <2>. QED BY <1>1, <2>1, <2>2 DEF putBack, Typed
<1>2. CASE ~(j # 0 /\ stalls[j] < MAX_STALLED)
  BY <1>2 DEF putBack, Typed
<1>. QED BY <1>1, <1>2

LEMMA WorkersInv ==
  ASSUME Inv, NEW k \in Workers, TakeJob(k) \/ Work(k) \/ Stall(k) \/ Crash(k)
  PROVE  Inv'
<1>. USE DEF Inv
<1>. UNCHANGED <<api, scenario, requests, records>>
  BY DEF TakeJob, Work, Reload, Probe, Report, Stall, Crash
<1>0. CopiesSound' /\ Recorded'
  BY WorkerRest
<1>1. NoRun \in RunStates
  BY DEF NoRun, RunStates
<1>2. CASE TakeJob(k)
  <2>1. PICK j \in queue : queue' = queue \ {j} /\
          run' = [run EXCEPT ![k] = [NoRun EXCEPT !.pc = "load", !.job = j]]
    BY <1>2 DEF TakeJob
  <2>2. j \in 1 .. jobs /\ j \in 0 .. MaxJobs
    BY <2>1 DEF Typed
  <2>. DEFINE r == [NoRun EXCEPT !.pc = "load", !.job = j]
  <2>5. r \in RunStates /\ r.pc = "load" /\ r.job = j /\ r.sent = 0
    BY <1>1, <2>2 DEF NoRun, RunStates
  <2>6. run' = [run EXCEPT ![k] = r]
    BY <2>1
  <2>. HIDE DEF r
  <2>7. run' \in [Workers -> RunStates]
    BY <2>5, <2>6 DEF Typed
  <2>8. \A g \in Workers : run'[g].job <= jobs
    BY <2>2, <2>5, <2>6 DEF Typed
  <2>3. Typed'
    BY <1>2, <2>1, <2>7, <2>8 DEF TakeJob, Typed
  <2>4. RunsSound'
    BY <2>5, <2>6 DEF RunsSound, Typed
  <2>. QED BY <1>0, <2>3, <2>4
<1>3. CASE Reload(k)
  <2>1. CASE goto(k, "reject")
    BY <1>0, <1>3, <2>1 DEF Reload, goto, Typed, RunStates, RunsSound
  <2>2. CASE /\ scenario # Gone /\ scenario.enabled /\ hasLiveRunAuthorization(scenario)
             /\ scenario.body \in Allowed
             /\ run' = [run EXCEPT ![k].pc = "probe", ![k].copy = scenario]
    <3>1. scenario \in Rows
      BY <2>2 DEF Typed
    <3>2. <<scenario.version, scenario.body>> \in granted
      BY <2>2 DEF CopiesSound, Sound, hasLiveRunAuthorization
    <3>3. Typed'
      BY <1>3, <2>2 DEF Reload, Typed, RunStates
    <3>4. RunsSound'
      BY <2>2, <3>1, <3>2 DEF RunsSound, Typed, RunStates
    <3>. QED BY <1>0, <3>3, <3>4
  <2>. QED BY <1>3, <2>1, <2>2 DEF Reload
<1>4. CASE Probe(k)
  <2>1. CASE goto(k, "report")
    BY <1>0, <1>4, <2>1 DEF Probe, goto, Typed, RunStates, RunsSound
  <2>2. CASE run[k].sent < Steps /\ run' = [run EXCEPT ![k].sent = @ + 1]
    <3>1. run[k] \in RunStates /\ run[k].sent + 1 \in 0 .. Steps
      BY <2>2 DEF Typed, RunStates
    <3>2. [run[k] EXCEPT !.sent = @ + 1] \in RunStates
      BY <3>1 DEF RunStates
    <3>3. run' = [run EXCEPT ![k] = [run[k] EXCEPT !.sent = @ + 1]]
      BY <2>2
    <3>4. Typed'
      BY <1>4, <3>2, <3>3, <3>1 DEF Probe, Typed, RunStates
    <3>5. RunsSound'
      BY <1>4, <3>1, <3>3 DEF Probe, Typed, RunStates, RunsSound
    <3>. QED BY <1>0, <3>4, <3>5
  <2>. QED BY <1>4, <2>1, <2>2 DEF Probe
<1>5. CASE Report(k)
  BY <1>0, <1>1, <1>5 DEF Report, Typed, NoRun, RunsSound
<1>6. CASE Stall(k)
  <2>1. run[k].job \in 0 .. jobs /\ UNCHANGED <<jobs, run>> /\ putBack(run[k].job)
    BY <1>6 DEF Stall, Typed, RunStates
  <2>2. queue' \subseteq 1 .. jobs /\ stalls' \in [1 .. MaxJobs -> 0 .. MAX_STALLED]
    BY <2>1, PutBackTyped
  <2>. QED BY <1>0, <2>1, <2>2 DEF Typed, RunsSound
<1>7. CASE Crash(k)
  <2>1. queue' \subseteq 1 .. jobs /\ stalls' \in [1 .. MaxJobs -> 0 .. MAX_STALLED]
    <3>1. run[k].job \in 0 .. jobs /\ UNCHANGED jobs
      BY DEF Typed, RunStates
    <3>2. CASE UNCHANGED <<queue, stalls>>
      BY <3>2 DEF Typed
    <3>3. CASE putBack(run[k].job)
      BY <3>1, <3>3, PutBackTyped
    <3>. QED BY <1>7, <3>2, <3>3 DEF Crash
  <2>. QED BY <1>0, <1>1, <1>7, <2>1 DEF Crash, Typed, NoRun, RunsSound
<1>. QED BY <1>2, <1>3, <1>4, <1>5, <1>6, <1>7 DEF Work

-----------------------------------------------------------------------------

LEMMA NextInv == Inv /\ [Next]_vars => Inv'
<1>. SUFFICES ASSUME Inv, [Next]_vars PROVE Inv'
  OBVIOUS
<1>1. CASE UNCHANGED vars
  BY <1>1 DEF Inv, vars, Typed, CopiesSound, RunsSound, Recorded, enqueueing
<1>2. ASSUME NEW h \in Handlers, Load(h) \/ Answer(h) PROVE Inv'
  BY <1>2, LoadInv, EditInv, AuthorizeInv, DeleteInv, GateInv, EnqueueInv DEF Answer
<1>. QED BY <1>1, <1>2, WorkersInv DEF Next

\* The inductive invariant implies the properties.
LEMMA InvImplies == Inv => TypeOK /\ ProbesGranted /\ RejectedSentNothing
<1>. SUFFICES ASSUME Inv PROVE TypeOK /\ ProbesGranted /\ RejectedSentNothing
  OBVIOUS
<1>1. TypeOK
  BY DEF Inv, Typed, TypeOK, Rows, RunStates
<1>2. ProbesGranted
  BY EnqueueingFinite DEF Inv, RunsSound, Recorded, Typed, ProbesGranted
<1>3. RejectedSentNothing
  BY DEF Inv, RunsSound, RejectedSentNothing
<1>. QED BY <1>1, <1>2, <1>3

\* Every variable has its type: an authorization is always of the version it is
\* stored with, and no job is put back more often than the queue allows.
THEOREM TypeCorrect == Spec => []TypeOK
<1>. QED BY InitInv, NextInv, InvImplies, PTL DEF Spec

\* A worker only probes what an approver authorized, in this version and with this
\* body, and only for a run that is on record, however edits, authorizations,
\* deletions, redeliveries and crashes interleave.
THEOREM ProbesAreGranted == Spec => []ProbesGranted
<1>. QED BY InitInv, NextInv, InvImplies, PTL DEF Spec

\* A run recorded as rejected has sent nothing.
THEOREM RejectionsAreClean == Spec => []RejectedSentNothing
<1>. QED BY InitInv, NextInv, InvImplies, PTL DEF Spec
=============================================================================
