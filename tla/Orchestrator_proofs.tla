------------------------- MODULE Orchestrator_proofs -------------------------
(***************************************************************************)
(* The orchestrator for any number of processes, handlers, requests and    *)
(* failures, and every configuration.                                      *)
(***************************************************************************)
EXTENDS Orchestrator, TLAPS

\* Where a handler is certainly processing a layer job.
JobLabels == {"job_get", "exec", "persist", "persist_rest", "persist_put", "token_get",
              "token_put", "reread", "fix_gate", "ack"}

\* TypeOK is not inductive alone: the checkpoint names the layer of the job, and
\* the record of an approval the role of whoever gave it.
ControlOK ==
  \A h \in Handlers :
    /\ st[h].pc \in JobLabels => st[h].layer \in LAYER_ORDER
    /\ st[h].pc = "estimate_put" => st[h].scan.approver # "none"

Typed == TypeOK /\ ControlOK

\* The groups of variables in UNCHANGED are tuples of variables.
USE DEF store, queue, registry, process, bounds

\* Layers 0 to 5, and nothing else.
LEMMA Layers == LAYER_ORDER = {0, 1, 2, 3, 4, 5} /\ NoLayer \notin LAYER_ORDER
  BY DEF LAYER_ORDER, NoLayer

\* A handler without anything to do.
LEMMA IdleTyped == Idle \in HandlerState /\ Idle.pc = "idle" /\ Idle.scan.approver = "none"
  BY DEF Idle, HandlerState, NewScan, Scan, ScanStatus, GateState, Roles, Labels, Awaits, LAYER_ORDER, NoLayer

\* The initial state has the right shape.
LEMMA InitTyped == Init => Typed
<1>. SUFFICES ASSUME Init PROVE Typed
  OBVIOUS
<1>1. row \in Scan
  BY DEF Init, NewScan, Scan, ScanStatus, GateState, Roles
<1>2. jobs \in [LAYER_ORDER -> Job]
  BY DEF Init, NoJob, Job, JobState
<1>3. st \in [Handlers -> HandlerState] /\ ControlOK
  BY IdleTyped DEF Init, ControlOK, JobLabels
<1>4. owner \in [LAYER_ORDER -> Handlers \cup {NoHandler}] /\ sig \in [Handlers -> Signals]
  BY DEF Init, Signals
<1>5. /\ killed \in [Procs -> BOOLEAN] /\ globalKilled \in [Procs -> BOOLEAN]
      /\ ctrl \in [Procs -> BOOLEAN] /\ schedulerStarted \in [Procs -> BOOLEAN]
      /\ mail \in [Procs -> SUBSET {"scan", "global"}] /\ booted \in [Procs -> BOOLEAN]
  BY DEF Init
<1>6. /\ token \in SUBSET LAYER_ORDER /\ tiers \in SUBSET LAYER_ORDER
      /\ fixes \in {"none", "some", "all"} /\ eligible \in BOOLEAN /\ prOpen \in BOOLEAN
      /\ granted \in SUBSET ({"estimate", "fix"} \X {"operator", "approver"})
  BY DEF Init
<1>7. requests \in 0..MaxRequests /\ failures \in 0..MaxFailures
  BY BoundsAssumption DEF Init
<1>. QED BY <1>1, <1>2, <1>3, <1>4, <1>5, <1>6, <1>7 DEF Typed, TypeOK

\* One handler moves on to a state of the right shape.
LEMMA HandlerTyped ==
  ASSUME Typed, NEW h \in Handlers, NEW s \in HandlerState, Become(h, s),
         s.pc \in JobLabels => s.layer \in LAYER_ORDER,
         s.pc = "estimate_put" => s.scan.approver # "none"
  PROVE  st' \in [Handlers -> HandlerState] /\ ControlOK'
  BY DEF Typed, TypeOK, ControlOK, Become

\* A handler goes on to another await; one of a layer job only within a layer job.
LEMMA GotoTyped ==
  ASSUME Typed, NEW h \in Handlers, NEW l \in Labels, Goto(h, l),
         l \in JobLabels => st[h].pc \in JobLabels, l # "estimate_put"
  PROVE  st' \in [Handlers -> HandlerState] /\ ControlOK'
<1>. DEFINE s == [st[h] EXCEPT !.pc = l]
<1>1. s \in HandlerState /\ s.pc = l /\ s.layer = st[h].layer
  BY SMTT(30) DEF Typed, TypeOK, HandlerState
<1>2. Become(h, s)
  BY DEF Goto
<1>3. s.pc \in JobLabels => s.layer \in LAYER_ORDER
  BY <1>1 DEF Typed, ControlOK
<1>. HIDE DEF s
<1>. QED BY <1>1, <1>2, <1>3, HandlerTyped

\* A handler's promise resolves.
LEMMA ReturnTyped ==
  ASSUME Typed, NEW h \in Handlers, Return(h)
  PROVE  st' \in [Handlers -> HandlerState] /\ ControlOK'
<1>. DEFINE s == Returned(st[h])
<1>1. s \in HandlerState /\ (s.pc = "idle" \/ (s.pc = "ack" /\ s.layer \in LAYER_ORDER))
  <2>1. CASE st[h].layer = NoLayer
    BY <2>1, IdleTyped DEF Returned
  <2>2. CASE st[h].layer # NoLayer
    <3>1. st[h].layer \in LAYER_ORDER
      BY <2>2 DEF Typed, TypeOK, HandlerState
    <3>. QED BY <2>2, <3>1, IdleTyped DEF Returned, HandlerState, Labels
  <2>. QED BY <2>1, <2>2
<1>2. Become(h, s)
  BY DEF Return
<1>. HIDE DEF s
<1>. QED BY <1>1, <1>2, HandlerTyped DEF JobLabels

\* Labels that promise nothing about the handler.
Quiet == Labels \ (JobLabels \cup {"estimate_put"})

\* The awaits outside a layer job, but for the one that stores an approval.
LEMMA QuietLabels ==
  \A l \in {"start_put", "start_token", "pause_put", "cancel_put", "resume_load", "resume_token",
            "resume_put", "kill_publish", "killall_publish", "killall_publish_only", "kill_get",
            "kill_put", "fix_put", "sched_put", "enqueue", "gate_put", "complete", "partial",
            "fail", "idle", "cleanup"} : l \in Quiet
  BY DEF Quiet, Labels, Awaits, JobLabels

\* A handler goes on to an await that promises nothing.
LEMMA GotoQuiet ==
  ASSUME Typed, NEW h \in Handlers, NEW l \in Quiet, Goto(h, l)
  PROVE  st' \in [Handlers -> HandlerState] /\ ControlOK'
  BY GotoTyped DEF Quiet

\* A handler takes up a copy of the row.
LEMMA LoadTyped ==
  ASSUME Typed, NEW h \in Handlers, NEW l \in Quiet, NEW r \in Scan,
         Become(h, [st[h] EXCEPT !.pc = l, !.scan = r])
  PROVE  st' \in [Handlers -> HandlerState] /\ ControlOK'
<1>. DEFINE s == [st[h] EXCEPT !.pc = l, !.scan = r]
<1>1. s \in HandlerState /\ s.pc = l
  BY ZenonT(60) DEF Typed, TypeOK, HandlerState, Quiet
<1>. HIDE DEF s
<1>. QED BY <1>1, HandlerTyped DEF s, Quiet

\* Aborting touches the registry and the signals only.
LEMMA AbortTyped ==
  ASSUME Typed, NEW p \in Procs, abortScan(p) \/ abortAll(p)
  PROVE  /\ sig' \in [Handlers -> Signals] /\ killed' \in [Procs -> BOOLEAN]
         /\ globalKilled' \in [Procs -> BOOLEAN] /\ ctrl' \in [Procs -> BOOLEAN]
<1>1. CASE abortScan(p)
  BY <1>1 DEF Typed, TypeOK, abortScan, Signals
<1>2. CASE abortAll(p)
  BY <1>2 DEF Typed, TypeOK, abortAll, Signals
<1>. QED BY <1>1, <1>2

\* Of the layers missing from a set one is the first.
LEMMA FirstMissing ==
  ASSUME NEW S, ~(LAYER_ORDER \subseteq S)
  PROVE  \E l \in LAYER_ORDER \ S : \A m \in LAYER_ORDER \ S : l <= m
<1>1. CASE 0 \notin S
  BY <1>1 DEF LAYER_ORDER
<1>2. CASE 0 \in S /\ 1 \notin S
  BY <1>2 DEF LAYER_ORDER
<1>3. CASE {0, 1} \subseteq S /\ 2 \notin S
  BY <1>3 DEF LAYER_ORDER
<1>4. CASE {0, 1, 2} \subseteq S /\ 3 \notin S
  BY <1>4 DEF LAYER_ORDER
<1>5. CASE {0, 1, 2, 3} \subseteq S /\ 4 \notin S
  BY <1>5 DEF LAYER_ORDER
<1>6. CASE {0, 1, 2, 3, 4} \subseteq S /\ 5 \notin S
  BY <1>6 DEF LAYER_ORDER
<1>. QED BY <1>1, <1>2, <1>3, <1>4, <1>5, <1>6 DEF LAYER_ORDER

\* nextLayer is the first layer missing from its argument.
LEMMA NextLayerTyped ==
  ASSUME NEW S, nextLayer(S) # NoLayer
  PROVE  /\ nextLayer(S) \in LAYER_ORDER \ S
         /\ 0..(nextLayer(S) - 1) \subseteq S
<1>1. ~(LAYER_ORDER \subseteq S)
  BY DEF nextLayer
<1>2. \E l \in LAYER_ORDER \ S : \A m \in LAYER_ORDER \ S : l <= m
  BY <1>1, FirstMissing
<1>3. /\ nextLayer(S) \in LAYER_ORDER \ S
      /\ \A m \in LAYER_ORDER \ S : nextLayer(S) <= m
  BY <1>1, <1>2 DEF nextLayer
<1>. QED BY <1>3 DEF LAYER_ORDER

\* It is NoLayer only when none is missing.
LEMMA NextLayerNone ==
  ASSUME NEW S, nextLayer(S) = NoLayer
  PROVE  LAYER_ORDER \subseteq S
<1>. SUFFICES ASSUME ~(LAYER_ORDER \subseteq S) PROVE FALSE
  OBVIOUS
<1>1. \E l \in LAYER_ORDER \ S : \A m \in LAYER_ORDER \ S : l <= m
  BY FirstMissing
<1>2. nextLayer(S) \in LAYER_ORDER \ S
  BY <1>1 DEF nextLayer
<1>. QED BY <1>2, Layers

-----------------------------------------------------------------------------
(* Type correctness, action by action                                      *)

\* Requests, reconciliation and kill messages.
LEMMA BeginTyped ==
  ASSUME Typed, NEW h \in Handlers, Begin(h)
  PROVE  Typed'
<1>0. /\ Home[h] \in Procs /\ row \in Scan
  BY HandlersAssumption DEF Typed, TypeOK, Procs
<1>. USE QuietLabels
<1>1. CASE Start(h)
  <2>1. st' \in [Handlers -> HandlerState] /\ ControlOK'
    <3>1. Become(h, [st[h] EXCEPT !.pc = "start_put", !.scan = row])
      BY <1>1 DEF Start
    <3>. QED BY <1>0, <3>1, LoadTyped
  <2>. QED BY <1>0, <1>1, <2>1, BoundsAssumption DEF Typed, TypeOK, Start, Request
<1>2. CASE Pause(h)
  <2>1. st' \in [Handlers -> HandlerState] /\ ControlOK'
    <3>1. Become(h, [st[h] EXCEPT !.pc = "pause_put", !.scan = row])
      BY <1>2 DEF Pause
    <3>. QED BY <1>0, <3>1, LoadTyped
  <2>. QED BY <1>2, <2>1, BoundsAssumption DEF Typed, TypeOK, Pause, Request
<1>3. CASE Cancel(h)
  <2>1. st' \in [Handlers -> HandlerState] /\ ControlOK'
    <3>1. Become(h, [st[h] EXCEPT !.pc = "cancel_put", !.scan = row])
      BY <1>3 DEF Cancel
    <3>. QED BY <1>0, <3>1, LoadTyped
  <2>2. /\ sig' \in [Handlers -> Signals] /\ killed' \in [Procs -> BOOLEAN]
        /\ globalKilled' \in [Procs -> BOOLEAN] /\ ctrl' \in [Procs -> BOOLEAN]
    BY <1>0, <1>3, AbortTyped DEF Cancel
  <2>. QED BY <1>3, <2>1, <2>2, BoundsAssumption DEF Typed, TypeOK, Cancel, Request
<1>4. CASE Resume(h)
  <2>1. st' \in [Handlers -> HandlerState] /\ ControlOK'
    <3>1. Become(h, [st[h] EXCEPT !.pc = "resume_token", !.scan = row])
      BY <1>4 DEF Resume
    <3>. QED BY <1>0, <3>1, LoadTyped
  <2>. QED BY <1>4, <2>1, BoundsAssumption DEF Typed, TypeOK, Resume, Request
<1>5. CASE Reconcile(h)
  <2>1. st' \in [Handlers -> HandlerState] /\ ControlOK'
    <3>1. CASE Goto(h, "resume_load")
      BY <3>1, GotoQuiet
    <3>2. CASE UNCHANGED st
      BY <3>2 DEF Typed, TypeOK, ControlOK
    <3>. QED BY <1>5, <3>1, <3>2 DEF Reconcile
  <2>. QED BY <1>5, <2>1 DEF Typed, TypeOK, Reconcile
<1>6. CASE Kill(h)
  <2>1. st' \in [Handlers -> HandlerState] /\ ControlOK'
    BY <1>6, GotoQuiet DEF Kill
  <2>2. /\ sig' \in [Handlers -> Signals] /\ killed' \in [Procs -> BOOLEAN]
        /\ globalKilled' \in [Procs -> BOOLEAN] /\ ctrl' \in [Procs -> BOOLEAN]
    BY <1>0, <1>6, AbortTyped DEF Kill
  <2>. QED BY <1>6, <2>1, <2>2, BoundsAssumption DEF Typed, TypeOK, Kill, Request
<1>7. CASE KillAll(h)
  <2>1. st' \in [Handlers -> HandlerState] /\ ControlOK'
    BY <1>7, GotoQuiet DEF KillAll
  <2>2. /\ sig' \in [Handlers -> Signals] /\ killed' \in [Procs -> BOOLEAN]
        /\ globalKilled' \in [Procs -> BOOLEAN] /\ ctrl' \in [Procs -> BOOLEAN]
    BY <1>0, <1>7, AbortTyped DEF KillAll
  <2>. QED BY <1>7, <2>1, <2>2, BoundsAssumption DEF Typed, TypeOK, KillAll, Request
<1>8. CASE RemoteKill(h)
  <2>1. PICK scope \in mail[Home[h]] :
          /\ mail' = [mail EXCEPT ![Home[h]] = @ \ {scope}]
          /\ \/ scope = "scan" /\ abortScan(Home[h]) /\ Goto(h, "kill_get")
             \/ /\ scope = "global" /\ abortAll(Home[h])
                /\ IF ctrl[Home[h]] THEN Goto(h, "kill_get") ELSE UNCHANGED st
    BY <1>8 DEF RemoteKill
  <2>2. st' \in [Handlers -> HandlerState] /\ ControlOK'
    <3>1. CASE Goto(h, "kill_get")
      BY <3>1, GotoQuiet
    <3>2. CASE UNCHANGED st
      BY <3>2 DEF Typed, TypeOK, ControlOK
    <3>. QED BY <2>1, <3>1, <3>2
  <2>3. /\ sig' \in [Handlers -> Signals] /\ killed' \in [Procs -> BOOLEAN]
        /\ globalKilled' \in [Procs -> BOOLEAN] /\ ctrl' \in [Procs -> BOOLEAN]
    BY <1>0, <2>1, AbortTyped
  <2>4. mail' \in [Procs -> SUBSET {"scan", "global"}]
    BY <1>0, <2>1 DEF Typed, TypeOK
  <2>. QED BY <1>8, <2>2, <2>3, <2>4 DEF Typed, TypeOK, RemoteKill
<1>9. CASE ApproveEstimate(h)
  <2>. DEFINE r(role) == [status |-> "running", gateState |-> "estimate_approved", approver |-> role]
  <2>1. PICK role \in {"approver"} \cup (IF ApproverRequired THEN {} ELSE {"operator"}) :
          Become(h, [st[h] EXCEPT !.pc = "estimate_put", !.scan = r(role)])
    BY <1>9 DEF ApproveEstimate
  <2>2. r(role) \in Scan /\ r(role).approver # "none"
    BY DEF Scan, ScanStatus, GateState, Roles
  <2>. HIDE DEF r
  <2>3. st' \in [Handlers -> HandlerState] /\ ControlOK'
    <3>. DEFINE s == [st[h] EXCEPT !.pc = "estimate_put", !.scan = r(role)]
    <3>0. "estimate_put" \in Labels
      BY DEF Labels, Awaits
    <3>1. s \in HandlerState /\ s.pc = "estimate_put" /\ s.scan = r(role)
      BY <2>2, <3>0, ZenonT(60) DEF Typed, TypeOK, HandlerState
    <3>. HIDE DEF s
    <3>. QED BY <2>1, <2>2, <3>1, HandlerTyped DEF s, JobLabels
  <2>. QED BY <1>9, <2>3, BoundsAssumption DEF Typed, TypeOK, ApproveEstimate, Request
<1>10. CASE ApproveFix(h)
  <2>. DEFINE r == [row EXCEPT !.gateState = "approved", !.approver = "approver"]
  <2>1. r \in Scan
    BY <1>0 DEF Scan, GateState, Roles
  <2>2. Become(h, [st[h] EXCEPT !.pc = "fix_put", !.scan = r])
    BY <1>10 DEF ApproveFix
  <2>. HIDE DEF r
  <2>3. st' \in [Handlers -> HandlerState] /\ ControlOK'
    BY <2>1, <2>2, LoadTyped
  <2>. QED BY <1>10, <2>3, BoundsAssumption DEF Typed, TypeOK, ApproveFix, Request
<1>. QED BY <1>1, <1>2, <1>3, <1>4, <1>5, <1>6, <1>7, <1>8, <1>9, <1>10 DEF Begin

\* start, pause, cancel, resume and kill.
LEMMA StepTyped1 ==
  ASSUME Typed, NEW h \in Handlers,
         \/ StartPut(h) \/ StartToken(h) \/ PausePut(h) \/ CancelPut(h) \/ Cleanup(h)
         \/ ResumeLoad(h) \/ ResumeToken(h) \/ ResumePut(h)
         \/ KillPublish(h) \/ KillGet(h) \/ KillPut(h)
  PROVE  Typed'
<1>0. /\ Home[h] \in Procs /\ row \in Scan /\ st[h] \in HandlerState /\ st[h].scan \in Scan
      /\ \A x \in ScanStatus : [st[h].scan EXCEPT !.status = x] \in Scan
      /\ \A x \in ScanStatus, g \in GateState :
           [st[h].scan EXCEPT !.status = x, !.gateState = g] \in Scan
      /\ {"running", "paused", "cancelled"} \subseteq ScanStatus
      /\ {"rejected", "blocked"} \subseteq GateState
      /\ st[h].scan.gateState \in GateState
  BY HandlersAssumption DEF Typed, TypeOK, Procs, HandlerState, Scan, ScanStatus, GateState
<1>. USE QuietLabels
<1>1. CASE StartPut(h)
  <2>. DEFINE s == [st[h] EXCEPT !.pc = "start_token", !.scan.status = "running"]
  <2>1. s = [st[h] EXCEPT !.pc = "start_token", !.scan = [st[h].scan EXCEPT !.status = "running"]]
    BY <1>0 DEF HandlerState
  <2>2. st' \in [Handlers -> HandlerState] /\ ControlOK'
    <3>1. Become(h, s)
      BY <1>1 DEF StartPut
    <3>. QED BY <1>0, <2>1, <3>1, LoadTyped
  <2>. QED BY <1>0, <1>1, <2>2 DEF Typed, TypeOK, StartPut
<1>2. CASE StartToken(h)
  <2>. DEFINE s == [st[h] EXCEPT !.pc = "enqueue", !.next = 0]
  <2>1. s \in HandlerState /\ s.pc = "enqueue"
    BY <1>0, Layers DEF HandlerState, Quiet
  <2>2. Become(h, s)
    BY <1>2 DEF StartToken
  <2>. HIDE DEF s
  <2>3. st' \in [Handlers -> HandlerState] /\ ControlOK'
    BY <2>1, <2>2, HandlerTyped DEF Quiet
  <2>. QED BY <1>2, <2>3 DEF Typed, TypeOK, StartToken
<1>3. CASE PausePut(h)
  <2>1. st' \in [Handlers -> HandlerState] /\ ControlOK'
    BY <1>3, ReturnTyped DEF PausePut
  <2>. QED BY <1>0, <1>3, <2>1 DEF Typed, TypeOK, PausePut
<1>4. CASE CancelPut(h)
  <2>1. st' \in [Handlers -> HandlerState] /\ ControlOK'
    BY <1>4, GotoQuiet DEF CancelPut
  <2>2. row' \in Scan
    <3>. DEFINE g == IF Pending(st[h].scan) THEN "rejected" ELSE st[h].scan.gateState
    <3>1. g \in GateState
      BY <1>0
    <3>2. row' = [st[h].scan EXCEPT !.status = "cancelled", !.gateState = g]
      BY <1>4 DEF CancelPut
    <3>. HIDE DEF g
    <3>. QED BY <1>0, <3>1, <3>2
  <2>. QED BY <1>4, <2>1, <2>2 DEF Typed, TypeOK, CancelPut
<1>5. CASE Cleanup(h)
  <2>1. st' \in [Handlers -> HandlerState] /\ ControlOK'
    BY <1>5, ReturnTyped DEF Cleanup
  <2>2. sig' \in [Handlers -> Signals]
    BY <1>5 DEF Typed, TypeOK, Cleanup, Signals
  <2>. QED BY <1>0, <1>5, <2>1, <2>2 DEF Typed, TypeOK, Cleanup
<1>6. CASE ResumeLoad(h)
  <2>1. st' \in [Handlers -> HandlerState] /\ ControlOK'
    <3>1. CASE Become(h, [st[h] EXCEPT !.pc = "resume_token", !.scan = row])
      BY <1>0, <3>1, LoadTyped
    <3>2. CASE Return(h)
      BY <3>2, ReturnTyped
    <3>. QED BY <1>6, <3>1, <3>2 DEF ResumeLoad
  <2>. QED BY <1>6, <2>1 DEF Typed, TypeOK, ResumeLoad
<1>7. CASE ResumeToken(h)
  <2>. DEFINE s == [st[h] EXCEPT !.pc = "resume_put", !.done = token]
  <2>1. s \in HandlerState /\ s.pc = "resume_put"
    BY <1>0 DEF HandlerState, Quiet, Typed, TypeOK
  <2>2. Become(h, s)
    BY <1>7 DEF ResumeToken
  <2>. HIDE DEF s
  <2>3. st' \in [Handlers -> HandlerState] /\ ControlOK'
    BY <2>1, <2>2, HandlerTyped DEF Quiet
  <2>. QED BY <1>0, <1>7, <2>3 DEF Typed, TypeOK, ResumeToken
<1>8. CASE ResumePut(h)
  <2>. DEFINE r == [st[h].scan EXCEPT !.status = "running"]
              n == nextLayer(st[h].done)
  <2>1. r \in Scan
    BY <1>0
  <2>. HIDE DEF r, n
  <2>2. /\ row' = r
        /\ \/ Return(h)
           \/ Become(h, [st[h] EXCEPT !.pc = "complete", !.scan = r])
           \/ /\ n # NoLayer
              /\ Become(h, [st[h] EXCEPT !.pc = ScheduleLabel(n, r), !.scan = r, !.next = n])
    BY <1>8 DEF ResumePut, r, n
  <2>3. st' \in [Handlers -> HandlerState] /\ ControlOK'
    <3>1. CASE Return(h)
      BY <3>1, ReturnTyped
    <3>2. CASE Become(h, [st[h] EXCEPT !.pc = "complete", !.scan = r])
      BY <2>1, <3>2, LoadTyped
    <3>3. CASE /\ n # NoLayer
               /\ Become(h, [st[h] EXCEPT !.pc = ScheduleLabel(n, r), !.scan = r, !.next = n])
      <4>. DEFINE l == ScheduleLabel(n, r)
                  s == [st[h] EXCEPT !.pc = l, !.scan = r, !.next = n]
      <4>1. l \in Quiet
        BY DEF ScheduleLabel
      <4>2. n \in LAYER_ORDER
        BY <1>0, <3>3, NextLayerTyped DEF n, HandlerState
      <4>. HIDE DEF l
      <4>3. s \in HandlerState /\ s.pc = l
        BY <1>0, <2>1, <4>1, <4>2 DEF HandlerState, Quiet
      <4>4. Become(h, s)
        BY <3>3 DEF l
      <4>. HIDE DEF s
      <4>. QED BY <4>1, <4>3, <4>4, HandlerTyped DEF Quiet
    <3>. QED BY <2>2, <3>1, <3>2, <3>3
  <2>. QED BY <1>8, <2>1, <2>2, <2>3 DEF Typed, TypeOK, ResumePut
<1>9. CASE KillPublish(h)
  <2>1. st' \in [Handlers -> HandlerState] /\ ControlOK'
    BY <1>9, ReturnTyped, GotoQuiet DEF KillPublish
  <2>2. mail' \in [Procs -> SUBSET {"scan", "global"}]
    BY <1>9 DEF Typed, TypeOK, KillPublish
  <2>. QED BY <1>9, <2>1, <2>2 DEF Typed, TypeOK, KillPublish
<1>10. CASE KillGet(h)
  <2>. DEFINE l == IF isTerminalStatus(row.status) THEN "cleanup" ELSE "kill_put"
  <2>1. Become(h, [st[h] EXCEPT !.pc = l, !.scan = row]) /\ l \in Quiet
    <3>1. [st[h] EXCEPT !.scan = row, !.pc = l] = [st[h] EXCEPT !.pc = l, !.scan = row]
      BY <1>0 DEF HandlerState
    <3>. QED BY <1>10, <3>1 DEF KillGet
  <2>. HIDE DEF l
  <2>2. st' \in [Handlers -> HandlerState] /\ ControlOK'
    BY <1>0, <2>1, LoadTyped
  <2>. QED BY <1>10, <2>2 DEF Typed, TypeOK, KillGet
<1>11. CASE KillPut(h)
  <2>1. st' \in [Handlers -> HandlerState] /\ ControlOK'
    BY <1>11, GotoQuiet DEF KillPut
  <2>. QED BY <1>0, <1>11, <2>1 DEF Typed, TypeOK, KillPut
<1>. QED BY <1>1, <1>2, <1>3, <1>4, <1>5, <1>6, <1>7, <1>8, <1>9, <1>10, <1>11

\* Approvals, the queue and the layer job up to its checkpoint.
LEMMA StepTyped2 ==
  ASSUME Typed, NEW h \in Handlers,
         \/ EstimatePut(h) \/ FixPut(h) \/ SchedPut(h) \/ Enqueue(h)
         \/ JobGet(h) \/ ExecOk(h) \/ ExecFail(h)
         \/ Persist(h) \/ PersistRest(h) \/ PersistPut(h) \/ TokenGet(h) \/ TokenPut(h)
  PROVE  Typed'
<1>0. /\ Home[h] \in Procs /\ row \in Scan /\ st[h] \in HandlerState /\ st[h].scan \in Scan
      /\ \A g \in GateState : [st[h].scan EXCEPT !.gateState = g] \in Scan
      /\ {"running", "blocked"} \subseteq GateState
      /\ st[h].scan.approver \in Roles
  BY HandlersAssumption DEF Typed, TypeOK, Procs, HandlerState, Scan, GateState
<1>. USE QuietLabels
<1>1. CASE EstimatePut(h)
  <2>. DEFINE l == ScheduleLabel(1, st[h].scan)
              s == [st[h] EXCEPT !.pc = l, !.next = 1]
  <2>1. l \in Quiet
    BY DEF ScheduleLabel
  <2>2. Become(h, s)
    BY <1>1 DEF EstimatePut
  <2>. HIDE DEF l
  <2>3. s \in HandlerState /\ s.pc = l
    BY <1>0, <2>1, Layers DEF HandlerState, Quiet
  <2>. HIDE DEF s
  <2>4. st' \in [Handlers -> HandlerState] /\ ControlOK'
    BY <2>1, <2>2, <2>3, HandlerTyped DEF Quiet
  <2>5. st[h].scan.approver \in {"operator", "approver"}
    BY <1>0, <1>1 DEF EstimatePut, At, Typed, ControlOK, Roles
  <2>6. granted' \in SUBSET ({"estimate", "fix"} \X {"operator", "approver"})
    BY <1>1, <2>5 DEF EstimatePut, Typed, TypeOK
  <2>. QED BY <1>0, <1>1, <2>4, <2>6 DEF Typed, TypeOK, EstimatePut
<1>2. CASE FixPut(h)
  <2>. DEFINE s == [st[h] EXCEPT !.pc = "enqueue", !.next = 5, !.apply = TRUE]
  <2>1. s \in HandlerState /\ s.pc = "enqueue"
    BY <1>0, Layers DEF HandlerState, Quiet
  <2>2. Become(h, s)
    BY <1>2 DEF FixPut
  <2>. HIDE DEF s
  <2>3. st' \in [Handlers -> HandlerState] /\ ControlOK'
    BY <2>1, <2>2, HandlerTyped DEF Quiet
  <2>4. granted' \in SUBSET ({"estimate", "fix"} \X {"operator", "approver"})
    BY <1>2 DEF FixPut, Typed, TypeOK
  <2>. QED BY <1>0, <1>2, <2>3, <2>4 DEF Typed, TypeOK, FixPut
<1>3. CASE SchedPut(h)
  <2>. DEFINE r == [st[h].scan EXCEPT !.gateState = "running"]
  <2>1. [st[h] EXCEPT !.pc = "enqueue", !.scan.gateState = "running"] =
          [st[h] EXCEPT !.pc = "enqueue", !.scan = r]
    BY <1>0 DEF HandlerState
  <2>2. r \in Scan /\ row' = r /\ Become(h, [st[h] EXCEPT !.pc = "enqueue", !.scan = r])
    BY <1>0, <1>3, <2>1 DEF SchedPut
  <2>. HIDE DEF r
  <2>3. st' \in [Handlers -> HandlerState] /\ ControlOK'
    BY <2>2, LoadTyped
  <2>. QED BY <1>3, <2>2, <2>3 DEF Typed, TypeOK, SchedPut
<1>4. CASE Enqueue(h)
  <2>1. st' \in [Handlers -> HandlerState] /\ ControlOK'
    BY <1>4, ReturnTyped DEF Enqueue
  <2>2. buildJob(st[h]) \in Job
    BY <1>0, ConfigAssumption DEF buildJob, Job, JobState, HandlerState, computeAllowLive
  <2>3. jobs' \in [LAYER_ORDER -> Job]
    BY <1>4, <2>2 DEF Enqueue, Typed, TypeOK
  <2>. QED BY <1>4, <2>1, <2>3 DEF Typed, TypeOK, Enqueue
<1>5. CASE JobGet(h)
  <2>1. CASE Return(h) /\ UNCHANGED <<sig, ctrl>>
    <3>1. st' \in [Handlers -> HandlerState] /\ ControlOK'
      BY <2>1, ReturnTyped
    <3>. QED BY <1>5, <2>1, <3>1 DEF Typed, TypeOK, JobGet
  <2>2. CASE /\ Become(h, [st[h] EXCEPT !.pc = "exec", !.scan = row])
             /\ sig' = [sig EXCEPT ![h] = "live"]
             /\ ctrl' = [ctrl EXCEPT ![Home[h]] = TRUE]
    <3>. DEFINE s == [st[h] EXCEPT !.pc = "exec", !.scan = row]
    <3>1. "exec" \in Labels
      BY DEF Labels, Awaits
    <3>2. s \in HandlerState /\ s.pc = "exec" /\ s.layer = st[h].layer
      BY <1>0, <3>1 DEF HandlerState
    <3>3. st[h].layer \in LAYER_ORDER
      BY <1>5 DEF JobGet, At, JobLabels, Typed, ControlOK
    <3>. HIDE DEF s
    <3>4. st' \in [Handlers -> HandlerState] /\ ControlOK'
      BY <2>2, <3>2, <3>3, HandlerTyped DEF s
    <3>5. sig' \in [Handlers -> Signals] /\ ctrl' \in [Procs -> BOOLEAN]
      BY <1>0, <2>2 DEF Typed, TypeOK, Signals
    <3>. QED BY <1>5, <3>4, <3>5 DEF Typed, TypeOK, JobGet
  <2>. QED BY <1>5, <2>1, <2>2 DEF JobGet
<1>6. CASE ExecOk(h)
  <2>1. st' \in [Handlers -> HandlerState] /\ ControlOK'
    BY <1>6, GotoTyped DEF ExecOk, At, Labels, Awaits, JobLabels
  <2>. QED BY <1>6, <2>1 DEF Typed, TypeOK, ExecOk
<1>7. CASE ExecFail(h)
  <2>1. st' \in [Handlers -> HandlerState] /\ ControlOK'
    BY <1>7, ReturnTyped, GotoQuiet DEF ExecFail
  <2>2. requests' \in 0..MaxRequests /\ failures' \in 0..MaxFailures
    BY <1>7, BoundsAssumption DEF ExecFail, Failure, Typed, TypeOK
  <2>3. prOpen' \in BOOLEAN
    BY <1>7 DEF ExecFail, Typed, TypeOK
  <2>. QED BY <1>7, <2>1, <2>2, <2>3 DEF Typed, TypeOK, ExecFail
<1>8. CASE Persist(h)
  <2>1. PICK l \in {"persist_put", "token_get", "persist_rest", "fail"} : Goto(h, l)
    BY <1>8 DEF Persist
  <2>2. st' \in [Handlers -> HandlerState] /\ ControlOK'
    BY <1>8, <2>1, GotoTyped DEF Persist, At, Labels, Awaits, JobLabels
  <2>3. st[h].layer \in LAYER_ORDER
    BY <1>8 DEF Persist, At, JobLabels, Typed, ControlOK
  <2>4. /\ tiers' \in SUBSET LAYER_ORDER /\ fixes' \in {"none", "some", "all"}
        /\ eligible' \in BOOLEAN
    BY <1>8, <2>3 DEF Persist, Typed, TypeOK, LAYER_ORDER
  <2>. QED BY <1>8, <2>2, <2>4 DEF Typed, TypeOK, Persist
<1>9. CASE PersistRest(h)
  <2>1. st' \in [Handlers -> HandlerState] /\ ControlOK'
    BY <1>9, GotoTyped DEF PersistRest, At, Labels, Awaits, JobLabels
  <2>2. tiers' \in SUBSET LAYER_ORDER /\ eligible' \in BOOLEAN
    BY <1>9, Layers DEF PersistRest, Typed, TypeOK
  <2>. QED BY <1>9, <2>1, <2>2 DEF Typed, TypeOK, PersistRest
<1>10. CASE PersistPut(h)
  <2>1. st' \in [Handlers -> HandlerState] /\ ControlOK'
    BY <1>10, GotoTyped DEF PersistPut, At, Labels, Awaits, JobLabels
  <2>. QED BY <1>0, <1>10, <2>1 DEF Typed, TypeOK, PersistPut
<1>11. CASE TokenGet(h)
  <2>. DEFINE s == [st[h] EXCEPT !.pc = "token_put", !.done = token]
  <2>1. "token_put" \in Labels
    BY DEF Labels, Awaits
  <2>2. s \in HandlerState /\ s.pc = "token_put" /\ s.layer = st[h].layer
    BY <1>0, <2>1 DEF HandlerState, Typed, TypeOK
  <2>3. st[h].layer \in LAYER_ORDER
    BY <1>11 DEF TokenGet, At, JobLabels, Typed, ControlOK
  <2>4. Become(h, s)
    BY <1>11 DEF TokenGet
  <2>. HIDE DEF s
  <2>5. st' \in [Handlers -> HandlerState] /\ ControlOK'
    BY <2>2, <2>3, <2>4, HandlerTyped
  <2>. QED BY <1>11, <2>5 DEF Typed, TypeOK, TokenGet
<1>12. CASE TokenPut(h)
  <2>1. st' \in [Handlers -> HandlerState] /\ ControlOK'
    <3>1. CASE Goto(h, "reread")
      BY <1>12, <3>1, GotoTyped DEF TokenPut, At, Labels, Awaits, JobLabels
    <3>2. CASE Become(h, [st[h] EXCEPT !.pc = "partial", !.scan.gateState = "blocked"])
      <4>1. [st[h] EXCEPT !.pc = "partial", !.scan.gateState = "blocked"] =
              [st[h] EXCEPT !.pc = "partial", !.scan = [st[h].scan EXCEPT !.gateState = "blocked"]]
        BY <1>0 DEF HandlerState
      <4>. QED BY <1>0, <3>2, <4>1, LoadTyped
    <3>. QED BY <1>12, <3>1, <3>2 DEF TokenPut
  <2>2. token' \in SUBSET LAYER_ORDER
    <3>1. st[h].layer \in LAYER_ORDER
      BY <1>12 DEF TokenPut, At, JobLabels, Typed, ControlOK
    <3>. QED BY <1>0, <1>12, <3>1 DEF TokenPut, HandlerState
  <2>3. requests' \in 0..MaxRequests /\ failures' \in 0..MaxFailures
    BY <1>12, BoundsAssumption DEF TokenPut, Failure, Typed, TypeOK
  <2>. QED BY <1>12, <2>1, <2>2, <2>3 DEF Typed, TypeOK, TokenPut
<1>. QED BY <1>1, <1>2, <1>3, <1>4, <1>5, <1>6, <1>7, <1>8, <1>9, <1>10, <1>11, <1>12

\* The transition after a layer, the fix gate and the outcomes.
LEMMA StepTyped3 ==
  ASSUME Typed, NEW h \in Handlers,
         Reread(h) \/ FixGate(h) \/ GatePut(h) \/ Complete(h) \/ Fail(h)
  PROVE  Typed'
<1>0. /\ row \in Scan /\ st[h] \in HandlerState /\ st[h].scan \in Scan
      /\ \A g \in GateState : /\ [st[h].scan EXCEPT !.gateState = g] \in Scan
                              /\ [row EXCEPT !.gateState = g] \in Scan
      /\ \A x \in ScanStatus : [st[h].scan EXCEPT !.status = x] \in Scan
      /\ {"estimate_pending", "estimate_approved", "fix_gate_pending", "auto_approved"} \subseteq GateState
      /\ {"partial", "completed", "failed"} \subseteq ScanStatus
      /\ row.gateState \in GateState
  BY DEF Typed, TypeOK, HandlerState, Scan, GateState, ScanStatus
<1>. USE QuietLabels
<1>1. CASE Reread(h)
  <2>. DEFINE a == Advance(row, st[h].layer)
              r == [row EXCEPT !.gateState = a.gate]
              s == [st[h] EXCEPT !.pc = a.pc, !.next = a.next, !.scan = r]
  <2>1. Return(h) \/ Become(h, s)
    BY <1>1 DEF Reread
  <2>2. CASE Return(h)
    <3>1. st' \in [Handlers -> HandlerState] /\ ControlOK'
      BY <2>2, ReturnTyped
    <3>. QED BY <1>1, <3>1 DEF Typed, TypeOK, Reread
  <2>3. CASE Become(h, s)
    <3>1. st[h].layer \in LAYER_ORDER
      BY <1>1 DEF Reread, At, JobLabels, Typed, ControlOK
    <3>2. /\ a.pc \in Quiet \/ a.pc = "fix_gate"
          /\ a.next \in LAYER_ORDER \cup {NoLayer}
          /\ a.gate \in GateState
      BY <1>0, <3>1, Layers DEF Advance
    <3>. HIDE DEF a
    <3>3. a.pc \in Labels
      BY <3>2 DEF Quiet, Labels, Awaits
    <3>4. r \in Scan
      BY <1>0, <3>2
    <3>. HIDE DEF r
    <3>5. s \in HandlerState /\ s.pc = a.pc /\ s.layer = st[h].layer
      BY <1>0, <3>2, <3>3, <3>4 DEF HandlerState
    <3>. HIDE DEF s
    <3>6. s.pc # "estimate_put"
      BY <3>2, <3>5 DEF Quiet
    <3>7. st' \in [Handlers -> HandlerState] /\ ControlOK'
      BY <2>3, <3>1, <3>5, <3>6, HandlerTyped
    <3>. QED BY <1>1, <3>7 DEF Typed, TypeOK, Reread
  <2>. QED BY <2>1, <2>2, <2>3
<1>2. CASE FixGate(h)
  <2>1. st' \in [Handlers -> HandlerState] /\ ControlOK'
    <3>1. CASE Become(h, [st[h] EXCEPT !.pc = "gate_put", !.scan.gateState = "fix_gate_pending"])
      <4>1. [st[h] EXCEPT !.pc = "gate_put", !.scan.gateState = "fix_gate_pending"] =
              [st[h] EXCEPT !.pc = "gate_put",
                            !.scan = [st[h].scan EXCEPT !.gateState = "fix_gate_pending"]]
        BY <1>0 DEF HandlerState
      <4>. QED BY <1>0, <3>1, <4>1, LoadTyped
    <3>2. CASE Become(h, [st[h] EXCEPT !.pc = "gate_put", !.scan.gateState = "auto_approved",
                                       !.next = 5, !.apply = evaluateFixGate])
      <4>. DEFINE s == [st[h] EXCEPT !.pc = "gate_put", !.scan.gateState = "auto_approved",
                                     !.next = 5, !.apply = evaluateFixGate]
      <4>1. evaluateFixGate \in BOOLEAN
        BY DEF evaluateFixGate
      <4>2. s \in HandlerState /\ s.pc = "gate_put"
        BY <1>0, <4>1, Layers DEF HandlerState, Quiet
      <4>. HIDE DEF s
      <4>. QED BY <3>2, <4>2, HandlerTyped DEF s, Quiet
    <3>. QED BY <1>2, <3>1, <3>2 DEF FixGate
  <2>. QED BY <1>2, <2>1 DEF Typed, TypeOK, FixGate
<1>3. CASE GatePut(h)
  <2>1. ScheduleLabel(st[h].next, st[h].scan) \in Quiet
    BY DEF ScheduleLabel
  <2>2. st' \in [Handlers -> HandlerState] /\ ControlOK'
    BY <1>3, <2>1, ReturnTyped, GotoQuiet DEF GatePut
  <2>. QED BY <1>0, <1>3, <2>2 DEF Typed, TypeOK, GatePut
<1>4. CASE Complete(h)
  <2>1. st' \in [Handlers -> HandlerState] /\ ControlOK'
    BY <1>4, GotoQuiet DEF Complete
  <2>. QED BY <1>0, <1>4, <2>1 DEF Typed, TypeOK, Complete
<1>5. CASE Fail(h)
  <2>1. st' \in [Handlers -> HandlerState] /\ ControlOK'
    BY <1>5, ReturnTyped DEF Fail
  <2>. QED BY <1>0, <1>5, <2>1 DEF Typed, TypeOK, Fail
<1>. QED BY <1>1, <1>2, <1>3, <1>4, <1>5

\* A job that is settled or redelivered.
LEMMA SettleTyped ==
  ASSUME Typed, NEW h \in Handlers, NEW outcome \in {"done", "failed"}, Settle(h, outcome)
  PROVE  /\ jobs' \in [LAYER_ORDER -> Job] /\ owner' \in [LAYER_ORDER -> Handlers \cup {NoHandler}]
         /\ st' \in [Handlers -> HandlerState] /\ ControlOK'
         /\ sig' \in [Handlers -> Signals]
<1>1. jobs' \in [LAYER_ORDER -> Job]
  <2>1. \A l \in LAYER_ORDER : [jobs[l] EXCEPT !.state = outcome] \in Job
    BY DEF Typed, TypeOK, Job, JobState
  <2>2. jobs' = jobs \/ jobs' = [jobs EXCEPT ![st[h].layer] = [jobs[st[h].layer] EXCEPT !.state = outcome]]
    BY DEF Settle
  <2>. QED BY <2>1, <2>2 DEF Typed, TypeOK
<1>2. owner' \in [LAYER_ORDER -> Handlers \cup {NoHandler}]
  BY DEF Settle, Typed, TypeOK
<1>3. st' \in [Handlers -> HandlerState] /\ ControlOK'
  BY IdleTyped, HandlerTyped DEF Settle, JobLabels
<1>4. sig' \in [Handlers -> Signals]
  BY DEF Settle, Typed, TypeOK, Signals
<1>. QED BY <1>1, <1>2, <1>3, <1>4

\* Jobs taken, acknowledged and failed.
LEMMA QueueTyped ==
  ASSUME Typed, NEW h \in Handlers, NEW l \in LAYER_ORDER,
         Ack(h) \/ StoreError(h) \/ TakeJob(h, l)
  PROVE  Typed'
<1>0. jobs[l] \in Job
  BY DEF Typed, TypeOK
<1>1. CASE Ack(h)
  <2>1. /\ jobs' \in [LAYER_ORDER -> Job] /\ owner' \in [LAYER_ORDER -> Handlers \cup {NoHandler}]
        /\ st' \in [Handlers -> HandlerState] /\ ControlOK' /\ sig' \in [Handlers -> Signals]
    BY <1>1, SettleTyped DEF Ack
  <2>. QED BY <1>1, <2>1 DEF Typed, TypeOK, Ack
<1>2. CASE StoreError(h)
  <2>1. /\ jobs' \in [LAYER_ORDER -> Job] /\ owner' \in [LAYER_ORDER -> Handlers \cup {NoHandler}]
        /\ st' \in [Handlers -> HandlerState] /\ ControlOK' /\ sig' \in [Handlers -> Signals]
    <3>1. CASE Settle(h, "failed")
      BY <3>1, SettleTyped
    <3>2. CASE Goto(h, "fail") /\ UNCHANGED <<queue, sig>>
      BY <3>2, QuietLabels, GotoQuiet DEF Typed, TypeOK
    <3>. QED BY <1>2, <3>1, <3>2 DEF StoreError
  <2>. QED BY <1>2, <2>1, BoundsAssumption DEF Typed, TypeOK, StoreError, Failure
<1>3. CASE TakeJob(h, l)
  <2>. DEFINE k == IF isKilled(Home[h]) THEN "ack" ELSE "job_get"
              s == [Idle EXCEPT !.layer = l, !.auto = jobs[l].auto, !.live = jobs[l].live, !.pc = k]
  <2>1. k \in Labels /\ k # "estimate_put"
    BY DEF Labels, Awaits
  <2>2. Become(h, s)
    BY <1>3 DEF TakeJob
  <2>. HIDE DEF k
  <2>3. s \in HandlerState /\ s.pc = k /\ s.layer = l
    BY <1>0, <2>1, IdleTyped DEF HandlerState, Job
  <2>. HIDE DEF s
  <2>4. st' \in [Handlers -> HandlerState] /\ ControlOK'
    BY <2>1, <2>2, <2>3, HandlerTyped
  <2>5. jobs' \in [LAYER_ORDER -> Job]
    <3>1. [jobs[l] EXCEPT !.state = "active"] \in Job
      BY <1>0 DEF Job, JobState
    <3>2. jobs' = [jobs EXCEPT ![l] = [jobs[l] EXCEPT !.state = "active"]]
      BY <1>3 DEF TakeJob
    <3>. QED BY <3>1, <3>2 DEF Typed, TypeOK
  <2>6. owner' \in [LAYER_ORDER -> Handlers \cup {NoHandler}]
    BY <1>3 DEF TakeJob, Typed, TypeOK
  <2>. QED BY <1>3, <2>4, <2>5, <2>6 DEF Typed, TypeOK, TakeJob
<1>. QED BY <1>1, <1>2, <1>3

\* Jobs evicted and redelivered.
LEMMA RedeliveryTyped ==
  ASSUME Typed, NEW l \in LAYER_ORDER, Evict(l) \/ Stall(l)
  PROVE  Typed'
<1>0. jobs[l] \in Job
  BY DEF Typed, TypeOK
<1>1. CASE Evict(l)
  <2>1. jobs' \in [LAYER_ORDER -> Job]
    <3>1. NoJob \in Job
      BY DEF NoJob, Job, JobState
    <3>. QED BY <1>1, <3>1 DEF Evict, Typed, TypeOK
  <2>2. ControlOK'
    BY <1>1 DEF Evict, Typed, ControlOK
  <2>. QED BY <1>1, <2>1, <2>2, BoundsAssumption DEF Typed, TypeOK, Evict, Failure
<1>2. CASE Stall(l)
  <2>1. jobs' \in [LAYER_ORDER -> Job]
    <3>. DEFINE j == [jobs[l] EXCEPT !.state = IF jobs[l].stalls = 0 THEN "waiting" ELSE "failed",
                                     !.stalls = 1]
    <3>0. 1 \in 0..1 /\ {"waiting", "failed"} \subseteq JobState
      BY DEF JobState
    <3>1. j \in Job
      BY <1>0, <3>0 DEF Job
    <3>2. jobs' = [jobs EXCEPT ![l] = j]
      BY <1>2 DEF Stall
    <3>. HIDE DEF j
    <3>. QED BY <3>1, <3>2 DEF Typed, TypeOK
  <2>2. requests' \in 0..MaxRequests /\ failures' \in 0..MaxFailures
    BY <1>2, BoundsAssumption DEF Stall, Failure, Typed, TypeOK
  <2>3. ControlOK'
    BY <1>2 DEF Stall, Typed, ControlOK
  <2>4. owner' \in [LAYER_ORDER -> Handlers \cup {NoHandler}]
    BY <1>2 DEF Stall, Typed, TypeOK
  <2>. QED BY <1>2, <2>1, <2>2, <2>3, <2>4 DEF Typed, TypeOK, Stall
<1>. QED BY <1>1, <1>2

\* A process crash.
LEMMA CrashTyped ==
  ASSUME Typed, NEW p \in Procs, Crash(p)
  PROVE  Typed'
<1>1. st' \in [Handlers -> HandlerState] /\ ControlOK'
  <2>1. st' \in [Handlers -> HandlerState]
    BY IdleTyped DEF Crash, Typed, TypeOK
  <2>2. \A h \in Handlers : st'[h] = st[h] \/ st'[h] = Idle
    BY DEF Crash
  <2>3. ControlOK'
    BY <2>2, IdleTyped DEF Typed, ControlOK, JobLabels
  <2>. QED BY <2>1, <2>3
<1>2. sig' \in [Handlers -> Signals]
  BY DEF Crash, Typed, TypeOK, Signals
<1>3. owner' \in [LAYER_ORDER -> Handlers \cup {NoHandler}]
  BY DEF Crash, Typed, TypeOK
<1>4. /\ killed' \in [Procs -> BOOLEAN] /\ globalKilled' \in [Procs -> BOOLEAN]
      /\ ctrl' \in [Procs -> BOOLEAN] /\ schedulerStarted' \in [Procs -> BOOLEAN]
      /\ mail' \in [Procs -> SUBSET {"scan", "global"}] /\ booted' \in [Procs -> BOOLEAN]
  BY DEF Crash, Typed, TypeOK
<1>5. requests' \in 0..MaxRequests /\ failures' \in 0..MaxFailures
  BY BoundsAssumption DEF Crash, Failure, Typed, TypeOK
<1>. QED BY <1>1, <1>2, <1>3, <1>4, <1>5 DEF Crash, Typed, TypeOK

\* Every step keeps the types and the control facts.
LEMMA NextTyped == Typed /\ [Next]_vars => Typed'
<1>. SUFFICES ASSUME Typed, [Next]_vars PROVE Typed'
  OBVIOUS
<1>0. 0 \in LAYER_ORDER
  BY Layers
<1>1. ASSUME NEW h \in Handlers, Begin(h) \/ Step(h) \/ StoreError(h) PROVE Typed'
  BY <1>0, <1>1, BeginTyped, StepTyped1, StepTyped2, StepTyped3, QueueTyped DEF Step
<1>2. ASSUME NEW h \in Handlers, NEW l \in LAYER_ORDER, TakeJob(h, l) PROVE Typed'
  BY <1>2, QueueTyped
<1>3. ASSUME NEW l \in LAYER_ORDER, Evict(l) \/ Stall(l) PROVE Typed'
  BY <1>3, RedeliveryTyped
<1>4. ASSUME NEW p \in Procs, Crash(p) PROVE Typed'
  BY <1>4, CrashTyped
<1>5. CASE UNCHANGED vars
  BY <1>5 DEF vars, Typed, TypeOK, ControlOK
<1>. QED BY <1>1, <1>2, <1>3, <1>4, <1>5 DEF Next

\* The inductive invariant.
LEMMA AlwaysTyped == Spec => []Typed
  BY InitTyped, NextTyped, PTL DEF Spec

\* Every variable keeps its type in every behaviour.
THEOREM TypeCorrect == Spec => []TypeOK
<1>1. Typed => TypeOK
  BY DEF Typed
<1>. QED BY <1>1, AlwaysTyped, PTL

-----------------------------------------------------------------------------
(* One handler at a time                                                   *)

\* The awaits of resume().
Resuming == {"resume_load", "resume_token", "resume_put"}

\* What a handler keeps when it goes on as t: the job it processes, and a
\* reason for running a layer, for going on to Layer 1 and for resuming.
Keeps(h, t) ==
  /\ t.layer = st[h].layer
  /\ t.pc = "exec" => ~isKilled(Home[h]) /\ JobGet(h)
  /\ t.next = 1 => \/ st[h].next = 1 \/ ~EstimateRequired
                   \/ st[h].pc \in {"estimate_put", "resume_put"}
  /\ t.pc \in Resuming => st[h].pc \in Resuming \/ "resume" \in Ops \/ "reconcile" \in Ops

\* A step of the handler that keeps those reasons.
Moved(h) == \E t : Become(h, t) /\ Keeps(h, t)

\* The awaits that owe no reason.
Plain == Labels \ (Resuming \cup {"exec"})

\* What the plain awaits are not.
LEMMA PlainLabels ==
  \A l \in Labels : l \notin {"exec", "resume_load", "resume_token", "resume_put"} => l \in Plain
  BY DEF Plain, Resuming

\* Going on to a plain await keeps the reasons.
LEMMA GotoMoved ==
  ASSUME Typed, NEW h \in Handlers, NEW l \in Plain, Goto(h, l)
  PROVE  Moved(h)
<1>1. st[h] \in HandlerState
  BY DEF Typed, TypeOK
<1>2. Keeps(h, [st[h] EXCEPT !.pc = l])
  BY <1>1 DEF Keeps, HandlerState, Plain
<1>. QED BY <1>2 DEF Moved, Goto

\* So does going on to one with the row just read.
LEMMA LoadMoved ==
  ASSUME Typed, NEW h \in Handlers, NEW l \in Plain, NEW r,
         Become(h, [st[h] EXCEPT !.pc = l, !.scan = r])
  PROVE  Moved(h)
<1>1. st[h] \in HandlerState
  BY DEF Typed, TypeOK
<1>2. Keeps(h, [st[h] EXCEPT !.pc = l, !.scan = r])
  BY <1>1 DEF Keeps, HandlerState, Plain
<1>. QED BY <1>2 DEF Moved

\* So does returning to idle.
LEMMA ReturnMoved ==
  ASSUME Typed, NEW h \in Handlers, Return(h)
  PROVE  Moved(h)
<1>1. Keeps(h, Returned(st[h]))
  BY DEF Keeps, Returned, Idle, Resuming, NoLayer
<1>. QED BY <1>1 DEF Moved, Return

\* A handler that stays where it is, because it does not answer the message.
LEMMA StayMoved ==
  ASSUME Typed, NEW h \in Handlers, UNCHANGED st, st[h].pc # "exec"
  PROVE  Moved(h)
<1>1. Become(h, st[h])
  BY DEF Become, Typed, TypeOK
<1>2. Keeps(h, st[h])
  BY DEF Keeps
<1>. QED BY <1>1, <1>2 DEF Moved

\* Every request, reconciliation and kill message starts its handler at a
\* plain await; only resume() and the reconciliation start one that resumes.
LEMMA BeginMoved ==
  ASSUME Typed, NEW h \in Handlers, Begin(h)
  PROVE  Moved(h) /\ UNCHANGED <<jobs, owner, granted>>
<1>0. st[h] \in HandlerState
  BY DEF Typed, TypeOK
<1>. USE PlainLabels DEF Labels, Awaits
<1>1. CASE Start(h)
  BY <1>1, LoadMoved DEF Start
<1>2. CASE Pause(h)
  BY <1>2, LoadMoved DEF Pause
<1>3. CASE Cancel(h)
  BY <1>3, LoadMoved DEF Cancel
<1>4. CASE Resume(h)
  <2>1. Keeps(h, [st[h] EXCEPT !.pc = "resume_token", !.scan = row])
    BY <1>0, <1>4 DEF Resume, Request, Keeps, HandlerState
  <2>. QED BY <1>4, <2>1 DEF Resume, Moved
<1>5. CASE Reconcile(h)
  <2>1. CASE Goto(h, "resume_load")
    <3>1. Keeps(h, [st[h] EXCEPT !.pc = "resume_load"])
      BY <1>0, <1>5 DEF Reconcile, Keeps, HandlerState
    <3>. QED BY <1>5, <2>1, <3>1 DEF Reconcile, Moved, Goto
  <2>2. CASE UNCHANGED st
    BY <1>5, <2>2, StayMoved DEF Reconcile, At
  <2>. QED BY <1>5, <2>1, <2>2 DEF Reconcile
<1>6. CASE Kill(h)
  BY <1>6, GotoMoved DEF Kill
<1>7. CASE KillAll(h)
  BY <1>7, GotoMoved DEF KillAll
<1>8. CASE RemoteKill(h)
  <2>1. CASE Goto(h, "kill_get")
    BY <1>8, <2>1, GotoMoved DEF RemoteKill
  <2>2. CASE UNCHANGED st
    BY <1>8, <2>2, StayMoved DEF RemoteKill, At
  <2>. QED BY <1>8, <2>1, <2>2 DEF RemoteKill
<1>9. CASE ApproveEstimate(h)
  BY <1>9, LoadMoved DEF ApproveEstimate
<1>10. CASE ApproveFix(h)
  BY <1>10, LoadMoved DEF ApproveFix
<1>. QED BY <1>1, <1>2, <1>3, <1>4, <1>5, <1>6, <1>7, <1>8, <1>9, <1>10 DEF Begin

\* A step of a handler other than an acknowledgement adds at most the job it
\* schedules, and approves the estimate only by storing the approval.
LEMMA StepMoved ==
  ASSUME Typed, NEW h \in Handlers, Step(h), ~Ack(h)
  PROVE  /\ Moved(h) /\ owner' = owner
         /\ \/ jobs' = jobs
            \/ /\ st[h].pc = "enqueue" /\ jobs[st[h].next].state = "none"
               /\ jobs' = [jobs EXCEPT ![st[h].next] = buildJob(st[h])]
         /\ granted \subseteq granted'
         /\ st[h].pc = "estimate_put" => <<"estimate", st[h].scan.approver>> \in granted'
<1>0. st[h] \in HandlerState
  BY DEF Typed, TypeOK
<1>. USE PlainLabels DEF Labels, Awaits
<1>1. CASE StartPut(h)
  <2>. DEFINE t == [st[h] EXCEPT !.pc = "start_token", !.scan.status = "running"]
  <2>1. Keeps(h, t)
    BY <1>0 DEF HandlerState, Keeps, Resuming
  <2>. QED BY <1>1, <2>1 DEF StartPut, Moved, At
<1>2. CASE StartToken(h)
  <2>. DEFINE t == [st[h] EXCEPT !.pc = "enqueue", !.next = 0]
  <2>1. Keeps(h, t)
    BY <1>0 DEF HandlerState, Keeps, Resuming
  <2>. QED BY <1>2, <2>1 DEF StartToken, Moved, At
<1>3. CASE PausePut(h)
  BY <1>3, ReturnMoved DEF PausePut, At
<1>4. CASE CancelPut(h)
  BY <1>4, GotoMoved DEF CancelPut, At
<1>5. CASE Cleanup(h)
  BY <1>5, ReturnMoved DEF Cleanup, At
<1>6. CASE ResumeLoad(h)
  <2>1. CASE Return(h)
    BY <1>6, <2>1, ReturnMoved DEF ResumeLoad, At
  <2>2. CASE Become(h, [st[h] EXCEPT !.pc = "resume_token", !.scan = row])
    <3>1. Keeps(h, [st[h] EXCEPT !.pc = "resume_token", !.scan = row])
      BY <1>0, <1>6 DEF ResumeLoad, At, HandlerState, Keeps, Resuming
    <3>. QED BY <1>6, <2>2, <3>1 DEF ResumeLoad, Moved, At
  <2>. QED BY <1>6, <2>1, <2>2 DEF ResumeLoad
<1>7. CASE ResumeToken(h)
  <2>1. Keeps(h, [st[h] EXCEPT !.pc = "resume_put", !.done = token])
    BY <1>0, <1>7 DEF ResumeToken, At, HandlerState, Keeps, Resuming
  <2>. QED BY <1>7, <2>1 DEF ResumeToken, Moved, At
<1>8. CASE ResumePut(h)
  <2>. DEFINE s == [st[h].scan EXCEPT !.status = "running"]
              n == nextLayer(st[h].done)
  <2>0. At(h, "resume_put")
    BY <1>8 DEF ResumePut
  <2>1. CASE Return(h)
    BY <1>8, <2>1, ReturnMoved DEF ResumePut, At
  <2>2. CASE Become(h, [st[h] EXCEPT !.pc = "complete", !.scan = s])
    <3>. HIDE DEF s
    <3>1. Moved(h)
      BY <2>2, LoadMoved
    <3>. QED BY <1>8, <3>1 DEF ResumePut, At
  <2>3. CASE Become(h, [st[h] EXCEPT !.pc = ScheduleLabel(n, s), !.scan = s, !.next = n])
    <3>. DEFINE k == ScheduleLabel(n, s)
    <3>1. k \in {"sched_put", "enqueue"}
      BY DEF ScheduleLabel
    <3>. HIDE DEF s, n, k
    <3>2. Keeps(h, [st[h] EXCEPT !.pc = k, !.scan = s, !.next = n])
      BY <1>0, <2>0, <3>1 DEF At, HandlerState, Keeps, Resuming
    <3>3. Moved(h)
      BY <2>3, <3>2 DEF Moved, k
    <3>. QED BY <1>8, <3>3 DEF ResumePut, At
  <2>. QED BY <1>8, <2>1, <2>2, <2>3 DEF ResumePut
<1>9. CASE KillPublish(h)
  BY <1>9, ReturnMoved, GotoMoved DEF KillPublish, At
<1>10. CASE KillGet(h)
  <2>. DEFINE k == IF isTerminalStatus(row.status) THEN "cleanup" ELSE "kill_put"
  <2>1. k \in Plain
    OBVIOUS
  <2>2. Become(h, [st[h] EXCEPT !.scan = row, !.pc = k])
    BY <1>10 DEF KillGet
  <2>. HIDE DEF k
  <2>3. Keeps(h, [st[h] EXCEPT !.scan = row, !.pc = k])
    BY <1>0, <2>1 DEF Keeps, HandlerState, Plain
  <2>4. Moved(h)
    BY <2>2, <2>3 DEF Moved
  <2>. QED BY <1>10, <2>4 DEF KillGet, At
<1>11. CASE KillPut(h)
  BY <1>11, GotoMoved DEF KillPut, At
<1>12. CASE EstimatePut(h)
  <2>. DEFINE k == ScheduleLabel(1, st[h].scan)
  <2>1. k \in {"sched_put", "enqueue"}
    BY DEF ScheduleLabel
  <2>2. Become(h, [st[h] EXCEPT !.pc = k, !.next = 1]) /\ st[h].pc = "estimate_put"
    BY <1>12 DEF EstimatePut, At
  <2>. HIDE DEF k
  <2>3. Keeps(h, [st[h] EXCEPT !.pc = k, !.next = 1])
    BY <1>0, <2>1, <2>2 DEF Keeps, HandlerState, Resuming
  <2>4. Moved(h)
    BY <2>2, <2>3 DEF Moved
  <2>. QED BY <1>12, <2>4 DEF EstimatePut
<1>13. CASE FixPut(h)
  <2>1. Keeps(h, [st[h] EXCEPT !.pc = "enqueue", !.next = 5, !.apply = TRUE])
    BY <1>0 DEF Keeps, HandlerState, Resuming
  <2>. QED BY <1>13, <2>1 DEF FixPut, Moved, At
<1>14. CASE SchedPut(h)
  <2>1. Keeps(h, [st[h] EXCEPT !.pc = "enqueue", !.scan.gateState = "running"])
    BY <1>0 DEF Keeps, HandlerState, Resuming
  <2>. QED BY <1>14, <2>1 DEF SchedPut, Moved, At
<1>15. CASE Enqueue(h)
  <2>1. Moved(h) /\ owner' = owner /\ granted' = granted /\ st[h].pc = "enqueue"
    BY <1>15, ReturnMoved DEF Enqueue, At
  <2>2. \/ jobs' = jobs
        \/ /\ jobs[st[h].next].state = "none"
           /\ jobs' = [jobs EXCEPT ![st[h].next] = buildJob(st[h])]
    BY <1>15 DEF Enqueue, Typed, TypeOK
  <2>. QED BY <2>1, <2>2
<1>16. CASE JobGet(h)
  <2>1. CASE Return(h)
    BY <1>16, <2>1, ReturnMoved DEF JobGet, At
  <2>2. CASE ~isKilled(Home[h]) /\ Become(h, [st[h] EXCEPT !.pc = "exec", !.scan = row])
    <3>1. Keeps(h, [st[h] EXCEPT !.pc = "exec", !.scan = row])
      BY <1>0, <1>16, <2>2 DEF HandlerState, Keeps, Resuming
    <3>. QED BY <1>16, <2>2, <3>1 DEF JobGet, Moved, At
  <2>. QED BY <1>16, <2>1, <2>2 DEF JobGet
<1>17. CASE ExecOk(h)
  BY <1>17, GotoMoved DEF ExecOk, At
<1>18. CASE ExecFail(h)
  BY <1>18, ReturnMoved, GotoMoved DEF ExecFail, At
<1>19. CASE Persist(h)
  BY <1>19, GotoMoved DEF Persist, At
<1>20. CASE PersistRest(h)
  BY <1>20, GotoMoved DEF PersistRest, At
<1>21. CASE PersistPut(h)
  BY <1>21, GotoMoved DEF PersistPut, At
<1>22. CASE TokenGet(h)
  <2>1. Keeps(h, [st[h] EXCEPT !.pc = "token_put", !.done = token])
    BY <1>0 DEF Keeps, HandlerState, Resuming
  <2>. QED BY <1>22, <2>1 DEF TokenGet, Moved, At
<1>23. CASE TokenPut(h)
  <2>1. CASE Goto(h, "reread")
    BY <1>23, <2>1, GotoMoved DEF TokenPut, At
  <2>2. CASE Become(h, [st[h] EXCEPT !.pc = "partial", !.scan.gateState = "blocked"])
    <3>1. Keeps(h, [st[h] EXCEPT !.pc = "partial", !.scan.gateState = "blocked"])
      BY <1>0 DEF Keeps, HandlerState, Resuming
    <3>. QED BY <1>23, <2>2, <3>1 DEF TokenPut, Moved, At
  <2>. QED BY <1>23, <2>1, <2>2 DEF TokenPut
<1>24. CASE Reread(h)
  <2>. DEFINE a == Advance(row, st[h].layer)
              r == [row EXCEPT !.gateState = a.gate]
  <2>1. CASE Return(h)
    BY <1>24, <2>1, ReturnMoved DEF Reread, At
  <2>2. CASE Become(h, [st[h] EXCEPT !.pc = a.pc, !.next = a.next, !.scan = r])
    <3>0. st[h].layer \in LAYER_ORDER
      BY <1>24 DEF Reread, At, Typed, ControlOK, JobLabels
    <3>1. a.pc \in {"gate_put", "enqueue", "fix_gate", "complete"} /\ (a.next = 1 => ~EstimateRequired)
      BY <3>0, Layers, ConfigAssumption DEF Advance, NoLayer
    <3>. HIDE DEF a, r
    <3>2. Keeps(h, [st[h] EXCEPT !.pc = a.pc, !.next = a.next, !.scan = r])
      BY <1>0, <3>1 DEF Keeps, HandlerState, Resuming
    <3>3. Moved(h)
      BY <2>2, <3>2 DEF Moved
    <3>. QED BY <1>24, <3>3 DEF Reread, At
  <2>. QED BY <1>24, <2>1, <2>2 DEF Reread
<1>25. CASE FixGate(h)
  <2>1. CASE Become(h, [st[h] EXCEPT !.pc = "gate_put", !.scan.gateState = "fix_gate_pending"])
    <3>1. Keeps(h, [st[h] EXCEPT !.pc = "gate_put", !.scan.gateState = "fix_gate_pending"])
      BY <1>0 DEF Keeps, HandlerState, Resuming
    <3>. QED BY <1>25, <2>1, <3>1 DEF FixGate, Moved, At
  <2>2. CASE Become(h, [st[h] EXCEPT !.pc = "gate_put", !.scan.gateState = "auto_approved",
                                     !.next = 5, !.apply = evaluateFixGate])
    <3>1. Keeps(h, [st[h] EXCEPT !.pc = "gate_put", !.scan.gateState = "auto_approved",
                                 !.next = 5, !.apply = evaluateFixGate])
      BY <1>0 DEF Keeps, HandlerState, Resuming
    <3>. QED BY <1>25, <2>2, <3>1 DEF FixGate, Moved, At
  <2>. QED BY <1>25, <2>1, <2>2 DEF FixGate
<1>26. CASE GatePut(h)
  <2>1. ScheduleLabel(st[h].next, st[h].scan) \in Plain
    BY DEF ScheduleLabel
  <2>. QED BY <1>26, <2>1, ReturnMoved, GotoMoved DEF GatePut, At
<1>27. CASE Complete(h)
  BY <1>27, GotoMoved DEF Complete, At
<1>28. CASE Fail(h)
  BY <1>28, ReturnMoved DEF Fail, At
<1>. QED BY <1>1, <1>2, <1>3, <1>4, <1>5, <1>6, <1>7, <1>8, <1>9, <1>10, <1>11, <1>12, <1>13, <1>14,
        <1>15, <1>16, <1>17, <1>18, <1>19, <1>20, <1>21, <1>22, <1>23, <1>24, <1>25, <1>26, <1>27,
        <1>28 DEF Step

\* The handler goes on as t, and the others stay where they are.
LEMMA BecomeFacts ==
  ASSUME Typed, NEW h \in Handlers, NEW t, Become(h, t)
  PROVE  st'[h] = t /\ \A g \in Handlers \ {h} : st'[g] = st[g]
  BY DEF Become, Typed, TypeOK

\* A process that knows of a kill starts no layer any more: every way into the
\* runner asks isKilled after the last await before it.
THEOREM KillStops == Spec => KillStopsStart
<1>1. ASSUME Typed, Next, NEW h \in Handlers, isKilled(Home[h]), ~At(h, "exec")
      PROVE  st'[h].pc # "exec"
  <2>. USE <1>1
  <2>1. ASSUME NEW g \in Handlers, Moved(g) PROVE st'[h].pc # "exec"
    <3>1. PICK t : Become(g, t) /\ Keeps(g, t)
      BY <2>1 DEF Moved
    <3>. QED BY <3>1, BecomeFacts DEF Keeps, At
  <2>2. ASSUME NEW g \in Handlers, NEW t, Become(g, t), t.pc # "exec" PROVE st'[h].pc # "exec"
    BY <2>2, BecomeFacts DEF At
  <2>3. ASSUME NEW g \in Handlers, NEW o, Settle(g, o) PROVE st'[h].pc # "exec"
    BY <2>2, <2>3, IdleTyped DEF Settle
  <2>4. ASSUME NEW g \in Handlers, Begin(g) \/ Step(g) PROVE st'[h].pc # "exec"
    BY <2>1, <2>3, <2>4, BeginMoved, StepMoved DEF Ack
  <2>5. ASSUME NEW g \in Handlers, StoreError(g) PROVE st'[h].pc # "exec"
    <3>1. CASE Goto(g, "fail")
      <4>1. [st[g] EXCEPT !.pc = "fail"].pc # "exec"
        BY DEF Typed, TypeOK, HandlerState
      <4>. QED BY <2>2, <3>1, <4>1 DEF Goto
    <3>. QED BY <2>3, <2>5, <3>1 DEF StoreError
  <2>6. ASSUME NEW g \in Handlers, NEW l \in LAYER_ORDER, TakeJob(g, l) PROVE st'[h].pc # "exec"
    <3>. DEFINE t == [Idle EXCEPT !.layer = l, !.auto = jobs[l].auto, !.live = jobs[l].live,
                                  !.pc = IF isKilled(Home[g]) THEN "ack" ELSE "job_get"]
    <3>1. t.pc # "exec"
      BY DEF Idle
    <3>2. Become(g, t)
      BY <2>6 DEF TakeJob
    <3>. HIDE DEF t
    <3>. QED BY <2>2, <3>1, <3>2
  <2>7. ASSUME NEW l \in LAYER_ORDER, Evict(l) \/ Stall(l) PROVE st'[h].pc # "exec"
    BY <2>7 DEF Evict, Stall, At
  <2>8. ASSUME NEW p \in Procs, Crash(p) PROVE st'[h].pc # "exec"
    BY <2>8, IdleTyped DEF Crash, At
  <2>. QED BY <2>4, <2>5, <2>6, <2>7, <2>8 DEF Next
<1>2. Typed /\ [Next]_vars =>
        [\A h \in Handlers : isKilled(Home[h]) /\ ~At(h, "exec") => st'[h].pc # "exec"]_vars
  BY <1>1
<1>. QED BY <1>2, AlwaysTyped, PTL DEF Spec, KillStopsStart

\* A running layer has a signal, and no signal is live in a process that knows of
\* a kill.
Reached ==
  \A h \in Handlers : /\ At(h, "exec") => sig[h] # "none"
                      /\ isKilled(Home[h]) => sig[h] # "live"

\* No signal is lost, and none is live where a kill is known.
Hushed ==
  \A h \in Handlers : /\ sig[h] # "none" => sig'[h] # "none"
                      /\ isKilled(Home[h])' => sig'[h] # "live"

\* A step that does not touch the signals.
LEMMA SameHushed ==
  ASSUME Reached, UNCHANGED <<sig, killed, globalKilled>>
  PROVE  Hushed
  BY DEF Reached, Hushed, isKilled

\* An abort flags the process and aborts what it can reach.
LEMMA AbortHushed ==
  ASSUME Typed, Reached, NEW h \in Handlers, abortScan(Home[h]) \/ abortAll(Home[h])
  PROVE  Hushed
<1>1. Home[h] \in Procs /\ \A g \in Handlers : Home[g] \in Procs
  BY HandlersAssumption DEF Procs
<1>2. \A g \in Handlers : sig'[g] = IF Home[g] = Home[h] /\ sig[g] = "live" THEN "aborted" ELSE sig[g]
  BY DEF abortScan, abortAll
<1>3. \A p \in Procs : p # Home[h] => killed'[p] = killed[p] /\ globalKilled'[p] = globalKilled[p]
  BY <1>1 DEF abortScan, abortAll, Typed, TypeOK
<1>. QED BY <1>1, <1>2, <1>3 DEF Reached, Hushed, isKilled

\* A step that lets no handler into the runner.
LEMMA HushedKeeps ==
  ASSUME Reached, Hushed, \A h \in Handlers : st'[h].pc = "exec" => At(h, "exec")
  PROVE  Reached'
  BY DEF Reached, Hushed, At

\* The step a handler takes: all but JobGet leave the runner to who is there.
LEMMA MovedOut ==
  ASSUME Typed, NEW g \in Handlers, ~JobGet(g), Moved(g) \/ Settle(g, "done") \/ Settle(g, "failed")
  PROVE  \A h \in Handlers : st'[h].pc = "exec" => At(h, "exec")
<1>1. CASE Moved(g)
  <2>1. PICK t : Become(g, t) /\ Keeps(g, t)
    BY <1>1 DEF Moved
  <2>. QED BY <2>1, BecomeFacts DEF Keeps, At
<1>2. CASE Settle(g, "done") \/ Settle(g, "failed")
  <2>1. Become(g, Idle)
    BY <1>2 DEF Settle
  <2>. QED BY <2>1, BecomeFacts, IdleTyped DEF At
<1>. QED BY <1>1, <1>2

\* A handler that is through with its job, or dies, takes its signal along.
LEMMA SettleReached ==
  ASSUME Typed, Reached, NEW g \in Handlers, Settle(g, "done") \/ Settle(g, "failed"),
         UNCHANGED <<killed, globalKilled>>
  PROVE  Reached'
<1>1. Become(g, Idle) /\ sig' = [sig EXCEPT ![g] = "none"]
  BY DEF Settle
<1>2. \A h \in Handlers : sig'[h] = IF h = g THEN "none" ELSE sig[h]
  BY <1>1 DEF Typed, TypeOK
<1>. QED BY <1>1, <1>2, BecomeFacts, IdleTyped DEF Reached, At, isKilled

LEMMA JobGetReached ==
  ASSUME Typed, Reached, NEW g \in Handlers, JobGet(g)
  PROVE  Reached'
<1>0. UNCHANGED <<killed, globalKilled>>
  BY DEF JobGet
<1>1. CASE Return(g) /\ UNCHANGED sig
  <2>1. Returned(st[g]).pc # "exec"
    BY DEF Returned, Idle
  <2>2. \A h \in Handlers : st'[h].pc = "exec" => At(h, "exec")
    BY <1>1, <2>1, BecomeFacts DEF Return, At
  <2>. QED BY <1>0, <1>1, <2>2, SameHushed, HushedKeeps
<1>2. CASE /\ ~isKilled(Home[g]) /\ Become(g, [st[g] EXCEPT !.pc = "exec", !.scan = row])
           /\ sig' = [sig EXCEPT ![g] = "live"]
  <2>1. \A h \in Handlers : sig'[h] = IF h = g THEN "live" ELSE sig[h]
    BY <1>2 DEF Typed, TypeOK
  <2>2. \A h \in Handlers \ {g} : st'[h] = st[h]
    BY <1>2, BecomeFacts
  <2>. QED BY <1>0, <1>2, <2>1, <2>2 DEF Reached, At, isKilled
<1>. QED BY <1>1, <1>2 DEF JobGet

LEMMA NextReached ==
  ASSUME Typed, Reached, Next
  PROVE  Reached'
<1>1. ASSUME NEW g \in Handlers, Begin(g) PROVE Reached'
  <2>1. ~JobGet(g)
    BY <1>1 DEF Begin, JobGet, Start, Pause, Cancel, Resume, Reconcile, Kill, KillAll, RemoteKill,
                ApproveEstimate, ApproveFix, Request, At
  <2>2. Hushed
    <3>1. \/ abortScan(Home[g]) \/ abortAll(Home[g]) \/ UNCHANGED <<sig, killed, globalKilled>>
      BY <1>1 DEF Begin, Start, Pause, Cancel, Resume, Reconcile, Kill, KillAll, RemoteKill,
                  ApproveEstimate, ApproveFix, registry
    <3>. QED BY <3>1, SameHushed, AbortHushed
  <2>. QED BY <1>1, <2>1, <2>2, BeginMoved, MovedOut, HushedKeeps
<1>2. ASSUME NEW g \in Handlers, Step(g) PROVE Reached'
  <2>1. CASE JobGet(g)
    BY <2>1, JobGetReached
  <2>2. CASE Ack(g)
    BY <2>2, SettleReached DEF Ack, registry
  <2>3. CASE ~JobGet(g) /\ ~Ack(g)
    <3>1. \A h \in Handlers : st'[h].pc = "exec" => At(h, "exec")
      BY <1>2, <2>3, StepMoved, MovedOut
    <3>2. CASE Cleanup(g)
      <4>1. \A h \in Handlers :
              sig'[h] = IF Home[h] = Home[g] /\ sig[h] = "live" THEN "detached" ELSE sig[h]
        BY <3>2 DEF Cleanup
      <4>2. Hushed
        BY <3>2, <4>1 DEF Cleanup, Reached, Hushed, isKilled
      <4>. QED BY <3>1, <4>2, HushedKeeps
    <3>3. CASE ~Cleanup(g)
      <4>1. UNCHANGED <<sig, killed, globalKilled>>
        BY <1>2, <2>3, <3>3 DEF Step, StartPut, StartToken, PausePut, CancelPut, ResumeLoad, ResumeToken,
             ResumePut, KillPublish, KillGet, KillPut, EstimatePut, FixPut, SchedPut, Enqueue, ExecOk,
             ExecFail, Persist, PersistRest, PersistPut, TokenGet, TokenPut, Reread, FixGate, GatePut,
             Complete, Fail, registry
      <4>. QED BY <3>1, <4>1, SameHushed, HushedKeeps
    <3>. QED BY <3>2, <3>3
  <2>. QED BY <2>1, <2>2, <2>3
<1>3. ASSUME NEW g \in Handlers, StoreError(g) PROVE Reached'
  <2>1. CASE Settle(g, "failed")
    BY <1>3, <2>1, SettleReached DEF StoreError, registry
  <2>2. CASE Goto(g, "fail") /\ UNCHANGED <<queue, sig>>
    <3>1. [st[g] EXCEPT !.pc = "fail"].pc # "exec"
      BY DEF Typed, TypeOK, HandlerState
    <3>2. \A h \in Handlers : st'[h].pc = "exec" => At(h, "exec")
      BY <2>2, <3>1, BecomeFacts DEF Goto, At
    <3>. QED BY <1>3, <2>2, <3>2, SameHushed, HushedKeeps DEF StoreError, registry
  <2>. QED BY <1>3, <2>1, <2>2 DEF StoreError
<1>4. ASSUME NEW g \in Handlers, NEW l \in LAYER_ORDER, TakeJob(g, l) PROVE Reached'
  <2>. DEFINE t == [Idle EXCEPT !.layer = l, !.auto = jobs[l].auto, !.live = jobs[l].live,
                                !.pc = IF isKilled(Home[g]) THEN "ack" ELSE "job_get"]
  <2>1. t.pc # "exec"
    BY DEF Idle
  <2>2. Become(g, t) /\ UNCHANGED <<sig, killed, globalKilled>>
    BY <1>4 DEF TakeJob, registry
  <2>. HIDE DEF t
  <2>3. \A h \in Handlers : st'[h].pc = "exec" => At(h, "exec")
    BY <2>1, <2>2, BecomeFacts DEF At
  <2>. QED BY <2>2, <2>3, SameHushed, HushedKeeps
<1>5. ASSUME NEW l \in LAYER_ORDER, Evict(l) \/ Stall(l) PROVE Reached'
  <2>1. UNCHANGED <<st, sig, killed, globalKilled>>
    BY <1>5 DEF Evict, Stall, registry
  <2>. QED BY <2>1, SameHushed, HushedKeeps DEF At
<1>6. ASSUME NEW p \in Procs, Crash(p) PROVE Reached'
  <2>1. \A h \in Handlers : /\ st'[h] = IF Home[h] = p THEN Idle ELSE st[h]
                            /\ sig'[h] = IF Home[h] = p THEN "none" ELSE sig[h]
    BY <1>6 DEF Crash
  <2>2. \A q \in Procs : q # p => killed'[q] = killed[q] /\ globalKilled'[q] = globalKilled[q]
    BY <1>6 DEF Crash, Typed, TypeOK
  <2>3. \A h \in Handlers : Home[h] \in Procs
    BY HandlersAssumption DEF Procs
  <2>. QED BY <2>1, <2>2, <2>3, IdleTyped DEF Reached, At, isKilled
<1>. QED BY <1>1, <1>2, <1>3, <1>4, <1>5, <1>6 DEF Next

\* No layer goes on under a live signal in a process that knows of a kill: the
\* signal is taken in the step that asks isKilled for the last time, and a kill
\* aborts every signal that is in the map.  For any processes and consumers, with
\* resumes, redelivery, crashes and evictions.
THEOREM KillsReach == Spec => []KillReachesRunning
<1>1. Init => Reached
  BY IdleTyped DEF Init, Reached, At
<1>2. Typed /\ Reached /\ [Next]_vars => Reached'
  <2>1. ASSUME Reached, UNCHANGED vars PROVE Reached'
    BY <2>1 DEF vars, registry, Reached, At, isKilled
  <2>. QED BY <2>1, NextReached
<1>3. Typed /\ Reached => KillReachesRunning
  BY DEF Typed, TypeOK, Signals, Reached, KillReachesRunning
<1>. QED BY <1>1, <1>2, <1>3, AlwaysTyped, PTL DEF Spec

-----------------------------------------------------------------------------
(* Locks                                                                   *)

\* Whoever processes a job holds its lock, and the job is active: true as long
\* as locks are renewed in time.
Locked ==
  \A h \in Handlers : st[h].layer \in LAYER_ORDER =>
    owner[st[h].layer] = h /\ jobs[st[h].layer].state = "active"

\* A lock whose holder is settled or dead is free, and no other handler had it.
LEMMA SettleLocked ==
  ASSUME Typed, Locked, NEW h \in Handlers, NEW o, Settle(h, o)
  PROVE  Locked'
<1>1. st'[h] = Idle /\ \A g \in Handlers \ {h} : st'[g] = st[g]
  BY BecomeFacts DEF Settle
<1>2. ASSUME NEW g \in Handlers, st'[g].layer \in LAYER_ORDER
      PROVE  owner'[st'[g].layer] = g /\ jobs'[st'[g].layer].state = "active"
  <2>1. g # h /\ st'[g] = st[g]
    BY <1>1, <1>2, Layers DEF Idle
  <2>2. owner[st[g].layer] = g /\ jobs[st[g].layer].state = "active" /\ st[g].layer \in LAYER_ORDER
    BY <1>2, <2>1 DEF Locked
  <2>3. st[h].layer \in LAYER_ORDER => owner[st[h].layer] = h
    BY DEF Locked
  <2>4. CASE st[h].layer = st[g].layer
    BY <2>1, <2>2, <2>3, <2>4
  <2>5. CASE st[h].layer # st[g].layer
    <3>1. owner'[st[g].layer] = owner[st[g].layer] /\ jobs'[st[g].layer] = jobs[st[g].layer]
      BY <2>2, <2>5 DEF Settle, Typed, TypeOK
    <3>. QED BY <2>1, <2>2, <3>1
  <2>. QED BY <2>4, <2>5
<1>. QED BY <1>2 DEF Locked

\* Locks hold across every step but the one that steals them.
LEMMA NextLocked ==
  ASSUME "stall" \notin Faults, Typed, Locked, [Next]_vars
  PROVE  Locked'
<1>1. ASSUME NEW h \in Handlers, Moved(h), owner' = owner,
             \A l \in LAYER_ORDER : jobs[l].state = "active" => jobs'[l].state = "active"
      PROVE  Locked'
  <2>1. PICK t : Become(h, t) /\ t.layer = st[h].layer
    BY <1>1 DEF Moved, Keeps
  <2>2. \A g \in Handlers : st'[g].layer = st[g].layer
    BY <2>1, BecomeFacts
  <2>. QED BY <1>1, <2>2 DEF Locked
<1>2. ASSUME NEW h \in Handlers, Begin(h) PROVE Locked'
  BY <1>1, <1>2, BeginMoved
<1>3. ASSUME NEW h \in Handlers, Step(h) PROVE Locked'
  <2>1. CASE Ack(h)
    BY <2>1, SettleLocked DEF Ack
  <2>2. CASE ~Ack(h)
    <3>1. \A l \in LAYER_ORDER : jobs[l].state = "active" => jobs'[l].state = "active"
      BY <1>3, <2>2, StepMoved DEF Typed, TypeOK
    <3>. QED BY <1>1, <1>3, <2>2, <3>1, StepMoved
  <2>. QED BY <2>1, <2>2
<1>4. ASSUME NEW h \in Handlers, StoreError(h) PROVE Locked'
  <2>1. CASE Settle(h, "failed")
    BY <2>1, SettleLocked
  <2>2. CASE Goto(h, "fail") /\ UNCHANGED <<queue, sig>>
    <3>1. "fail" \in Plain
      BY DEF Plain, Labels, Awaits, Resuming
    <3>. QED BY <1>1, <2>2, <3>1, GotoMoved
  <2>. QED BY <1>4, <2>1, <2>2 DEF StoreError
<1>5. ASSUME NEW h \in Handlers, NEW l \in LAYER_ORDER, TakeJob(h, l) PROVE Locked'
  <2>. DEFINE t == [Idle EXCEPT !.layer = l, !.auto = jobs[l].auto, !.live = jobs[l].live,
                                !.pc = IF isKilled(Home[h]) THEN "ack" ELSE "job_get"]
  <2>1. t.layer = l
    BY DEF Idle
  <2>2. Become(h, t)
    BY <1>5 DEF TakeJob
  <2>. HIDE DEF t
  <2>3. st'[h].layer = l /\ \A g \in Handlers \ {h} : st'[g] = st[g]
    BY <2>1, <2>2, BecomeFacts
  <2>4. \A m \in LAYER_ORDER \ {l} : owner'[m] = owner[m] /\ jobs'[m] = jobs[m]
    BY <1>5 DEF TakeJob, Typed, TypeOK
  <2>5. owner'[l] = h /\ jobs'[l].state = "active" /\ jobs[l].state # "active"
    BY <1>5 DEF TakeJob, Typed, TypeOK, Job
  <2>. QED BY <2>3, <2>4, <2>5 DEF Locked
<1>6. ASSUME NEW l \in LAYER_ORDER, Evict(l) PROVE Locked'
  <2>1. st' = st /\ owner' = owner /\ jobs[l].state # "active"
    BY <1>6 DEF Evict
  <2>2. \A m \in LAYER_ORDER \ {l} : jobs'[m] = jobs[m]
    BY <1>6 DEF Evict, Typed, TypeOK
  <2>. QED BY <2>1, <2>2 DEF Locked
<1>7. ASSUME NEW l \in LAYER_ORDER, Stall(l) PROVE Locked'
  <2>1. st' = st /\ owner[l] \notin Handlers
    BY <1>7, NoHandlerAssumption DEF Stall, Failure
  <2>2. \A m \in LAYER_ORDER \ {l} : jobs'[m] = jobs[m] /\ owner'[m] = owner[m]
    BY <1>7 DEF Stall, Typed, TypeOK
  <2>. QED BY <2>1, <2>2 DEF Locked
<1>8. ASSUME NEW p \in Procs, Crash(p) PROVE Locked'
  <2>1. \A g \in Handlers : st'[g] = IF Home[g] = p THEN Idle ELSE st[g]
    BY <1>8 DEF Crash
  <2>2. \A m \in LAYER_ORDER : owner'[m] = owner[m] \/ (owner[m] \in Handlers /\ Home[owner[m]] = p)
    BY <1>8 DEF Crash
  <2>3. jobs' = jobs
    BY <1>8 DEF Crash
  <2>. QED BY <2>1, <2>2, <2>3, Layers DEF Locked, Idle
<1>9. CASE UNCHANGED vars
  BY <1>9 DEF vars, Locked
<1>. QED BY <1>2, <1>3, <1>4, <1>5, <1>6, <1>7, <1>8, <1>9 DEF Next

\* As long as locks are renewed in time, a layer of a scan has one runner at a
\* time, whatever crashes, redeliveries, evictions and double consumers do.
THEOREM OneRunnerHolds == "stall" \notin Faults => (Spec => []OneRunner)
<1>. SUFFICES ASSUME "stall" \notin Faults PROVE Spec => []OneRunner
  OBVIOUS
<1>1. Init => Locked
  BY Layers DEF Init, Locked, Idle
<1>2. Typed /\ Locked /\ [Next]_vars => Locked'
  BY NextLocked
<1>3. Typed /\ Locked => OneRunner
  BY DEF Typed, ControlOK, Locked, OneRunner, At, JobLabels
<1>. QED BY <1>1, <1>2, <1>3, AlwaysTyped, PTL DEF Spec

-----------------------------------------------------------------------------
(* The estimate gate                                                       *)

\* Somebody who may has approved the estimate.
EstimateApproved == \E r \in {"operator", "approver"} : <<"estimate", r>> \in granted

\* Nobody resumes, and whoever is in Layer 1 or on the way there comes from an approval.
OnEstimate(s) == s.pc \notin Resuming /\ (s.next = 1 \/ s.layer = 1 => EstimateApproved)

\* All handlers, and the queued job of Layer 1, are there by an approval.
Estimated ==
  /\ \A h \in Handlers : OnEstimate(st[h])
  /\ jobs[1].state # "none" => EstimateApproved

\* No step goes on to Layer 1 without one.
LEMMA NextEstimated ==
  ASSUME EstimateRequired, "resume" \notin Ops, "reconcile" \notin Ops, Typed, Estimated, [Next]_vars
  PROVE  Estimated'
<1>0. 1 \in LAYER_ORDER
  BY Layers
<1>1. ASSUME NEW h \in Handlers, Moved(h), granted \subseteq granted',
             st[h].pc = "estimate_put" => <<"estimate", st[h].scan.approver>> \in granted',
             jobs'[1].state # "none" => jobs[1].state # "none" \/ st[h].next = 1
      PROVE  Estimated'
  <2>1. PICK t : Become(h, t) /\ Keeps(h, t)
    BY <1>1 DEF Moved
  <2>2. st'[h] = t /\ \A g \in Handlers \ {h} : st'[g] = st[g]
    BY <2>1, BecomeFacts
  <2>3. EstimateApproved => EstimateApproved'
    BY <1>1 DEF EstimateApproved
  <2>4. st[h].pc = "estimate_put" => EstimateApproved'
    <3>1. st[h].pc = "estimate_put" => st[h].scan.approver \in {"operator", "approver"}
      BY DEF Typed, TypeOK, ControlOK, HandlerState, Scan, Roles
    <3>. QED BY <1>1, <3>1 DEF EstimateApproved
  <2>5. OnEstimate(st[h]) /\ (jobs[1].state # "none" => EstimateApproved)
    BY DEF Estimated
  <2>6. t.pc \notin Resuming /\ (t.next = 1 \/ t.layer = 1 => EstimateApproved')
    BY <2>1, <2>3, <2>4, <2>5 DEF Keeps, OnEstimate, Resuming
  <2>7. jobs'[1].state # "none" => EstimateApproved'
    BY <1>1, <2>3, <2>5 DEF OnEstimate
  <2>8. ASSUME NEW g \in Handlers
        PROVE  st'[g].pc \notin Resuming /\ (st'[g].next = 1 \/ st'[g].layer = 1 => EstimateApproved')
    <3>1. OnEstimate(st[g])
      BY DEF Estimated
    <3>. QED BY <2>2, <2>3, <2>6, <3>1 DEF OnEstimate
  <2>. QED BY <2>7, <2>8 DEF Estimated, OnEstimate
\* A step that neither schedules a layer nor approves a gate.
<1>2. ASSUME \A g \in Handlers : st'[g] = st[g] \/ OnEstimate(st'[g]), granted' = granted,
             jobs'[1].state # "none" => jobs[1].state # "none" \/ EstimateApproved
      PROVE  Estimated'
  <2>1. EstimateApproved' = EstimateApproved
    BY <1>2 DEF EstimateApproved
  <2>. QED BY <1>2, <2>1 DEF Estimated, OnEstimate
<1>3. OnEstimate(Idle)
  BY DEF Idle, Resuming, NoLayer, OnEstimate
<1>4. ASSUME NEW h \in Handlers, NEW o, Settle(h, o), granted' = granted PROVE Estimated'
  <2>1. \A g \in Handlers : st'[g] = st[g] \/ st'[g] = Idle
    BY <1>4, BecomeFacts DEF Settle
  <2>2. jobs'[1] = jobs[1] \/ st[h].layer = 1
    BY <1>4, <1>0 DEF Settle, Typed, TypeOK
  <2>3. st[h].layer = 1 => EstimateApproved
    BY DEF Estimated, OnEstimate
  <2>. QED BY <1>2, <1>3, <1>4, <2>1, <2>2, <2>3
<1>5. ASSUME NEW h \in Handlers, Begin(h) PROVE Estimated'
  <2>1. st[h].pc # "estimate_put"
    BY <1>5 DEF Begin, Start, Pause, Cancel, Resume, Reconcile, Kill, KillAll, RemoteKill,
       ApproveEstimate, ApproveFix, Request, At
  <2>. QED BY <1>1, <1>5, <2>1, BeginMoved
<1>6. ASSUME NEW h \in Handlers, Step(h) PROVE Estimated'
  <2>1. CASE Ack(h)
    BY <1>4, <2>1 DEF Ack
  <2>2. CASE ~Ack(h)
    <3>1. /\ Moved(h) /\ granted \subseteq granted'
          /\ st[h].pc = "estimate_put" => <<"estimate", st[h].scan.approver>> \in granted'
          /\ jobs' = jobs \/ jobs' = [jobs EXCEPT ![st[h].next] = buildJob(st[h])]
      BY <1>6, <2>2, StepMoved
    <3>2. jobs'[1].state # "none" => jobs[1].state # "none" \/ st[h].next = 1
      BY <1>0, <3>1 DEF Typed, TypeOK
    <3>. QED BY <1>1, <3>1, <3>2
  <2>. QED BY <2>1, <2>2
<1>7. ASSUME NEW h \in Handlers, StoreError(h) PROVE Estimated'
  <2>1. CASE Settle(h, "failed")
    BY <1>4, <1>7, <2>1 DEF StoreError
  <2>2. CASE Goto(h, "fail") /\ UNCHANGED <<queue, sig>>
    <3>. DEFINE t == [st[h] EXCEPT !.pc = "fail"]
    <3>1. t.pc = "fail" /\ t.next = st[h].next /\ t.layer = st[h].layer
      BY DEF Typed, TypeOK, HandlerState
    <3>2. Become(h, t)
      BY <2>2 DEF Goto
    <3>. HIDE DEF t
    <3>3. OnEstimate(t)
      BY <3>1 DEF Estimated, OnEstimate, Resuming
    <3>4. \A g \in Handlers : st'[g] = st[g] \/ st'[g] = t
      BY <3>2, BecomeFacts
    <3>5. granted' = granted
      BY <1>7 DEF StoreError
    <3>. QED BY <1>2, <2>2, <3>3, <3>4, <3>5
  <2>. QED BY <1>7, <2>1, <2>2 DEF StoreError
<1>8. ASSUME NEW h \in Handlers, NEW l \in LAYER_ORDER, TakeJob(h, l) PROVE Estimated'
  <2>. DEFINE t == [Idle EXCEPT !.layer = l, !.auto = jobs[l].auto, !.live = jobs[l].live,
                                !.pc = IF isKilled(Home[h]) THEN "ack" ELSE "job_get"]
  <2>1. t.layer = l /\ t.next # 1 /\ t.pc \notin Resuming
    BY DEF Idle, NoLayer, Resuming
  <2>2. Become(h, t) /\ jobs[l].state = "waiting" /\ granted' = granted
    BY <1>8 DEF TakeJob
  <2>. HIDE DEF t
  <2>3. OnEstimate(t)
    BY <2>1, <2>2 DEF Estimated, OnEstimate
  <2>4. \A g \in Handlers : st'[g] = st[g] \/ st'[g] = t
    BY <2>2, BecomeFacts
  <2>5. jobs'[1] = jobs[1] \/ l = 1
    BY <1>0, <1>8 DEF TakeJob, Typed, TypeOK
  <2>. QED BY <1>2, <2>2, <2>3, <2>4, <2>5
<1>9. ASSUME NEW l \in LAYER_ORDER, Evict(l) \/ Stall(l) PROVE Estimated'
  <2>1. st' = st /\ granted' = granted /\ jobs[l].state # "none"
    BY <1>9 DEF Evict, Stall
  <2>2. jobs'[1] = jobs[1] \/ l = 1
    BY <1>0, <1>9 DEF Evict, Stall, Typed, TypeOK
  <2>. QED BY <1>2, <2>1, <2>2
<1>10. ASSUME NEW p \in Procs, Crash(p) PROVE Estimated'
  <2>1. \A g \in Handlers : st'[g] = st[g] \/ st'[g] = Idle
    BY <1>10 DEF Crash
  <2>2. jobs' = jobs /\ granted' = granted
    BY <1>10 DEF Crash
  <2>. QED BY <1>2, <1>3, <2>1, <2>2
<1>11. CASE UNCHANGED vars
  BY <1>2, <1>11 DEF vars
<1>. QED BY <1>5, <1>6, <1>7, <1>8, <1>9, <1>10, <1>11 DEF Next

\* Where the policy asks for an approval of the estimate, Layer 1 waits for it,
\* through stale copies, redeliveries and crashes, as long as nobody resumes the
\* scan: a resume() between the checkpoint of Layer 0 and the write of
\* estimate_pending schedules Layer 1 without approval.
THEOREM EstimateGateHolds ==
  "resume" \notin Ops /\ "reconcile" \notin Ops => (Spec => []EstimateGate)
<1>. SUFFICES ASSUME "resume" \notin Ops, "reconcile" \notin Ops PROVE Spec => []EstimateGate
  OBVIOUS
<1>1. CASE ~EstimateRequired
  <2>1. EstimateGate
    BY <1>1 DEF EstimateGate
  <2>. QED BY <2>1, PTL
<1>2. CASE EstimateRequired
  <2>1. Init => Estimated
    BY Layers DEF Init, Estimated, OnEstimate, Idle, NoJob, NoLayer, Resuming
  <2>2. Typed /\ Estimated /\ [Next]_vars => Estimated'
    BY <1>2, NextEstimated
  <2>3. Estimated => EstimateGate
    BY DEF Estimated, EstimateApproved, EstimateGate
  <2>. QED BY <2>1, <2>2, <2>3, AlwaysTyped, PTL DEF Spec
<1>. QED BY <1>1, <1>2, ConfigAssumption
=============================================================================
