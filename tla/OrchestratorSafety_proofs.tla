---------------------- MODULE OrchestratorSafety_proofs ----------------------
(***************************************************************************)
(* Checkpoints, layer order and approvals of the orchestrator, for any     *)
(* number of processes, handlers, requests and failures, and every         *)
(* configuration.                                                          *)
(*                                                                         *)
(* Tiers are never unpersisted and approvals never withdrawn, so a fact    *)
(* about what a stale copy of the row, a token, a job or a handler's       *)
(* locals imply stays true however long the copy is kept: what each of     *)
(* them may claim is stated relative to the tiers T and the approvals G.   *)
(***************************************************************************)
EXTENDS Orchestrator_proofs, OrchestratorRefinement

USE DEF store, queue, registry, process, bounds

\* Every layer before n has its output in the store.
Persisted(n, T) == \A m \in LAYER_ORDER : m < n => m \in T

PrAllowed(G) == AutoFixEnabled /\ (ApproverRequired => <<"fix", "approver">> \in G)

ApproverGranted(G) == \E g \in {"estimate", "fix"} : <<g, "approver">> \in G

\* A gate that is pending was reached by running the layers before it.
ScanOK(r, T) ==
  /\ r.gateState = "estimate_pending" => 0 \in T
  /\ r.gateState = "fix_gate_pending" => Persisted(5, T) /\ AutoFixEnabled

\* Where gates need an approver, the name on the scan is that of one.
Named(r, G) == ApproverRequired /\ r.approver # "none" => ApproverGranted(G)

JobOK(j, l, T, G) ==
  /\ j.state # "none" => Persisted(l, T)
  /\ j.auto => PrAllowed(G)
  /\ ApproverRequired /\ j.live => DastConfigured /\ (DastRequiresApprover => ApproverGranted(G))

HandlerOK(s, T, G) ==
  /\ s.done \subseteq T
  /\ s.layer # NoLayer => Persisted(s.layer, T)
  /\ s.next # NoLayer => Persisted(s.next, T)
  /\ ScanOK(s.scan, T)
  /\ s.auto \/ s.apply => PrAllowed(G)
  /\ s.pc \in {"persist_put", "token_get", "token_put", "reread", "fix_gate"} => s.layer \in T
  /\ s.pc \in {"persist_rest", "fix_gate"} => s.layer = 4
  /\ s.pc = "estimate_put" => 0 \in T /\ (ApproverRequired => s.scan.approver = "approver")
  /\ s.pc = "fix_put" => Persisted(5, T) /\ AutoFixEnabled
  /\ s.pc \notin {"estimate_put", "fix_put"} => Named(s.scan, G)

Safe ==
  /\ token \subseteq tiers
  /\ ScanOK(row, tiers) /\ Named(row, granted)
  /\ \A l \in LAYER_ORDER : JobOK(jobs[l], l, tiers, granted)
  /\ \A h \in Handlers : HandlerOK(st[h], tiers, granted)
  /\ prOpen => PrAllowed(granted)

-----------------------------------------------------------------------------
(* Facts about one handler, one copy of the row and one job                *)

\* Where a handler may go without owing anything.
Free == Quiet \ {"fix_put"}

\* The awaits at which a handler owes nothing beyond its locals.
LEMMA FreeLabels ==
  \A l \in {"start_put", "start_token", "pause_put", "cancel_put", "resume_load", "resume_token",
            "resume_put", "kill_publish", "killall_publish", "killall_publish_only", "kill_get",
            "kill_put", "sched_put", "enqueue", "gate_put", "complete", "partial",
            "fail", "idle", "cleanup"} : l \in Free
  BY QuietLabels DEF Free

\* None of the conjuncts of HandlerOK that name an await names a free one.
LEMMA FreeOwesNothing ==
  \A l \in Free : /\ l \notin {"persist_put", "token_get", "token_put", "reread", "fix_gate"}
                  /\ l # "persist_rest" /\ l # "estimate_put" /\ l # "fix_put" /\ l \in Labels
  BY DEF Free, Quiet, JobLabels

\* More tiers and more approvals falsify nothing.
LEMMA Monotone ==
  ASSUME NEW T, NEW U, T \subseteq U, NEW G, NEW H, G \subseteq H
  PROVE  /\ \A n : Persisted(n, T) => Persisted(n, U)
         /\ \A r : ScanOK(r, T) => ScanOK(r, U)
         /\ \A r : Named(r, G) => Named(r, H)
         /\ \A j, l : JobOK(j, l, T, G) => JobOK(j, l, U, H)
         /\ \A s : HandlerOK(s, T, G) => HandlerOK(s, U, H)
<1>1. \A n : Persisted(n, T) => Persisted(n, U)
  BY DEF Persisted
<1>2. \A r : ScanOK(r, T) => ScanOK(r, U)
  BY <1>1 DEF ScanOK
<1>3. ApproverGranted(G) => ApproverGranted(H)
  BY DEF ApproverGranted
<1>4. \A r : Named(r, G) => Named(r, H)
  BY <1>3 DEF Named
<1>5. PrAllowed(G) => PrAllowed(H)
  BY DEF PrAllowed
<1>6. \A j, l : JobOK(j, l, T, G) => JobOK(j, l, U, H)
  BY <1>1, <1>3, <1>5 DEF JobOK
<1>7. ASSUME NEW s, HandlerOK(s, T, G) PROVE HandlerOK(s, U, H)
  BY <1>1, <1>2, <1>4, <1>5, <1>7 DEF HandlerOK
<1>. QED BY <1>1, <1>2, <1>4, <1>6, <1>7

\* An idle handler claims nothing.
LEMMA IdleOK == \A T, G : HandlerOK(Idle, T, G)
  BY DEF HandlerOK, Idle, NewScan, ScanOK, Named

\* A handler whose promise resolved keeps only the layer of its job.
LEMMA ReturnedOK ==
  ASSUME NEW T, NEW G, NEW s \in HandlerState, HandlerOK(s, T, G)
  PROVE  HandlerOK(Returned(s), T, G)
<1>1. CASE s.layer = NoLayer
  BY <1>1, IdleOK DEF Returned
<1>2. CASE s.layer # NoLayer
  BY <1>2 DEF Returned, HandlerOK, Idle, NewScan, ScanOK, Named
<1>. QED BY <1>1, <1>2

\* Going on to a free await adds no claim; a handler that stores an approval does not
\* because its copy of the row names an approver who is not on record yet.
LEMMA GotoOK ==
  ASSUME NEW T, NEW G, NEW s \in HandlerState, HandlerOK(s, T, G),
         NEW l \in Free, s.pc \notin {"estimate_put", "fix_put"}
  PROVE  HandlerOK([s EXCEPT !.pc = l], T, G)
  BY FreeOwesNothing DEF HandlerOK, HandlerState

\* Taking up a sound copy of the row keeps a handler sound.
LEMMA LoadOK ==
  ASSUME NEW T, NEW G, NEW s \in HandlerState, HandlerOK(s, T, G),
         NEW l \in Free, NEW r \in Scan, ScanOK(r, T), Named(r, G)
  PROVE  HandlerOK([s EXCEPT !.pc = l, !.scan = r], T, G)
  BY FreeOwesNothing DEF HandlerOK, HandlerState

\* The transition of one handler, everything else at least as good as before.
LEMMA SafeStep ==
  ASSUME Typed, Safe, NEW h \in Handlers, NEW s, Become(h, s),
         tiers \subseteq tiers', granted \subseteq granted',
         HandlerOK(s, tiers', granted'), token' \subseteq tiers',
         ScanOK(row', tiers'), Named(row', granted'),
         \A l \in LAYER_ORDER : JobOK(jobs'[l], l, tiers', granted'),
         prOpen' => PrAllowed(granted')
  PROVE  Safe'
<1>1. ASSUME NEW g \in Handlers PROVE HandlerOK(st'[g], tiers', granted')
  <2>1. CASE g = h
    BY <2>1 DEF Become, Typed, TypeOK
  <2>2. CASE g # h
    <3>1. st'[g] = st[g]
      BY <2>2 DEF Become, Typed, TypeOK
    <3>2. HandlerOK(st[g], tiers, granted)
      BY DEF Safe
    <3>. QED BY <3>1, <3>2, Monotone
  <2>. QED BY <2>1, <2>2
<1>. QED BY <1>1 DEF Safe

\* Only the handler changes.
LEMMA SafeMove ==
  ASSUME Typed, Safe, NEW h \in Handlers, NEW s, Become(h, s), HandlerOK(s, tiers, granted),
         row' = row, token' = token, tiers' = tiers, jobs' = jobs, granted' = granted,
         prOpen' = prOpen
  PROVE  Safe'
<1>1. ASSUME NEW l \in LAYER_ORDER PROVE JobOK(jobs'[l], l, tiers', granted')
  BY DEF Safe
<1>. QED BY <1>1, SafeStep DEF Safe

\* The handler stores a row.
LEMMA SafePut ==
  ASSUME Typed, Safe, NEW h \in Handlers, NEW s, Become(h, s), HandlerOK(s, tiers, granted),
         ScanOK(row', tiers), Named(row', granted),
         token' = token, tiers' = tiers, jobs' = jobs, granted' = granted,
         prOpen' = prOpen
  PROVE  Safe'
<1>1. ASSUME NEW l \in LAYER_ORDER PROVE JobOK(jobs'[l], l, tiers', granted')
  BY DEF Safe
<1>. QED BY <1>1, SafeStep DEF Safe

\* What a handler may rely on.
LEMMA HandlerFacts ==
  ASSUME Typed, Safe, NEW h \in Handlers
  PROVE  /\ st[h] \in HandlerState /\ st[h].scan \in Scan /\ row \in Scan
         /\ HandlerOK(st[h], tiers, granted)
         /\ ScanOK(st[h].scan, tiers)
         /\ st[h].pc \notin {"estimate_put", "fix_put"} => Named(st[h].scan, granted)
         /\ ScanOK(row, tiers) /\ Named(row, granted)
  BY DEF Typed, TypeOK, Safe, HandlerOK, HandlerState

\* Writing the status, or a gate that is not pending, claims nothing new.
LEMMA ScanEdits ==
  ASSUME NEW r \in Scan, NEW T, NEW G, ScanOK(r, T), Named(r, G)
  PROVE  /\ \A x : ScanOK([r EXCEPT !.status = x], T) /\ Named([r EXCEPT !.status = x], G)
         /\ \A g : g \notin {"estimate_pending", "fix_gate_pending"} =>
              /\ ScanOK([r EXCEPT !.gateState = g], T) /\ Named([r EXCEPT !.gateState = g], G)
              /\ \A x : /\ ScanOK([r EXCEPT !.status = x, !.gateState = g], T)
                        /\ Named([r EXCEPT !.status = x, !.gateState = g], G)
  BY DEF ScanOK, Named, Scan

\* A handler returns, with or without a write of the row.
LEMMA ReturnSafe ==
  ASSUME Typed, Safe, NEW h \in Handlers, Return(h),
         ScanOK(row', tiers), Named(row', granted),
         token' = token, tiers' = tiers, jobs' = jobs, granted' = granted,
         prOpen' = prOpen
  PROVE  Safe'
<1>1. HandlerOK(Returned(st[h]), tiers, granted)
  BY HandlerFacts, ReturnedOK
<1>. QED BY <1>1, SafePut DEF Return

\* A handler goes on to a free await, with or without a write of the row.
LEMMA GotoSafe ==
  ASSUME Typed, Safe, NEW h \in Handlers, NEW l \in Free, Goto(h, l),
         st[h].pc \notin {"estimate_put", "fix_put"},
         ScanOK(row', tiers), Named(row', granted),
         token' = token, tiers' = tiers, jobs' = jobs, granted' = granted,
         prOpen' = prOpen
  PROVE  Safe'
<1>1. HandlerOK([st[h] EXCEPT !.pc = l], tiers, granted)
  BY HandlerFacts, GotoOK
<1>. QED BY <1>1, SafePut DEF Goto

\* A handler loads the row.
LEMMA LoadSafe ==
  ASSUME Typed, Safe, NEW h \in Handlers, NEW l \in Free,
         Become(h, [st[h] EXCEPT !.pc = l, !.scan = row]),
         row' = row, token' = token, tiers' = tiers, jobs' = jobs, granted' = granted,
         prOpen' = prOpen
  PROVE  Safe'
<1>1. HandlerOK([st[h] EXCEPT !.pc = l, !.scan = row], tiers, granted)
  BY HandlerFacts, LoadOK
<1>. QED BY <1>1, SafeMove

-----------------------------------------------------------------------------
(* Safety, action by action                                                *)

\* Requests, reconciliation and kill messages: an approval finds the gate pending, and so
\* the layers before it persisted.
LEMMA BeginSafe ==
  ASSUME Typed, Safe, NEW h \in Handlers, Begin(h)
  PROVE  Safe'
<1>0. ScanOK(row, tiers) /\ Named(row, granted) /\ st[h] \in HandlerState
      /\ HandlerOK(st[h], tiers, granted)
  BY HandlerFacts
<1>. USE FreeLabels
<1>1. CASE Start(h)
  BY <1>1, LoadSafe DEF Start
<1>2. CASE Pause(h)
  BY <1>2, LoadSafe DEF Pause
<1>3. CASE Cancel(h)
  BY <1>3, LoadSafe DEF Cancel
<1>4. CASE Resume(h)
  BY <1>4, LoadSafe DEF Resume
<1>5. CASE Reconcile(h)
  <2>1. CASE Goto(h, "resume_load")
    BY <1>0, <1>5, <2>1, GotoSafe DEF Reconcile, At
  <2>2. CASE UNCHANGED st
    BY <1>5, <2>2 DEF Reconcile, Safe
  <2>. QED BY <1>5, <2>1, <2>2 DEF Reconcile
<1>6. CASE Kill(h)
  BY <1>0, <1>6, GotoSafe DEF Kill, Request, At
<1>7. CASE KillAll(h)
  BY <1>0, <1>7, GotoSafe DEF KillAll, Request, At
<1>8. CASE RemoteKill(h)
  <2>1. CASE Goto(h, "kill_get")
    BY <1>0, <1>8, <2>1, GotoSafe DEF RemoteKill, At
  <2>2. CASE UNCHANGED st
    BY <1>8, <2>2 DEF RemoteKill, Safe
  <2>. QED BY <1>8, <2>1, <2>2 DEF RemoteKill
<1>9. CASE ApproveEstimate(h)
  <2>1. PICK role \in {"approver"} \cup (IF ApproverRequired THEN {} ELSE {"operator"}) :
          Become(h, [st[h] EXCEPT !.pc = "estimate_put",
                                  !.scan = [status |-> "running", gateState |-> "estimate_approved",
                                            approver |-> role]])
    BY <1>9 DEF ApproveEstimate
  <2>. DEFINE s == [st[h] EXCEPT !.pc = "estimate_put",
                                 !.scan = [status |-> "running", gateState |-> "estimate_approved",
                                           approver |-> role]]
  <2>2. 0 \in tiers
    BY <1>0, <1>9 DEF ApproveEstimate, ScanOK
  <2>3. HandlerOK(s, tiers, granted)
    BY <1>0, <2>2 DEF HandlerOK, HandlerState, ScanOK
  <2>. QED BY <1>9, <2>1, <2>3, SafeMove DEF ApproveEstimate
<1>10. CASE ApproveFix(h)
  <2>. DEFINE s == [st[h] EXCEPT !.pc = "fix_put",
                                 !.scan = [row EXCEPT !.gateState = "approved", !.approver = "approver"]]
  <2>1. Persisted(5, tiers) /\ AutoFixEnabled
    BY <1>0, <1>10 DEF ApproveFix, ScanOK
  <2>2. [row EXCEPT !.gateState = "approved", !.approver = "approver"].gateState = "approved"
    BY DEF Typed, TypeOK, Scan
  <2>3. HandlerOK(s, tiers, granted)
    BY <1>0, <2>1, <2>2 DEF HandlerOK, HandlerState, ScanOK
  <2>. QED BY <1>10, <2>3, SafeMove DEF ApproveFix
<1>. QED BY <1>1, <1>2, <1>3, <1>4, <1>5, <1>6, <1>7, <1>8, <1>9, <1>10 DEF Begin

\* start, pause, cancel, resume and kill: resume() schedules the first layer missing from a
\* token, whose layers are all persisted.
LEMMA StepSafe1 ==
  ASSUME Typed, Safe, NEW h \in Handlers,
         \/ StartPut(h) \/ StartToken(h) \/ PausePut(h) \/ CancelPut(h) \/ Cleanup(h)
         \/ ResumeLoad(h) \/ ResumeToken(h) \/ ResumePut(h)
         \/ KillPublish(h) \/ KillGet(h) \/ KillPut(h)
  PROVE  Safe'
<1>. DEFINE r == st[h].scan
<1>0. /\ st[h] \in HandlerState /\ r \in Scan /\ HandlerOK(st[h], tiers, granted)
      /\ ScanOK(row, tiers) /\ Named(row, granted) /\ ScanOK(r, tiers)
      /\ st[h].pc \notin {"estimate_put", "fix_put"}
      /\ Named(r, granted)
  <2>1. st[h].pc \notin {"estimate_put", "fix_put"}
    BY DEF StartPut, StartToken, PausePut, CancelPut, Cleanup, ResumeLoad, ResumeToken, ResumePut,
           KillPublish, KillGet, KillPut, At
  <2>. QED BY <2>1, HandlerFacts
<1>a. /\ \A x : ScanOK([r EXCEPT !.status = x], tiers) /\ Named([r EXCEPT !.status = x], granted)
      /\ \A g : g \notin {"estimate_pending", "fix_gate_pending"} =>
           \A x : /\ ScanOK([r EXCEPT !.status = x, !.gateState = g], tiers)
                  /\ Named([r EXCEPT !.status = x, !.gateState = g], granted)
  BY <1>0, ScanEdits
<1>. HIDE DEF r
<1>. USE FreeLabels
<1>1. CASE StartPut(h)
  <2>. DEFINE s == [st[h] EXCEPT !.pc = "start_token", !.scan.status = "running"]
              q == [r EXCEPT !.status = "running"]
  <2>1. s = [st[h] EXCEPT !.pc = "start_token", !.scan = q] /\ q \in Scan
    BY <1>0 DEF HandlerState, r, Scan, ScanStatus
  <2>2. ScanOK(q, tiers) /\ Named(q, granted)
    BY <1>a
  <2>3. HandlerOK(s, tiers, granted)
    BY <1>0, <2>1, <2>2, LoadOK
  <2>4. row' = q /\ Become(h, s)
    BY <1>1 DEF StartPut, r
  <2>. HIDE DEF s, q
  <2>. QED BY <1>1, <2>2, <2>3, <2>4, SafePut DEF StartPut
<1>2. CASE StartToken(h)
  <2>. DEFINE s == [st[h] EXCEPT !.pc = "enqueue", !.next = 0]
  <2>1. Persisted(0, tiers)
    BY DEF Persisted, LAYER_ORDER
  <2>2. HandlerOK(s, tiers, granted)
    BY <1>0, <2>1 DEF HandlerOK, HandlerState
  <2>3. Become(h, s) /\ token' \subseteq tiers'
    BY <1>2 DEF StartToken
  <2>. HIDE DEF s
  <2>4. \A l \in LAYER_ORDER : JobOK(jobs'[l], l, tiers', granted')
    BY <1>2 DEF StartToken, Safe
  <2>. QED BY <1>0, <1>2, <2>2, <2>3, <2>4, SafeStep DEF StartToken, Safe
<1>3. CASE PausePut(h)
  BY <1>a, <1>3, ReturnSafe DEF PausePut, r
<1>4. CASE CancelPut(h)
  <2>. DEFINE g == IF Pending(r) THEN "rejected" ELSE r.gateState
  <2>1. row' = [r EXCEPT !.status = "cancelled", !.gateState = g]
    BY <1>4 DEF CancelPut, r
  <2>2. g \notin {"estimate_pending", "fix_gate_pending"}
    BY DEF Pending
  <2>. HIDE DEF g
  <2>3. ScanOK(row', tiers) /\ Named(row', granted)
    BY <1>a, <2>1, <2>2
  <2>. QED BY <1>0, <1>4, <2>3, GotoSafe DEF CancelPut
<1>5. CASE Cleanup(h)
  BY <1>0, <1>5, ReturnSafe DEF Cleanup
<1>6. CASE ResumeLoad(h)
  <2>1. CASE Return(h)
    BY <1>0, <1>6, <2>1, ReturnSafe DEF ResumeLoad
  <2>2. CASE Become(h, [st[h] EXCEPT !.pc = "resume_token", !.scan = row])
    BY <1>6, <2>2, LoadSafe DEF ResumeLoad
  <2>. QED BY <1>6, <2>1, <2>2 DEF ResumeLoad
<1>7. CASE ResumeToken(h)
  <2>. DEFINE s == [st[h] EXCEPT !.pc = "resume_put", !.done = token]
  <2>1. HandlerOK(s, tiers, granted)
    BY <1>0 DEF HandlerOK, HandlerState, Safe
  <2>2. Become(h, s)
    BY <1>7 DEF ResumeToken
  <2>. HIDE DEF s
  <2>. QED BY <1>7, <2>1, <2>2, SafeMove DEF ResumeToken
<1>8. CASE ResumePut(h)
  <2>. DEFINE q == [r EXCEPT !.status = "running"]
              n == nextLayer(st[h].done)
  <2>1. q \in Scan /\ ScanOK(q, tiers) /\ Named(q, granted)
    BY <1>0, <1>a DEF Scan, ScanStatus
  <2>2. n # NoLayer => Persisted(n, tiers) /\ n \in LAYER_ORDER
    <3>1. n # NoLayer => n \in LAYER_ORDER \ st[h].done /\ 0..(n - 1) \subseteq st[h].done
      BY NextLayerTyped
    <3>2. st[h].done \subseteq tiers
      BY <1>0 DEF HandlerOK
    <3>. QED BY <3>1, <3>2 DEF Persisted, LAYER_ORDER
  <2>. HIDE DEF q, n
  <2>3. /\ row' = q
        /\ \/ Return(h)
           \/ Become(h, [st[h] EXCEPT !.pc = "complete", !.scan = q])
           \/ /\ n # NoLayer
              /\ Become(h, [st[h] EXCEPT !.pc = ScheduleLabel(n, q), !.scan = q, !.next = n])
    BY <1>8 DEF ResumePut, q, n, r
  <2>4. CASE Return(h)
    BY <1>8, <2>1, <2>3, <2>4, ReturnSafe DEF ResumePut
  <2>5. CASE Become(h, [st[h] EXCEPT !.pc = "complete", !.scan = q])
    <3>1. HandlerOK([st[h] EXCEPT !.pc = "complete", !.scan = q], tiers, granted)
      BY <1>0, <2>1, LoadOK
    <3>. QED BY <1>8, <2>1, <2>3, <2>5, <3>1, SafePut DEF ResumePut
  <2>6. CASE /\ n # NoLayer
             /\ Become(h, [st[h] EXCEPT !.pc = ScheduleLabel(n, q), !.scan = q, !.next = n])
    <3>. DEFINE l == ScheduleLabel(n, q)
                s == [st[h] EXCEPT !.pc = l, !.scan = q, !.next = n]
    <3>1. l \in {"sched_put", "enqueue"}
      BY DEF ScheduleLabel
    <3>. HIDE DEF l
    <3>2. HandlerOK(s, tiers, granted)
      BY <1>0, <2>1, <2>2, <2>6, <3>1 DEF HandlerOK, HandlerState
    <3>3. Become(h, s)
      BY <2>6 DEF l
    <3>. HIDE DEF s
    <3>. QED BY <1>8, <2>1, <2>3, <3>2, <3>3, SafePut DEF ResumePut
  <2>. QED BY <2>3, <2>4, <2>5, <2>6
<1>9. CASE KillPublish(h)
  <2>1. CASE Return(h)
    BY <1>0, <1>9, <2>1, ReturnSafe DEF KillPublish
  <2>2. CASE Goto(h, "kill_get")
    BY <1>0, <1>9, <2>2, GotoSafe DEF KillPublish
  <2>. QED BY <1>9, <2>1, <2>2 DEF KillPublish
<1>10. CASE KillGet(h)
  <2>. DEFINE l == IF isTerminalStatus(row.status) THEN "cleanup" ELSE "kill_put"
  <2>1. Become(h, [st[h] EXCEPT !.pc = l, !.scan = row]) /\ l \in Free
    <3>1. [st[h] EXCEPT !.scan = row, !.pc = l] = [st[h] EXCEPT !.pc = l, !.scan = row]
      BY <1>0 DEF HandlerState
    <3>. QED BY <1>10, <3>1 DEF KillGet
  <2>. HIDE DEF l
  <2>. QED BY <1>10, <2>1, LoadSafe DEF KillGet
<1>11. CASE KillPut(h)
  <2>1. ScanOK(row', tiers) /\ Named(row', granted)
    BY <1>a, <1>11 DEF KillPut, r
  <2>. QED BY <1>0, <1>11, <2>1, GotoSafe DEF KillPut
<1>. QED BY <1>1, <1>2, <1>3, <1>4, <1>5, <1>6, <1>7, <1>8, <1>9, <1>10, <1>11

\* A layer that has persisted its output may hand it to the checkpoint.
LEMMA TierSafe ==
  ASSUME Typed, Safe, NEW h \in Handlers, NEW l \in {"persist_put", "token_get"}, Goto(h, l),
         tiers' = tiers \cup {st[h].layer}, st[h].pc \notin {"estimate_put", "fix_put"},
         row' = row, token' = token, jobs' = jobs, granted' = granted, prOpen' = prOpen
  PROVE  Safe'
<1>. DEFINE s == [st[h] EXCEPT !.pc = l]
<1>1. HandlerOK(st[h], tiers', granted') /\ st[h] \in HandlerState
  BY HandlerFacts, Monotone
<1>2. HandlerOK(s, tiers', granted')
  BY <1>1 DEF HandlerOK, HandlerState
<1>3. Become(h, s)
  BY DEF Goto
<1>4. ScanOK(row', tiers') /\ Named(row', granted') /\ token' \subseteq tiers'
  BY Monotone DEF Safe
<1>5. ASSUME NEW m \in LAYER_ORDER PROVE JobOK(jobs'[m], m, tiers', granted')
  BY Monotone DEF Safe
<1>. HIDE DEF s
<1>. QED BY <1>2, <1>3, <1>4, <1>5, SafeStep DEF Safe

\* A gate is approved: the row is stored and the approval recorded with it.
LEMMA GrantSafe ==
  ASSUME Typed, Safe, NEW h \in Handlers, NEW s, Become(h, s),
         granted \subseteq granted', HandlerOK(s, tiers, granted'),
         ScanOK(row', tiers), Named(row', granted'),
         token' = token, tiers' = tiers, jobs' = jobs, prOpen' = prOpen
  PROVE  Safe'
<1>1. ASSUME NEW m \in LAYER_ORDER PROVE JobOK(jobs'[m], m, tiers', granted')
  BY Monotone DEF Safe
<1>2. prOpen' => PrAllowed(granted')
  BY DEF Safe, PrAllowed
<1>. QED BY <1>1, <1>2, SafeStep DEF Safe

\* One job of the queue changes, and so does one handler.
LEMMA QueueSafe ==
  ASSUME Typed, Safe, NEW h \in Handlers, NEW s, Become(h, s), HandlerOK(s, tiers, granted),
         NEW l \in LAYER_ORDER, NEW j, JobOK(j, l, tiers, granted),
         jobs' = [jobs EXCEPT ![l] = j],
         row' = row, token' = token, tiers' = tiers, granted' = granted, prOpen' = prOpen
  PROVE  Safe'
<1>1. ASSUME NEW m \in LAYER_ORDER PROVE JobOK(jobs'[m], m, tiers', granted')
  BY DEF Safe, Typed, TypeOK
<1>. QED BY <1>1, SafeStep DEF Safe

\* Approvals, the queue and the layer job up to its persisted output.
LEMMA StepSafe2 ==
  ASSUME Typed, Safe, NEW h \in Handlers,
         \/ EstimatePut(h) \/ FixPut(h) \/ SchedPut(h) \/ Enqueue(h)
         \/ JobGet(h) \/ ExecOk(h) \/ ExecFail(h)
         \/ Persist(h) \/ PersistRest(h) \/ PersistPut(h)
  PROVE  Safe'
<1>. DEFINE r == st[h].scan
<1>0. /\ st[h] \in HandlerState /\ r \in Scan /\ HandlerOK(st[h], tiers, granted)
      /\ ScanOK(row, tiers) /\ Named(row, granted) /\ ScanOK(r, tiers)
      /\ st[h].pc \notin {"estimate_put", "fix_put"} => Named(r, granted)
  BY HandlerFacts
<1>. HIDE DEF r
<1>. USE FreeLabels
<1>1. CASE EstimatePut(h)
  <2>. DEFINE l == ScheduleLabel(1, r)
              s == [st[h] EXCEPT !.pc = l, !.next = 1]
  <2>1. l \in {"sched_put", "enqueue"}
    BY DEF ScheduleLabel
  <2>2. /\ row' = r /\ Become(h, s) /\ granted' = granted \cup {<<"estimate", r.approver>>}
        /\ token' = token /\ tiers' = tiers /\ jobs' = jobs /\ prOpen' = prOpen
    BY <1>1 DEF EstimatePut, r
  <2>3. 0 \in tiers /\ (ApproverRequired => r.approver = "approver")
    BY <1>0, <1>1 DEF EstimatePut, At, HandlerOK, r
  <2>4. Persisted(1, tiers)
    BY <2>3 DEF Persisted, LAYER_ORDER
  <2>5. Named(r, granted')
    BY <2>2, <2>3 DEF Named, ApproverGranted
  <2>6. HandlerOK(st[h], tiers, granted')
    BY <1>0, <2>2, Monotone
  <2>. HIDE DEF l
  <2>7. HandlerOK(s, tiers, granted')
    BY <1>0, <2>1, <2>4, <2>5, <2>6 DEF HandlerOK, HandlerState, r
  <2>. HIDE DEF s
  <2>. QED BY <1>0, <2>2, <2>5, <2>7, GrantSafe
<1>2. CASE FixPut(h)
  <2>. DEFINE s == [st[h] EXCEPT !.pc = "enqueue", !.next = 5, !.apply = TRUE]
  <2>1. /\ row' = r /\ Become(h, s) /\ granted' = granted \cup {<<"fix", "approver">>}
        /\ token' = token /\ tiers' = tiers /\ jobs' = jobs /\ prOpen' = prOpen
    BY <1>2 DEF FixPut, r
  <2>2. Persisted(5, tiers) /\ AutoFixEnabled
    BY <1>0, <1>2 DEF FixPut, At, HandlerOK
  <2>3. Named(r, granted') /\ PrAllowed(granted')
    BY <2>1, <2>2 DEF Named, ApproverGranted, PrAllowed
  <2>4. HandlerOK(st[h], tiers, granted')
    BY <1>0, <2>1, Monotone
  <2>5. HandlerOK(s, tiers, granted')
    BY <1>0, <2>2, <2>3, <2>4 DEF HandlerOK, HandlerState, r
  <2>. HIDE DEF s
  <2>. QED BY <1>0, <2>1, <2>3, <2>5, GrantSafe
<1>3. CASE SchedPut(h)
  <2>. DEFINE q == [r EXCEPT !.gateState = "running"]
              s == [st[h] EXCEPT !.pc = "enqueue", !.scan = q]
  <2>1. Named(r, granted)
    BY <1>0, <1>3 DEF SchedPut, At
  <2>2. q \in Scan /\ ScanOK(q, tiers) /\ Named(q, granted)
    BY <1>0, <2>1, ScanEdits DEF Scan, GateState
  <2>3. s = [st[h] EXCEPT !.pc = "enqueue", !.scan.gateState = "running"]
    BY <1>0 DEF HandlerState, r
  <2>4. HandlerOK(s, tiers, granted)
    BY <1>0, <2>2, LoadOK
  <2>5. row' = q /\ Become(h, s)
    BY <1>3, <2>3 DEF SchedPut, r
  <2>. HIDE DEF s, q
  <2>. QED BY <1>3, <2>2, <2>4, <2>5, SafePut DEF SchedPut
<1>4. CASE Enqueue(h)
  <2>. DEFINE n == st[h].next
              j == IF jobs[n].state = "none" /\ Connected(Home[h]) THEN buildJob(st[h]) ELSE jobs[n]
  <2>1. Named(r, granted)
    BY <1>0, <1>4 DEF Enqueue, At
  <2>2. jobs' = [jobs EXCEPT ![n] = j] /\ Return(h)
    BY <1>4 DEF Enqueue
  <2>3. CASE n = NoLayer
    <3>. HIDE DEF j
    <3>1. jobs' = jobs
      BY <2>2, <2>3, Layers DEF Typed, TypeOK
    <3>. HIDE DEF n
    <3>. QED BY <1>0, <1>4, <2>2, <3>1, ReturnSafe DEF Enqueue
  <2>4. CASE n # NoLayer
    <3>1. n \in LAYER_ORDER /\ Persisted(n, tiers)
      BY <1>0, <2>4 DEF HandlerState, HandlerOK
    <3>2. st[h].apply => PrAllowed(granted)
      BY <1>0 DEF HandlerOK
    <3>3. ApproverRequired /\ computeAllowLive(r) =>
            DastConfigured /\ (DastRequiresApprover => ApproverGranted(granted))
      BY <2>1 DEF computeAllowLive, Named
    <3>4. JobOK(buildJob(st[h]), n, tiers, granted)
      BY <3>1, <3>2, <3>3 DEF JobOK, buildJob, r
    <3>5. JobOK(j, n, tiers, granted)
      BY <3>1, <3>4 DEF Safe
    <3>6. Become(h, Returned(st[h])) /\ HandlerOK(Returned(st[h]), tiers, granted)
      BY <1>0, <2>2, ReturnedOK DEF Return
    <3>. HIDE DEF n, j
    <3>. QED BY <1>4, <2>2, <3>1, <3>5, <3>6, QueueSafe DEF Enqueue
  <2>. QED BY <2>3, <2>4
<1>5. CASE JobGet(h)
  <2>1. CASE Return(h)
    BY <1>0, <1>5, <2>1, ReturnSafe DEF JobGet
  <2>2. CASE Become(h, [st[h] EXCEPT !.pc = "exec", !.scan = row])
    <3>1. HandlerOK([st[h] EXCEPT !.pc = "exec", !.scan = row], tiers, granted)
      BY <1>0 DEF HandlerOK, HandlerState
    <3>. QED BY <1>5, <2>2, <3>1, SafeMove DEF JobGet
  <2>. QED BY <1>5, <2>1, <2>2 DEF JobGet
<1>6. OpensPrs(st[h]) => PrAllowed(granted)
  BY <1>0 DEF OpensPrs, prGateDecision, HandlerOK
<1>7. CASE ExecOk(h)
  <2>. DEFINE s == [st[h] EXCEPT !.pc = "persist"]
  <2>1. Named(r, granted)
    BY <1>0, <1>7 DEF ExecOk, At
  <2>2. HandlerOK(s, tiers, granted)
    BY <1>0, <2>1 DEF HandlerOK, HandlerState, r
  <2>3. Become(h, s) /\ (prOpen' => PrAllowed(granted))
    BY <1>6, <1>7 DEF ExecOk, Goto, Safe
  <2>. HIDE DEF s
  <2>4. ASSUME NEW m \in LAYER_ORDER PROVE JobOK(jobs'[m], m, tiers', granted')
    BY <1>7 DEF ExecOk, Safe
  <2>. QED BY <1>0, <1>7, <2>2, <2>3, <2>4, SafeStep DEF ExecOk, Safe
<1>8. CASE ExecFail(h)
  <2>1. Named(r, granted) /\ st[h].pc \notin {"estimate_put", "fix_put"}
    BY <1>0, <1>8 DEF ExecFail, At
  <2>2. prOpen' => PrAllowed(granted)
    BY <1>6, <1>8 DEF ExecFail, Safe
  <2>3. ASSUME NEW m \in LAYER_ORDER PROVE JobOK(jobs'[m], m, tiers', granted')
    BY <1>8 DEF ExecFail, Safe
  <2>4. ASSUME NEW s, Become(h, s), HandlerOK(s, tiers, granted) PROVE Safe'
    BY <1>0, <1>8, <2>2, <2>3, <2>4, SafeStep DEF ExecFail, Safe
  <2>5. CASE Return(h)
    BY <1>0, <2>4, <2>5, ReturnedOK DEF Return
  <2>6. CASE Goto(h, "fail")
    BY <1>0, <2>1, <2>4, <2>6, GotoOK DEF Goto
  <2>. QED BY <1>8, <2>5, <2>6 DEF ExecFail
<1>9. CASE Persist(h)
  <2>1. st[h].pc \notin {"estimate_put", "fix_put"} /\ Named(r, granted)
    BY <1>0, <1>9 DEF Persist, At
  <2>2. CASE Goto(h, "persist_put") /\ tiers' = tiers \cup {st[h].layer}
    BY <1>9, <2>1, <2>2, TierSafe DEF Persist
  <2>3. CASE Goto(h, "token_get") /\ tiers' = tiers \cup {st[h].layer}
    BY <1>9, <2>1, <2>3, TierSafe DEF Persist
  <2>4. CASE st[h].layer = 4 /\ Goto(h, "persist_rest") /\ tiers' = tiers
    <3>. DEFINE s == [st[h] EXCEPT !.pc = "persist_rest"]
    <3>1. HandlerOK(s, tiers, granted)
      BY <1>0, <2>1, <2>4 DEF HandlerOK, HandlerState, r
    <3>2. Become(h, s)
      BY <2>4 DEF Goto
    <3>. HIDE DEF s
    <3>. QED BY <1>9, <2>4, <3>1, <3>2, SafeMove DEF Persist
  <2>5. CASE Goto(h, "fail") /\ tiers' = tiers
    BY <1>0, <1>9, <2>1, <2>5, GotoSafe DEF Persist
  <2>. QED BY <1>9, <2>2, <2>3, <2>4, <2>5 DEF Persist
<1>10. CASE PersistRest(h)
  <2>1. st[h].pc \notin {"estimate_put", "fix_put"} /\ st[h].layer = 4
    BY <1>0, <1>10 DEF PersistRest, At, HandlerOK
  <2>. QED BY <1>10, <2>1, TierSafe DEF PersistRest
<1>11. CASE PersistPut(h)
  <2>. DEFINE s == [st[h] EXCEPT !.pc = "token_get"]
  <2>1. Named(r, granted) /\ st[h].layer \in tiers
    BY <1>0, <1>11 DEF PersistPut, At, HandlerOK
  <2>2. HandlerOK(s, tiers, granted)
    BY <1>0, <2>1 DEF HandlerOK, HandlerState, r
  <2>3. row' = r /\ Become(h, s)
    BY <1>11 DEF PersistPut, Goto, r
  <2>. HIDE DEF s
  <2>. QED BY <1>0, <1>11, <2>1, <2>2, <2>3, SafePut DEF PersistPut
<1>. QED BY <1>1, <1>2, <1>3, <1>4, <1>5, <1>7, <1>8, <1>9, <1>10, <1>11

\* The checkpoint, the transition after a layer, the fix gate and the outcomes.
LEMMA StepSafe3 ==
  ASSUME Typed, Safe, NEW h \in Handlers,
         \/ TokenGet(h) \/ TokenPut(h) \/ Reread(h) \/ FixGate(h) \/ GatePut(h)
         \/ Complete(h) \/ Fail(h)
  PROVE  Safe'
<1>. DEFINE r == st[h].scan
<1>0. /\ st[h] \in HandlerState /\ r \in Scan /\ HandlerOK(st[h], tiers, granted)
      /\ ScanOK(row, tiers) /\ Named(row, granted) /\ ScanOK(r, tiers) /\ row \in Scan
      /\ st[h].pc \notin {"estimate_put", "fix_put"} /\ Named(r, granted)
  <2>1. st[h].pc \notin {"estimate_put", "fix_put"}
    BY DEF TokenGet, TokenPut, Reread, FixGate, GatePut, Complete, Fail, At
  <2>. QED BY <2>1, HandlerFacts
<1>. HIDE DEF r
<1>. USE FreeLabels
<1>1. CASE TokenGet(h)
  <2>. DEFINE s == [st[h] EXCEPT !.pc = "token_put", !.done = token]
  <2>1. st[h].layer \in tiers
    BY <1>0, <1>1 DEF TokenGet, At, HandlerOK
  <2>2. HandlerOK(s, tiers, granted)
    BY <1>0, <2>1 DEF HandlerOK, HandlerState, Safe, r
  <2>3. Become(h, s)
    BY <1>1 DEF TokenGet
  <2>. HIDE DEF s
  <2>. QED BY <1>1, <2>2, <2>3, SafeMove DEF TokenGet
<1>2. CASE TokenPut(h)
  <2>1. st[h].layer \in tiers /\ st[h].done \subseteq tiers
    BY <1>0, <1>2 DEF TokenPut, At, HandlerOK
  <2>2. token' \subseteq tiers
    BY <1>2, <2>1 DEF TokenPut
  <2>3. ASSUME NEW m \in LAYER_ORDER PROVE JobOK(jobs'[m], m, tiers', granted')
    BY <1>2 DEF TokenPut, Safe
  <2>4. ASSUME NEW s, Become(h, s), HandlerOK(s, tiers, granted) PROVE Safe'
    BY <1>0, <1>2, <2>2, <2>3, <2>4, SafeStep DEF TokenPut, Safe
  <2>5. CASE Goto(h, "reread")
    <3>1. HandlerOK([st[h] EXCEPT !.pc = "reread"], tiers, granted)
      BY <1>0, <2>1 DEF HandlerOK, HandlerState, r
    <3>. QED BY <2>4, <2>5, <3>1 DEF Goto
  <2>6. CASE Become(h, [st[h] EXCEPT !.pc = "partial", !.scan.gateState = "blocked"])
    <3>. DEFINE q == [r EXCEPT !.gateState = "blocked"]
    <3>1. q \in Scan /\ ScanOK(q, tiers) /\ Named(q, granted)
      BY <1>0, ScanEdits DEF Scan, GateState
    <3>2. [st[h] EXCEPT !.pc = "partial", !.scan.gateState = "blocked"]
            = [st[h] EXCEPT !.pc = "partial", !.scan = q]
      BY <1>0 DEF HandlerState, r
    <3>. HIDE DEF q
    <3>3. HandlerOK([st[h] EXCEPT !.pc = "partial", !.scan = q], tiers, granted)
      BY <1>0, <3>1, LoadOK
    <3>. QED BY <2>4, <2>6, <3>2, <3>3
  <2>. QED BY <1>2, <2>5, <2>6 DEF TokenPut
<1>3. CASE Reread(h)
  <2>1. CASE Return(h)
    BY <1>0, <1>3, <2>1, ReturnSafe DEF Reread
  <2>2. ASSUME NEW a, a = Advance(row, st[h].layer),
               Become(h, [st[h] EXCEPT !.pc = a.pc, !.next = a.next,
                                       !.scan = [row EXCEPT !.gateState = a.gate]])
        PROVE  Safe'
    <3>. DEFINE l == st[h].layer
                q == [row EXCEPT !.gateState = a.gate]
                s == [st[h] EXCEPT !.pc = a.pc, !.next = a.next, !.scan = q]
    <3>1. l \in LAYER_ORDER /\ l \in tiers /\ Persisted(l, tiers)
      BY <1>0, <1>3 DEF Reread, At, Typed, ControlOK, JobLabels, HandlerOK, NoLayer, LAYER_ORDER
    <3>2. Persisted(l + 1, tiers)
      BY <3>1 DEF Persisted, LAYER_ORDER
    <3>3. /\ a.pc \in {"gate_put", "enqueue", "complete"} \/ (a.pc = "fix_gate" /\ l = 4)
          /\ a.next \in {NoLayer, l + 1}
          /\ a.gate \in {row.gateState, "estimate_approved"} \/ (a.gate = "estimate_pending" /\ l = 0)
      BY <2>2, <3>1, Layers DEF Advance
    <3>4. ScanOK(q, tiers) /\ Named(q, granted) /\ q \in [status : ScanStatus, gateState : {a.gate}, approver : Roles]
      <4>1. CASE a.gate = "estimate_pending" /\ l = 0
        BY <1>0, <3>1, <4>1 DEF ScanOK, Named, Scan
      <4>2. CASE a.gate \in {row.gateState, "estimate_approved"}
        BY <1>0, <4>2 DEF ScanOK, Named, Scan
      <4>. QED BY <3>3, <4>1, <4>2
    <3>. HIDE DEF q
    <3>5. HandlerOK(s, tiers, granted)
      BY <1>0, <3>1, <3>2, <3>3, <3>4 DEF HandlerOK, HandlerState
    <3>6. Become(h, s)
      BY <2>2 DEF q
    <3>. HIDE DEF s
    <3>. QED BY <1>3, <3>5, <3>6, SafeMove DEF Reread
  <2>. QED BY <1>3, <2>1, <2>2 DEF Reread
<1>4. CASE FixGate(h)
  <2>1. st[h].layer = 4 /\ 4 \in tiers /\ Persisted(4, tiers)
    BY <1>0, <1>4 DEF FixGate, At, HandlerOK, NoLayer
  <2>2. Persisted(5, tiers)
    BY <2>1 DEF Persisted, LAYER_ORDER
  <2>3. CASE /\ evaluateFixGate
             /\ Become(h, [st[h] EXCEPT !.pc = "gate_put", !.scan.gateState = "fix_gate_pending"])
    <3>. DEFINE q == [r EXCEPT !.gateState = "fix_gate_pending"]
                s == [st[h] EXCEPT !.pc = "gate_put", !.scan = q]
    <3>1. q \in Scan /\ ScanOK(q, tiers) /\ Named(q, granted)
      BY <1>0, <2>2, <2>3 DEF ScanOK, Named, Scan, GateState, evaluateFixGate
    <3>2. s = [st[h] EXCEPT !.pc = "gate_put", !.scan.gateState = "fix_gate_pending"]
      BY <1>0 DEF HandlerState, r
    <3>3. HandlerOK(s, tiers, granted)
      BY <1>0, <3>1, LoadOK
    <3>4. Become(h, s)
      BY <2>3, <3>2
    <3>. HIDE DEF s
    <3>. QED BY <1>4, <3>3, <3>4, SafeMove DEF FixGate
  <2>4. CASE /\ ~(evaluateFixGate /\ ApproverRequired)
             /\ Become(h, [st[h] EXCEPT !.pc = "gate_put", !.scan.gateState = "auto_approved",
                                        !.next = 5, !.apply = evaluateFixGate])
    <3>. DEFINE q == [r EXCEPT !.gateState = "auto_approved"]
                b == evaluateFixGate
                s == [st[h] EXCEPT !.pc = "gate_put", !.scan = q, !.next = 5, !.apply = b]
    <3>1. q \in Scan /\ ScanOK(q, tiers) /\ Named(q, granted)
      BY <1>0, ScanEdits DEF Scan, GateState
    <3>2. b => PrAllowed(granted)
      BY <2>4 DEF evaluateFixGate, PrAllowed
    <3>3. s = [st[h] EXCEPT !.pc = "gate_put", !.scan.gateState = "auto_approved",
                            !.next = 5, !.apply = b]
      BY <1>0 DEF HandlerState, r
    <3>. HIDE DEF b, q
    <3>4. HandlerOK(s, tiers, granted)
      BY <1>0, <2>2, <3>1, <3>2 DEF HandlerOK, HandlerState
    <3>5. Become(h, s)
      BY <2>4, <3>3 DEF b
    <3>. HIDE DEF s
    <3>. QED BY <1>4, <3>4, <3>5, SafeMove DEF FixGate
  <2>. QED BY <1>4, <2>3, <2>4 DEF FixGate
<1>5. CASE GatePut(h)
  <2>1. row' = r
    BY <1>5 DEF GatePut, r
  <2>2. CASE Return(h)
    BY <1>0, <1>5, <2>1, <2>2, ReturnSafe DEF GatePut
  <2>3. CASE Goto(h, ScheduleLabel(st[h].next, st[h].scan))
    <3>. DEFINE l == ScheduleLabel(st[h].next, st[h].scan)
    <3>1. l \in Free
      BY DEF ScheduleLabel
    <3>2. Goto(h, l)
      BY <2>3
    <3>. HIDE DEF l
    <3>. QED BY <1>0, <1>5, <2>1, <3>1, <3>2, GotoSafe DEF GatePut
  <2>. QED BY <1>5, <2>2, <2>3 DEF GatePut
<1>6. CASE Complete(h)
  <2>1. ScanOK(row', tiers) /\ Named(row', granted)
    BY <1>0, <1>6, ScanEdits DEF Complete, r
  <2>. QED BY <1>0, <1>6, <2>1, GotoSafe DEF Complete
<1>7. CASE Fail(h)
  <2>1. ScanOK(row', tiers) /\ Named(row', granted)
    BY <1>0, <1>7, ScanEdits DEF Fail, r
  <2>. QED BY <1>0, <1>7, <2>1, ReturnSafe DEF Fail
<1>. QED BY <1>1, <1>2, <1>3, <1>4, <1>5, <1>6, <1>7

\* Acknowledging or failing a job.
LEMMA SettleSafe ==
  ASSUME Typed, Safe, NEW h \in Handlers, NEW x \in {"done", "failed"}, Settle(h, x),
         row' = row, token' = token, tiers' = tiers, granted' = granted, prOpen' = prOpen
  PROVE  Safe'
<1>. DEFINE l == st[h].layer
<1>1. Become(h, Idle) /\ HandlerOK(Idle, tiers, granted)
  BY IdleOK DEF Settle
<1>2. CASE jobs' = jobs
  BY <1>1, <1>2, SafeMove
<1>3. CASE l \in LAYER_ORDER /\ jobs' = [jobs EXCEPT ![l].state = x]
  <2>. DEFINE j == [jobs[l] EXCEPT !.state = x]
  <2>1. Persisted(l, tiers)
    BY <1>3, HandlerFacts, Layers DEF HandlerOK
  <2>2. JobOK(jobs[l], l, tiers, granted) /\ jobs[l] \in Job
    BY <1>3 DEF Safe, Typed, TypeOK
  <2>3. JobOK(j, l, tiers, granted)
    BY <2>1, <2>2 DEF JobOK, Job
  <2>4. jobs' = [jobs EXCEPT ![l] = j]
    BY <1>3
  <2>. HIDE DEF j, l
  <2>. QED BY <1>1, <1>3, <2>3, <2>4, QueueSafe
<1>4. jobs' = jobs \/ (l \in LAYER_ORDER /\ jobs' = [jobs EXCEPT ![l].state = x])
  BY DEF Settle
<1>. QED BY <1>2, <1>3, <1>4

\* Jobs taken, acknowledged and failed.
LEMMA QueueStepSafe ==
  ASSUME Typed, Safe, NEW h \in Handlers,
         \/ Ack(h) \/ StoreError(h) \/ \E l \in LAYER_ORDER : TakeJob(h, l)
  PROVE  Safe'
<1>0. st[h] \in HandlerState /\ HandlerOK(st[h], tiers, granted) /\ ScanOK(row, tiers)
      /\ Named(row, granted)
  BY HandlerFacts
<1>1. CASE Ack(h)
  BY <1>1, SettleSafe DEF Ack
<1>2. CASE StoreError(h)
  <2>1. CASE Settle(h, "failed")
    BY <1>2, <2>1, SettleSafe DEF StoreError
  <2>2. CASE st[h].pc \in Guarded /\ Goto(h, "fail") /\ UNCHANGED <<queue, sig>>
    <3>1. st[h].pc \notin {"estimate_put", "fix_put"}
      BY <2>2 DEF Guarded
    <3>. QED BY <1>0, <1>2, <2>2, <3>1, FreeLabels, GotoSafe DEF StoreError
  <2>. QED BY <1>2, <2>1, <2>2 DEF StoreError
<1>3. ASSUME NEW l \in LAYER_ORDER, TakeJob(h, l) PROVE Safe'
  <2>. DEFINE p == IF isKilled(Home[h]) THEN "ack" ELSE "job_get"
              s == [Idle EXCEPT !.layer = l, !.auto = jobs[l].auto, !.live = jobs[l].live, !.pc = p]
              j == [jobs[l] EXCEPT !.state = "active"]
  <2>1. JobOK(jobs[l], l, tiers, granted) /\ jobs[l] \in Job /\ jobs[l].state # "none"
    BY <1>3 DEF Safe, Typed, TypeOK, TakeJob
  <2>2. JobOK(j, l, tiers, granted)
    BY <2>1 DEF JobOK, Job
  <2>3. p \in {"ack", "job_get"}
    OBVIOUS
  <2>. HIDE DEF p
  <2>4. HandlerOK(s, tiers, granted)
    BY <2>1, <2>3 DEF HandlerOK, Idle, NewScan, ScanOK, Named, JobOK, Job
  <2>5. Become(h, s) /\ jobs' = [jobs EXCEPT ![l] = j]
    BY <1>3 DEF TakeJob, p
  <2>. HIDE DEF s, j
  <2>. QED BY <1>3, <2>2, <2>4, <2>5, QueueSafe DEF TakeJob
<1>. QED BY <1>1, <1>2, <1>3

\* An evicted or redelivered job carries no new permission.
LEMMA RedeliverySafe ==
  ASSUME Typed, Safe, NEW l \in LAYER_ORDER, Evict(l) \/ Stall(l)
  PROVE  Safe'
<1>1. JobOK(jobs[l], l, tiers, granted) /\ jobs \in [LAYER_ORDER -> Job]
  BY DEF Safe, Typed, TypeOK
<1>2. /\ row' = row /\ token' = token /\ tiers' = tiers /\ st' = st
      /\ granted' = granted /\ prOpen' = prOpen
  BY DEF Evict, Stall
<1>3. \A m \in LAYER_ORDER \ {l} : jobs'[m] = jobs[m]
  BY <1>1 DEF Evict, Stall
<1>4. JobOK(jobs'[l], l, tiers, granted)
  <2>1. CASE Evict(l)
    BY <1>1, <2>1 DEF Evict, NoJob, JobOK
  <2>2. CASE Stall(l)
    <3>1. jobs[l].state # "none" /\ jobs'[l].auto = jobs[l].auto /\ jobs'[l].live = jobs[l].live
      BY <1>1, <2>2 DEF Stall, Job
    <3>. QED BY <1>1, <3>1 DEF JobOK
  <2>. QED BY <2>1, <2>2
<1>. QED BY <1>2, <1>3, <1>4 DEF Safe

\* A crash forgets claims and makes none.
LEMMA CrashSafe ==
  ASSUME Typed, Safe, NEW p \in Procs, Crash(p)
  PROVE  Safe'
<1>1. ASSUME NEW g \in Handlers PROVE HandlerOK(st'[g], tiers, granted)
  <2>1. st'[g] \in {Idle, st[g]}
    BY DEF Crash
  <2>. QED BY <2>1, IdleOK DEF Safe
<1>2. /\ row' = row /\ token' = token /\ tiers' = tiers /\ jobs' = jobs
      /\ granted' = granted /\ prOpen' = prOpen
  BY DEF Crash
<1>. QED BY <1>1, <1>2 DEF Safe

\* Nothing is persisted, queued or claimed at first.
LEMMA InitSafe == Init => Safe
<1>. SUFFICES ASSUME Init PROVE Safe
  OBVIOUS
<1>1. ASSUME NEW h \in Handlers PROVE HandlerOK(st[h], tiers, granted)
  BY IdleOK DEF Init
<1>2. ASSUME NEW l \in LAYER_ORDER PROVE JobOK(jobs[l], l, tiers, granted)
  BY DEF Init, NoJob, JobOK
<1>. QED BY <1>1, <1>2 DEF Init, Safe, ScanOK, Named, NewScan

\* Every step preserves what copies, jobs and handlers may claim.
LEMMA NextSafe ==
  ASSUME Typed, Safe, [Next]_vars
  PROVE  Safe'
<1>1. CASE UNCHANGED vars
  BY <1>1 DEF vars, Safe
<1>2. ASSUME NEW h \in Handlers, Begin(h) PROVE Safe'
  BY <1>2, BeginSafe
<1>3. ASSUME NEW h \in Handlers, Step(h) PROVE Safe'
  BY <1>3, StepSafe1, StepSafe2, StepSafe3, QueueStepSafe DEF Step
<1>4. ASSUME NEW h \in Handlers, StoreError(h) PROVE Safe'
  BY <1>4, QueueStepSafe
<1>5. ASSUME NEW h \in Handlers, NEW l \in LAYER_ORDER, TakeJob(h, l) PROVE Safe'
  BY <1>5, QueueStepSafe
<1>6. ASSUME NEW l \in LAYER_ORDER, Evict(l) \/ Stall(l) PROVE Safe'
  BY <1>6, RedeliverySafe
<1>7. ASSUME NEW p \in Procs, Crash(p) PROVE Safe'
  BY <1>7, CrashSafe
<1>. QED BY <1>1, <1>2, <1>3, <1>4, <1>5, <1>6, <1>7 DEF Next

\* The inductive invariant.
LEMMA AlwaysSafe == Spec => []Safe
<1>1. Init => Safe
  BY InitSafe
<1>2. Typed /\ Safe /\ [Next]_vars => Safe'
  BY NextSafe
<1>. QED BY <1>1, <1>2, AlwaysTyped, PTL DEF Spec

-----------------------------------------------------------------------------
(* What follows from it                                                    *)

\* The resume token names only layers whose output is in the store, although
\* advanceResumeToken is an unguarded read-modify-write that several runs of
\* a layer, start() and crashes interleave with.
THEOREM CheckpointsSound == Spec => []CheckpointSound
<1>1. Safe => CheckpointSound
  BY DEF Safe, CheckpointSound
<1>. QED BY <1>1, AlwaysSafe, PTL

\* No layer is on the queue before every earlier layer has stored its output,
\* whichever of start, advanceAfterLayer, approveGate, resume and
\* reconciliation put it there.
THEOREM LayersInOrder == Spec => []JobsInOrder
<1>1. ASSUME Safe, NEW l \in LAYER_ORDER, jobs[l].state # "none" PROVE 0..(l - 1) \subseteq tiers
  <2>1. Persisted(l, tiers)
    BY <1>1 DEF Safe, JobOK
  <2>. QED BY <2>1 DEF Persisted, LAYER_ORDER
<1>2. Safe => JobsInOrder
  BY <1>1 DEF JobsInOrder
<1>. QED BY <1>2, AlwaysSafe, PTL

\* Golden rule 5: no pull request without auto-fix and, where one is required,
\* an approver's decision at the fix gate.
THEOREM PullRequestsApproved == Spec => []PrsApproved
<1>1. Safe => PrsApproved
  BY DEF Safe, PrsApproved, PrAllowed
<1>. QED BY <1>1, AlwaysSafe, PTL

\* Where gates need an approver, live probing needs one too.  Without that
\* setting it does not hold: an operator's approval then counts as well.
THEOREM LiveRunsApproved == ApproverRequired => (Spec => []LiveApproved)
<1>. SUFFICES ASSUME ApproverRequired PROVE Spec => []LiveApproved
  OBVIOUS
<1>1. Safe => LiveApproved
  <2>1. 3 \in LAYER_ORDER
    BY Layers
  <2>. QED BY <2>1 DEF Safe, JobOK, LiveApproved, ApproverGranted
<1>. QED BY <1>1, AlwaysSafe, PTL

-----------------------------------------------------------------------------
(* The orchestrator implements the pipeline                                *)

\* A row or a copy of it says completed only with every layer stored.
Done(r, T) == r.status = "completed" => LAYER_ORDER \subseteq T

\* So does the handler about to write it, and no approval is written over it.
FinOK(s, T) ==
  /\ Done(s.scan, T)
  /\ s.pc = "complete" => LAYER_ORDER \subseteq T
  /\ s.pc \in {"estimate_put", "fix_put"} => s.scan.status # "completed"

\* The row, and every handler with its copy.
Finished == Done(row, tiers) /\ \A h \in Handlers : FinOK(st[h], tiers)

\* A step of the abstract pipeline, or one it does not see.
PipelineStep == [Pipeline!Next]_(Pipeline!pipeline)

\* A step that stores no layer, approves nothing and opens no pull request is
\* invisible, finishes the scan or overwrites a finished one.
LEMMA RowStep ==
  ASSUME tiers' = tiers, granted' = granted, prOpen' = prOpen, Done(row', tiers)
  PROVE  PipelineStep
<1>1. CASE (row'.status = "completed") = (row.status = "completed")
  BY <1>1 DEF PipelineStep, Pipeline!pipeline
<1>2. CASE row'.status = "completed" /\ row.status # "completed"
  <2>1. Pipeline!Finish
    BY <1>2 DEF Pipeline!Finish, Pipeline!Layers, Done, LAYER_ORDER
  <2>. QED BY <2>1 DEF PipelineStep, Pipeline!Next
<1>3. CASE row'.status # "completed" /\ row.status = "completed"
  <2>1. Pipeline!Overwrite
    BY <1>3 DEF Pipeline!Overwrite
  <2>. QED BY <2>1 DEF PipelineStep, Pipeline!Next
<1>. QED BY <1>1, <1>2, <1>3

\* Storing a layer after the ones before it.
LEMMA TierStep ==
  ASSUME NEW l \in LAYER_ORDER, Persisted(l, tiers), tiers' = tiers \cup {l},
         granted' = granted, prOpen' = prOpen, row' = row
  PROVE  PipelineStep
<1>1. 0 .. l - 1 \subseteq tiers
  BY DEF Persisted, LAYER_ORDER
<1>2. l \in Pipeline!Layers
  BY DEF Pipeline!Layers, LAYER_ORDER
<1>3. Pipeline!StoreLayer(l)
  BY <1>1 DEF Pipeline!StoreLayer
<1>. QED BY <1>2, <1>3 DEF PipelineStep, Pipeline!Next

\* Approving a gate once the output it presents is stored.
LEMMA GrantStep ==
  ASSUME NEW gate \in {"estimate", "fix"}, NEW role \in {"operator", "approver"},
         Pipeline!presents(gate) \in tiers, gate = "fix" \/ ApproverRequired => role = "approver",
         granted' = granted \cup {<<gate, role>>}, row'.status # "completed",
         tiers' = tiers, prOpen' = prOpen
  PROVE  PipelineStep
<1>1. Pipeline!Approve(gate, role)
  BY DEF Pipeline!Approve
<1>2. gate \in Pipeline!Gates
  BY DEF Pipeline!Gates
<1>. QED BY <1>1, <1>2 DEF PipelineStep, Pipeline!Next

\* Opening pull requests.
LEMMA PublishStep ==
  ASSUME Persisted(5, tiers), PrAllowed(granted), prOpen' = TRUE,
         tiers' = tiers, granted' = granted, row' = row
  PROVE  PipelineStep
<1>1. 0 .. 4 \subseteq tiers
  BY DEF Persisted, LAYER_ORDER
<1>2. Pipeline!Publish
  BY <1>1 DEF Pipeline!Publish, PrAllowed
<1>. QED BY <1>2 DEF PipelineStep, Pipeline!Next

\* The handler goes on as t.
LEMMA FinStep ==
  ASSUME Typed, Finished, NEW h \in Handlers, NEW t, Become(h, t), FinOK(t, tiers'),
         Done(row', tiers'), tiers \subseteq tiers'
  PROVE  Finished'
<1>1. st'[h] = t /\ \A g \in Handlers \ {h} : st'[g] = st[g]
  BY BecomeFacts
<1>2. ASSUME NEW g \in Handlers PROVE FinOK(st'[g], tiers')
  <2>1. FinOK(st[g], tiers)
    BY DEF Finished
  <2>2. FinOK(st[g], tiers')
    BY <2>1 DEF FinOK, Done
  <2>. QED BY <1>1, <2>2
<1>. QED BY <1>2 DEF Finished

\* The handler goes on as t, and at most the row is written.
LEMMA FinPut ==
  ASSUME Typed, Finished, NEW h \in Handlers, NEW t, Become(h, t), FinOK(t, tiers),
         Done(row', tiers), tiers' = tiers, granted' = granted, prOpen' = prOpen
  PROVE  Finished' /\ PipelineStep
  BY FinStep, RowStep

\* The handler goes on to the await l with the row r.
Loads(h, l, r) == Become(h, [st[h] EXCEPT !.pc = l, !.scan = r])

\* Going on, loading a row and returning.
LEMMA FinStates ==
  ASSUME NEW s \in HandlerState, NEW T, FinOK(s, T)
  PROVE  /\ \A l : l \notin {"complete", "estimate_put", "fix_put"} =>
              /\ FinOK([s EXCEPT !.pc = l], T)
              /\ \A r : Done(r, T) => FinOK([s EXCEPT !.pc = l, !.scan = r], T)
         /\ FinOK(Returned(s), T) /\ FinOK(Idle, T)
<1>1. ASSUME NEW l, l \notin {"complete", "estimate_put", "fix_put"}
      PROVE  /\ FinOK([s EXCEPT !.pc = l], T)
             /\ \A r : Done(r, T) => FinOK([s EXCEPT !.pc = l, !.scan = r], T)
  BY <1>1 DEF FinOK, HandlerState
<1>2. FinOK(Returned(s), T) /\ FinOK(Idle, T)
  BY DEF FinOK, Returned, Idle, NewScan, Done
<1>. QED BY <1>1, <1>2

\* Writing another status, or the gate, claims no completion.
LEMMA DoneEdits ==
  ASSUME NEW r \in Scan, NEW T, Done(r, T)
  PROVE  /\ \A g : Done([r EXCEPT !.gateState = g], T)
         /\ \A x : x # "completed" => Done([r EXCEPT !.status = x], T)
         /\ \A x, g : x # "completed" => Done([r EXCEPT !.status = x, !.gateState = g], T)
  BY DEF Done, Scan

\* What a handler may rely on.
LEMMA FinFacts ==
  ASSUME Typed, Finished, NEW h \in Handlers
  PROVE  /\ st[h] \in HandlerState /\ st[h].scan \in Scan /\ row \in Scan
         /\ FinOK(st[h], tiers) /\ Done(st[h].scan, tiers) /\ Done(row, tiers)
  BY DEF Typed, TypeOK, Finished, FinOK, HandlerState

\* Returning to idle claims nothing.
LEMMA ReturnFin ==
  ASSUME Typed, Finished, NEW h \in Handlers, Return(h),
         Done(row', tiers), tiers' = tiers, granted' = granted, prOpen' = prOpen
  PROVE  Finished' /\ PipelineStep
<1>1. FinOK(Returned(st[h]), tiers)
  BY FinFacts, FinStates
<1>. QED BY <1>1, FinPut DEF Return

\* Nor does going on to an await that is not about to finish or approve.
LEMMA GotoFin ==
  ASSUME Typed, Finished, NEW h \in Handlers, NEW l, Goto(h, l),
         l \notin {"complete", "estimate_put", "fix_put"},
         Done(row', tiers), tiers' = tiers, granted' = granted, prOpen' = prOpen
  PROVE  Finished' /\ PipelineStep
<1>1. FinOK([st[h] EXCEPT !.pc = l], tiers)
  BY FinFacts, FinStates
<1>. QED BY <1>1, FinPut DEF Goto

\* Nor does going on to one with the row just read.
LEMMA LoadFin ==
  ASSUME Typed, Finished, NEW h \in Handlers, NEW l, NEW r, Loads(h, l, r), Done(r, tiers),
         l \notin {"complete", "estimate_put", "fix_put"},
         Done(row', tiers), tiers' = tiers, granted' = granted, prOpen' = prOpen
  PROVE  Finished' /\ PipelineStep
<1>1. FinOK([st[h] EXCEPT !.pc = l, !.scan = r], tiers)
  BY FinFacts, FinStates
<1>. QED BY <1>1, FinPut DEF Loads

\* Requests, reconciliation and kill messages: an approval is begun on a scan
\* that has not ended.
LEMMA BeginFin ==
  ASSUME Typed, Finished, NEW h \in Handlers, Begin(h)
  PROVE  Finished' /\ PipelineStep
<1>0. st[h] \in HandlerState /\ row \in Scan /\ FinOK(st[h], tiers) /\ Done(row, tiers)
  BY FinFacts
<1>1. CASE Start(h)
  <2>1. Loads(h, "start_put", row)
    BY <1>1 DEF Start, Loads
  <2>. QED BY <1>0, <1>1, <2>1, LoadFin DEF Start
<1>2. CASE Pause(h)
  <2>1. Loads(h, "pause_put", row)
    BY <1>2 DEF Pause, Loads
  <2>. QED BY <1>0, <1>2, <2>1, LoadFin DEF Pause
<1>3. CASE Cancel(h)
  <2>1. Loads(h, "cancel_put", row)
    BY <1>3 DEF Cancel, Loads
  <2>. QED BY <1>0, <1>3, <2>1, LoadFin DEF Cancel
<1>4. CASE Resume(h)
  <2>1. Loads(h, "resume_token", row)
    BY <1>4 DEF Resume, Loads
  <2>. QED BY <1>0, <1>4, <2>1, LoadFin DEF Resume
<1>5. CASE UNCHANGED <<st, store, granted, prOpen>>
  <2>1. Finished'
    BY <1>5 DEF Finished
  <2>. QED BY <1>0, <1>5, <2>1, RowStep
<1>6. CASE Reconcile(h)
  BY <1>0, <1>5, <1>6, GotoFin DEF Reconcile
<1>7. CASE Kill(h)
  BY <1>0, <1>7, GotoFin DEF Kill
<1>8. CASE KillAll(h)
  BY <1>0, <1>8, GotoFin DEF KillAll
<1>9. CASE RemoteKill(h)
  BY <1>0, <1>5, <1>9, GotoFin DEF RemoteKill
<1>10. CASE ApproveEstimate(h)
  <2>. DEFINE r(role) == [status |-> "running", gateState |-> "estimate_approved", approver |-> role]
  <2>1. PICK role : Become(h, [st[h] EXCEPT !.pc = "estimate_put", !.scan = r(role)])
    BY <1>10 DEF ApproveEstimate
  <2>2. FinOK([st[h] EXCEPT !.pc = "estimate_put", !.scan = r(role)], tiers)
    BY <1>0 DEF FinOK, Done, HandlerState
  <2>. HIDE DEF r
  <2>. QED BY <1>0, <1>10, <2>1, <2>2, FinPut DEF ApproveEstimate
<1>11. CASE ApproveFix(h)
  <2>. DEFINE r == [row EXCEPT !.gateState = "approved", !.approver = "approver"]
  <2>1. r.status # "completed"
    BY <1>0, <1>11 DEF ApproveFix, isTerminalStatus, TERMINAL_STATUSES, Scan
  <2>2. Become(h, [st[h] EXCEPT !.pc = "fix_put", !.scan = r])
    BY <1>11 DEF ApproveFix
  <2>. HIDE DEF r
  <2>3. FinOK([st[h] EXCEPT !.pc = "fix_put", !.scan = r], tiers)
    BY <1>0, <2>1 DEF FinOK, Done, HandlerState
  <2>. QED BY <1>0, <1>11, <2>2, <2>3, FinPut DEF ApproveFix
<1>. QED BY <1>1, <1>2, <1>3, <1>4, <1>6, <1>7, <1>8, <1>9, <1>10, <1>11 DEF Begin

\* start, pause, cancel, resume and kill: resume() completes only a scan whose
\* token, and so whose store, has every layer.
LEMMA StepFin1 ==
  ASSUME Typed, Safe, Finished, NEW h \in Handlers,
         \/ StartPut(h) \/ StartToken(h) \/ PausePut(h) \/ CancelPut(h) \/ Cleanup(h)
         \/ ResumeLoad(h) \/ ResumeToken(h) \/ ResumePut(h)
         \/ KillPublish(h) \/ KillGet(h) \/ KillPut(h)
  PROVE  Finished' /\ PipelineStep
<1>0. /\ st[h] \in HandlerState /\ st[h].scan \in Scan /\ row \in Scan
      /\ FinOK(st[h], tiers) /\ Done(st[h].scan, tiers) /\ Done(row, tiers)
  BY FinFacts
<1>1. CASE StartPut(h)
  <2>. DEFINE r == [st[h].scan EXCEPT !.status = "running"]
  <2>1. Done(r, tiers)
    BY <1>0, DoneEdits
  <2>2. Loads(h, "start_token", r)
    BY <1>1 DEF StartPut, Loads
  <2>3. row' = r
    BY <1>1 DEF StartPut
  <2>. HIDE DEF r
  <2>. QED BY <1>1, <2>1, <2>2, <2>3, LoadFin DEF StartPut
<1>2. CASE StartToken(h)
  <2>1. FinOK([st[h] EXCEPT !.pc = "enqueue", !.next = 0], tiers)
    BY <1>0 DEF FinOK, HandlerState
  <2>. QED BY <1>0, <1>2, <2>1, FinPut DEF StartToken
<1>3. CASE PausePut(h)
  <2>1. Done([st[h].scan EXCEPT !.status = "paused"], tiers)
    BY <1>0, DoneEdits
  <2>. QED BY <1>3, <2>1, ReturnFin DEF PausePut
<1>4. CASE CancelPut(h)
  <2>1. Done(row', tiers)
    BY <1>0, <1>4, DoneEdits DEF CancelPut
  <2>. QED BY <1>4, <2>1, GotoFin DEF CancelPut
<1>5. CASE Cleanup(h)
  BY <1>0, <1>5, ReturnFin DEF Cleanup
<1>6. CASE ResumeLoad(h)
  <2>1. Loads(h, "resume_token", row) \/ Return(h)
    BY <1>6 DEF ResumeLoad, Loads
  <2>. QED BY <1>0, <1>6, <2>1, LoadFin, ReturnFin DEF ResumeLoad
<1>7. CASE ResumeToken(h)
  <2>1. FinOK([st[h] EXCEPT !.pc = "resume_put", !.done = token], tiers)
    BY <1>0 DEF FinOK, HandlerState
  <2>. QED BY <1>0, <1>7, <2>1, FinPut DEF ResumeToken
<1>8. CASE ResumePut(h)
  <2>. DEFINE r == [st[h].scan EXCEPT !.status = "running"]
              n == nextLayer(st[h].done)
  <2>1. Done(r, tiers) /\ row' = r
    BY <1>0, <1>8, DoneEdits DEF ResumePut
  <2>2. CASE Return(h)
    BY <1>8, <2>1, <2>2, ReturnFin DEF ResumePut
  <2>3. CASE n = NoLayer /\ Become(h, [st[h] EXCEPT !.pc = "complete", !.scan = r])
    <3>1. LAYER_ORDER \subseteq st[h].done
      BY <2>3, NextLayerNone
    <3>2. st[h].done \subseteq tiers
      BY DEF Safe, HandlerOK
    <3>. HIDE DEF r, n
    <3>3. FinOK([st[h] EXCEPT !.pc = "complete", !.scan = r], tiers)
      BY <1>0, <2>1, <3>1, <3>2 DEF FinOK, HandlerState
    <3>. QED BY <1>8, <2>1, <2>3, <3>3, FinPut DEF ResumePut
  <2>4. CASE Become(h, [st[h] EXCEPT !.pc = ScheduleLabel(n, r), !.scan = r, !.next = n])
    <3>. DEFINE k == ScheduleLabel(n, r)
    <3>1. k \in {"sched_put", "enqueue"}
      BY DEF ScheduleLabel
    <3>2. Become(h, [st[h] EXCEPT !.pc = k, !.scan = r, !.next = n])
      BY <2>4
    <3>. HIDE DEF r, n, k
    <3>3. FinOK([st[h] EXCEPT !.pc = k, !.scan = r, !.next = n], tiers)
      BY <1>0, <2>1, <3>1 DEF FinOK, HandlerState
    <3>. QED BY <1>8, <2>1, <3>2, <3>3, FinPut DEF ResumePut
  <2>. QED BY <1>8, <2>2, <2>3, <2>4 DEF ResumePut
<1>9. CASE KillPublish(h)
  BY <1>0, <1>9, ReturnFin, GotoFin DEF KillPublish
<1>10. CASE KillGet(h)
  <2>. DEFINE k == IF isTerminalStatus(row.status) THEN "cleanup" ELSE "kill_put"
  <2>1. k \in {"cleanup", "kill_put"}
    OBVIOUS
  <2>2. Become(h, [st[h] EXCEPT !.scan = row, !.pc = k])
    BY <1>10 DEF KillGet
  <2>. HIDE DEF k
  <2>3. FinOK([st[h] EXCEPT !.scan = row, !.pc = k], tiers)
    BY <1>0, <2>1 DEF FinOK, HandlerState
  <2>. QED BY <1>0, <1>10, <2>2, <2>3, FinPut DEF KillGet
<1>11. CASE KillPut(h)
  <2>1. Done([st[h].scan EXCEPT !.status = "cancelled", !.gateState = "blocked"], tiers)
    BY <1>0, DoneEdits
  <2>. QED BY <1>11, <2>1, GotoFin DEF KillPut
<1>. QED BY <1>1, <1>2, <1>3, <1>4, <1>5, <1>6, <1>7, <1>8, <1>9, <1>10, <1>11

\* Approvals, the queue, the runner and what it leaves in the store.
LEMMA StepFin2 ==
  ASSUME Typed, Safe, Finished, NEW h \in Handlers,
         \/ EstimatePut(h) \/ FixPut(h) \/ SchedPut(h) \/ Enqueue(h)
         \/ JobGet(h) \/ ExecOk(h) \/ ExecFail(h)
         \/ Persist(h) \/ PersistRest(h) \/ PersistPut(h) \/ TokenGet(h)
  PROVE  Finished' /\ PipelineStep
<1>0. /\ st[h] \in HandlerState /\ st[h].scan \in Scan /\ row \in Scan
      /\ FinOK(st[h], tiers) /\ Done(st[h].scan, tiers) /\ Done(row, tiers)
      /\ HandlerOK(st[h], tiers, granted)
  BY FinFacts, HandlerFacts
<1>1. CASE EstimatePut(h)
  <2>. DEFINE k == ScheduleLabel(1, st[h].scan)
              role == st[h].scan.approver
  <2>1. k \in {"sched_put", "enqueue"}
    BY DEF ScheduleLabel
  <2>2. /\ Become(h, [st[h] EXCEPT !.pc = k, !.next = 1]) /\ st[h].pc = "estimate_put"
        /\ row' = st[h].scan /\ tiers' = tiers /\ prOpen' = prOpen
        /\ granted' = granted \cup {<<"estimate", role>>}
    BY <1>1 DEF EstimatePut, At
  <2>3. role \in {"operator", "approver"}
    BY <1>0, <2>2 DEF Typed, ControlOK, Scan, Roles
  <2>4. 0 \in tiers /\ (ApproverRequired => role = "approver") /\ st[h].scan.status # "completed"
    BY <1>0, <2>2 DEF HandlerOK, FinOK
  <2>. HIDE DEF k, role
  <2>5. FinOK([st[h] EXCEPT !.pc = k, !.next = 1], tiers)
    BY <1>0, <2>1 DEF FinOK, HandlerState
  <2>6. Finished'
    BY <1>0, <2>2, <2>5, FinStep
  <2>7. PipelineStep
    BY <2>2, <2>3, <2>4, GrantStep DEF Pipeline!presents
  <2>. QED BY <2>6, <2>7
<1>2. CASE FixPut(h)
  <2>2. /\ Become(h, [st[h] EXCEPT !.pc = "enqueue", !.next = 5, !.apply = TRUE])
        /\ st[h].pc = "fix_put" /\ row' = st[h].scan /\ tiers' = tiers /\ prOpen' = prOpen
        /\ granted' = granted \cup {<<"fix", "approver">>}
    BY <1>2 DEF FixPut, At
  <2>3. 4 \in tiers /\ st[h].scan.status # "completed"
    BY <1>0, <2>2, Layers DEF HandlerOK, FinOK, Persisted
  <2>4. FinOK([st[h] EXCEPT !.pc = "enqueue", !.next = 5, !.apply = TRUE], tiers)
    BY <1>0 DEF FinOK, HandlerState
  <2>5. Finished'
    BY <1>0, <2>2, <2>4, FinStep
  <2>6. PipelineStep
    BY <2>2, <2>3, GrantStep DEF Pipeline!presents
  <2>. QED BY <2>5, <2>6
<1>3. CASE SchedPut(h)
  <2>. DEFINE r == [st[h].scan EXCEPT !.gateState = "running"]
  <2>1. Done(r, tiers) /\ row' = r
    BY <1>0, <1>3, DoneEdits DEF SchedPut
  <2>2. Loads(h, "enqueue", r)
    BY <1>3 DEF SchedPut, Loads
  <2>. HIDE DEF r
  <2>. QED BY <1>3, <2>1, <2>2, LoadFin DEF SchedPut
<1>4. CASE Enqueue(h)
  BY <1>0, <1>4, ReturnFin DEF Enqueue
<1>5. CASE JobGet(h)
  <2>1. Loads(h, "exec", row) \/ Return(h)
    BY <1>5 DEF JobGet, Loads
  <2>. QED BY <1>0, <1>5, <2>1, LoadFin, ReturnFin DEF JobGet
\* The runner: a pull request was opened only by Layer 5.
<1>6. ASSUME NEW t, Become(h, t), FinOK(t, tiers), prOpen' \in {prOpen, prOpen \/ OpensPrs(st[h])},
             row' = row, tiers' = tiers, granted' = granted
      PROVE  Finished' /\ PipelineStep
  <2>1. Finished'
    BY <1>0, <1>6, FinStep
  <2>2. CASE prOpen' = prOpen
    <3>1. Done(row', tiers)
      BY <1>0, <1>6
    <3>2. PipelineStep
      BY <1>6, <2>2, <3>1, RowStep
    <3>. QED BY <2>1, <3>2
  <2>3. CASE prOpen' # prOpen
    <3>1. prOpen' = TRUE /\ OpensPrs(st[h])
      BY <1>6, <2>3 DEF Typed, TypeOK, OpensPrs, prGateDecision
    <3>2. st[h].layer = 5 /\ st[h].auto
      BY <3>1 DEF OpensPrs, prGateDecision
    <3>3. Persisted(5, tiers) /\ PrAllowed(granted)
      BY <1>0, <3>2 DEF HandlerOK, NoLayer
    <3>. QED BY <1>6, <2>1, <3>1, <3>3, PublishStep
  <2>. QED BY <2>1, <2>2, <2>3
<1>7. CASE ExecOk(h)
  <2>1. FinOK([st[h] EXCEPT !.pc = "persist"], tiers)
    BY <1>0, FinStates
  <2>. QED BY <1>6, <1>7, <2>1 DEF ExecOk, Goto
<1>8. CASE ExecFail(h)
  <2>1. FinOK([st[h] EXCEPT !.pc = "fail"], tiers) /\ FinOK(Returned(st[h]), tiers)
    BY <1>0, FinStates
  <2>. QED BY <1>6, <1>8, <2>1 DEF ExecFail, Goto, Return
<1>9. ASSUME NEW l \in {"persist_put", "token_get"}, Goto(h, l), Persisted(st[h].layer, tiers),
             st[h].layer \in LAYER_ORDER, tiers' = tiers \cup {st[h].layer},
             row' = row, granted' = granted, prOpen' = prOpen
      PROVE  Finished' /\ PipelineStep
  <2>1. FinOK([st[h] EXCEPT !.pc = l], tiers)
    BY <1>0, <1>9, FinStates
  <2>2. FinOK([st[h] EXCEPT !.pc = l], tiers')
    BY <1>9, <2>1 DEF FinOK, Done
  <2>3. Done(row', tiers') /\ tiers \subseteq tiers'
    BY <1>0, <1>9 DEF Done
  <2>4. Finished'
    BY <1>9, <2>2, <2>3, FinStep DEF Goto
  <2>. QED BY <1>9, <2>4, TierStep
<1>10. st[h].pc \in {"persist", "persist_rest"} =>
         st[h].layer \in LAYER_ORDER /\ Persisted(st[h].layer, tiers)
  BY <1>0, Layers DEF Typed, ControlOK, JobLabels, HandlerOK
<1>11. CASE Persist(h)
  <2>1. CASE tiers' = tiers
    <3>1. Goto(h, "persist_rest") \/ Goto(h, "fail") \/ Goto(h, "persist_put") \/ Goto(h, "token_get")
      BY <1>11 DEF Persist
    <3>. QED BY <1>0, <1>11, <2>1, <3>1, GotoFin DEF Persist
  <2>2. CASE tiers' # tiers
    <3>1. tiers' = tiers \cup {st[h].layer} /\ (Goto(h, "persist_put") \/ Goto(h, "token_get"))
      BY <1>11, <2>2 DEF Persist
    <3>. QED BY <1>9, <1>10, <1>11, <3>1 DEF Persist, At
  <2>. QED BY <2>1, <2>2
<1>12. CASE PersistRest(h)
  <2>1. st[h].layer = 4
    BY <1>0, <1>12 DEF PersistRest, At, HandlerOK
  <2>. QED BY <1>9, <1>10, <1>12, <2>1 DEF PersistRest, At
<1>13. CASE PersistPut(h)
  BY <1>0, <1>13, GotoFin DEF PersistPut
<1>14. CASE TokenGet(h)
  <2>1. FinOK([st[h] EXCEPT !.pc = "token_put", !.done = token], tiers)
    BY <1>0 DEF FinOK, HandlerState
  <2>. QED BY <1>0, <1>14, <2>1, FinPut DEF TokenGet
<1>. QED BY <1>1, <1>2, <1>3, <1>4, <1>5, <1>7, <1>8, <1>11, <1>12, <1>13, <1>14

\* Transitions and outcomes: a scan is completed after Layer 5, the last.
LEMMA StepFin3 ==
  ASSUME Typed, Safe, Finished, NEW h \in Handlers,
         TokenPut(h) \/ Reread(h) \/ FixGate(h) \/ GatePut(h) \/ Complete(h) \/ Fail(h)
  PROVE  Finished' /\ PipelineStep
<1>0. /\ st[h] \in HandlerState /\ st[h].scan \in Scan /\ row \in Scan
      /\ FinOK(st[h], tiers) /\ Done(st[h].scan, tiers) /\ Done(row, tiers)
      /\ HandlerOK(st[h], tiers, granted)
  BY FinFacts, HandlerFacts
<1>1. CASE TokenPut(h)
  <2>. DEFINE r == [st[h].scan EXCEPT !.gateState = "blocked"]
  <2>1. Done(r, tiers)
    BY <1>0, DoneEdits
  <2>2. Goto(h, "reread") \/ Loads(h, "partial", r)
    BY <1>1 DEF TokenPut, Loads
  <2>. HIDE DEF r
  <2>. QED BY <1>0, <1>1, <2>1, <2>2, GotoFin, LoadFin DEF TokenPut
<1>2. CASE Reread(h)
  <2>. DEFINE a == Advance(row, st[h].layer)
              r == [row EXCEPT !.gateState = a.gate]
  <2>1. CASE Return(h)
    BY <1>0, <1>2, <2>1, ReturnFin DEF Reread
  <2>2. CASE Become(h, [st[h] EXCEPT !.pc = a.pc, !.next = a.next, !.scan = r])
    <3>0. st[h].pc = "reread" /\ st[h].layer \in LAYER_ORDER
      BY <1>2 DEF Reread, At, Typed, ControlOK, JobLabels
    <3>1. Persisted(st[h].layer, tiers) /\ st[h].layer \in tiers
      BY <1>0, <3>0, Layers DEF HandlerOK
    <3>2. a.pc \in {"gate_put", "enqueue", "fix_gate", "complete"}
          /\ (a.pc = "complete" => st[h].layer = 5)
      BY <3>0, Layers, ConfigAssumption DEF Advance
    <3>3. st[h].layer = 5 => LAYER_ORDER \subseteq tiers
      BY <3>1, Layers DEF Persisted
    <3>4. Done(r, tiers)
      BY <1>0, DoneEdits
    <3>. HIDE DEF a, r
    <3>5. FinOK([st[h] EXCEPT !.pc = a.pc, !.next = a.next, !.scan = r], tiers)
      BY <1>0, <3>2, <3>3, <3>4 DEF FinOK, HandlerState
    <3>. QED BY <1>0, <1>2, <2>2, <3>5, FinPut DEF Reread
  <2>. QED BY <1>2, <2>1, <2>2 DEF Reread
<1>3. CASE FixGate(h)
  <2>. DEFINE p == [st[h].scan EXCEPT !.gateState = "fix_gate_pending"]
              r == [st[h].scan EXCEPT !.gateState = "auto_approved"]
  <2>1. Done(p, tiers) /\ Done(r, tiers)
    BY <1>0, DoneEdits
  <2>2. \/ Loads(h, "gate_put", p)
        \/ Become(h, [st[h] EXCEPT !.pc = "gate_put", !.scan = r, !.next = 5,
                                   !.apply = evaluateFixGate])
    BY <1>3 DEF FixGate, Loads
  <2>. HIDE DEF p, r
  <2>3. FinOK([st[h] EXCEPT !.pc = "gate_put", !.scan = r, !.next = 5, !.apply = evaluateFixGate], tiers)
    BY <1>0, <2>1 DEF FinOK, HandlerState
  <2>. QED BY <1>0, <1>3, <2>1, <2>2, <2>3, LoadFin, FinPut DEF FixGate
<1>4. CASE GatePut(h)
  <2>1. ScheduleLabel(st[h].next, st[h].scan) \in {"sched_put", "enqueue"}
    BY DEF ScheduleLabel
  <2>. QED BY <1>0, <1>4, <2>1, ReturnFin, GotoFin DEF GatePut
<1>5. CASE Complete(h)
  <2>1. Done(row', tiers)
    <3>1. CASE At(h, "partial")
      BY <1>0, <1>5, <3>1, DoneEdits DEF Complete
    <3>2. CASE ~At(h, "partial")
      BY <1>0, <1>5, <3>2 DEF Complete, At, FinOK, Done
    <3>. QED BY <3>1, <3>2
  <2>. QED BY <1>5, <2>1, GotoFin DEF Complete
<1>6. CASE Fail(h)
  <2>1. Done([st[h].scan EXCEPT !.status = "failed"], tiers)
    BY <1>0, DoneEdits
  <2>. QED BY <1>6, <2>1, ReturnFin DEF Fail
<1>. QED BY <1>1, <1>2, <1>3, <1>4, <1>5, <1>6

\* The queue and the failures: handlers end, or start a job, with nothing claimed.
LEMMA QueueFin ==
  ASSUME Typed, Finished, Next,
         \/ \E h \in Handlers : Ack(h) \/ StoreError(h)
         \/ \E h \in Handlers, l \in LAYER_ORDER : TakeJob(h, l)
         \/ \E l \in LAYER_ORDER : Evict(l) \/ Stall(l)
         \/ \E p \in Procs : Crash(p)
  PROVE  Finished' /\ PipelineStep
<1>0. Done(row, tiers) /\ FinOK(Idle, tiers)
  BY DEF Finished, FinOK, Done, Idle, NewScan
<1>1. ASSUME \A g \in Handlers : st'[g] = st[g] \/ FinOK(st'[g], tiers),
             row' = row, tiers' = tiers, granted' = granted, prOpen' = prOpen
      PROVE  Finished' /\ PipelineStep
  <2>1. Finished'
    BY <1>1 DEF Finished
  <2>. QED BY <1>0, <1>1, <2>1, RowStep
<1>2. ASSUME NEW h \in Handlers, NEW o, Settle(h, o) PROVE \A g \in Handlers : st'[g] \in {st[g], Idle}
  BY <1>2, BecomeFacts DEF Settle
<1>3. ASSUME NEW h \in Handlers, Ack(h) PROVE Finished' /\ PipelineStep
  BY <1>0, <1>1, <1>2, <1>3 DEF Ack
<1>4. ASSUME NEW h \in Handlers, StoreError(h) PROVE Finished' /\ PipelineStep
  <2>1. CASE Settle(h, "failed")
    BY <1>0, <1>1, <1>2, <1>4, <2>1 DEF StoreError
  <2>2. CASE Goto(h, "fail")
    BY <1>0, <1>4, <2>2, GotoFin DEF StoreError
  <2>. QED BY <1>4, <2>1, <2>2 DEF StoreError
<1>5. ASSUME NEW h \in Handlers, NEW l \in LAYER_ORDER, TakeJob(h, l) PROVE Finished' /\ PipelineStep
  <2>. DEFINE t == [Idle EXCEPT !.layer = l, !.auto = jobs[l].auto, !.live = jobs[l].live,
                                !.pc = IF isKilled(Home[h]) THEN "ack" ELSE "job_get"]
  <2>1. FinOK(t, tiers)
    BY DEF Idle, NewScan, FinOK, Done
  <2>2. Become(h, t)
    BY <1>5 DEF TakeJob
  <2>. HIDE DEF t
  <2>. QED BY <1>0, <1>5, <2>1, <2>2, FinPut DEF TakeJob
<1>6. ASSUME NEW l \in LAYER_ORDER, Evict(l) \/ Stall(l) PROVE Finished' /\ PipelineStep
  BY <1>1, <1>6 DEF Evict, Stall
<1>7. ASSUME NEW p \in Procs, Crash(p) PROVE Finished' /\ PipelineStep
  BY <1>0, <1>1, <1>7 DEF Crash
<1>. QED BY <1>3, <1>4, <1>5, <1>6, <1>7

\* Every step is a step of the pipeline and keeps what the copies claim.
LEMMA NextFin ==
  ASSUME Typed, Safe, Finished, [Next]_vars
  PROVE  Finished' /\ PipelineStep
<1>1. CASE UNCHANGED vars
  <2>1. Finished'
    BY <1>1 DEF vars, Finished
  <2>. QED BY <1>1, <2>1, RowStep DEF vars, Finished
<1>2. ASSUME NEW h \in Handlers, Begin(h) PROVE Finished' /\ PipelineStep
  BY <1>2, BeginFin
<1>3. ASSUME Next, NEW h \in Handlers, Step(h) PROVE Finished' /\ PipelineStep
  BY <1>3, StepFin1, StepFin2, StepFin3, QueueFin DEF Step
<1>. QED BY <1>1, <1>2, <1>3, QueueFin DEF Next

\* Every step of every handler, process and queue is a step of the pipeline or
\* invisible to it: layers are stored in order, a gate is approved after what it
\* presents is stored, pull requests come after the approval they need, and no scan
\* is completed with a layer missing (persistLayerOutput, approveGate,
\* finalizeComplete).
THEOREM PipelineImplemented == Spec => ImplementsPipeline
<1>1. Init => Pipeline!Init
  BY DEF Init, Pipeline!Init, NewScan
<1>2. Init => Finished
  BY DEF Init, Finished, FinOK, Done, NewScan, Idle
<1>3. Typed /\ Safe /\ Finished /\ [Next]_vars => Finished' /\ [Pipeline!Next]_(Pipeline!pipeline)
  BY NextFin DEF PipelineStep
<1>. QED BY <1>1, <1>2, <1>3, AlwaysTyped, AlwaysSafe, PTL DEF Spec, ImplementsPipeline, Pipeline!Spec

-----------------------------------------------------------------------------
(* A kill reaches the layer that is running                                *)

\* Where a handler that processes a job has done with its layer.
Leaving == {"gate_put", "sched_put", "enqueue", "ack"}

\* The layers the scan has left behind: taken, and nobody is at work on them.
Behind ==
  {l \in LAYER_ORDER : /\ jobs[l].state \notin {"none", "waiting"}
                       /\ \A h \in Handlers : st[h].layer = l => st[h].pc \in Leaving}

\* A gate is pending once the layers before it are behind the scan.
GateOK(r, P) ==
  /\ r.gateState = "estimate_pending" => Persisted(1, P)
  /\ r.gateState = "fix_gate_pending" => Persisted(5, P)

\* The awaits of a kill or a cancellation, after the registry was told.
Killing == {"kill_publish", "killall_publish", "killall_publish_only", "kill_get", "kill_put",
            "cancel_put"}

\* A handler works on a layer, or goes on to one, with the earlier ones behind
\* the scan, and cleans up after a layer of its own or a kill (K).
OnTrack(s, P, K) ==
  /\ s.layer # NoLayer => Persisted(s.layer, P)
  /\ s.next # NoLayer => Persisted(s.next, P)
  /\ GateOK(s.scan, P)
  /\ s.pc = "estimate_put" => Persisted(1, P)
  /\ s.pc = "fix_put" => Persisted(5, P)
  /\ s.pc \in {"complete", "partial"} => s.layer # NoLayer
  /\ s.pc = "fix_gate" => s.layer = 4
  /\ s.pc \notin Resuming
  /\ s.pc \in Killing => K
  /\ s.pc = "cleanup" => s.layer # NoLayer \/ K

\* The signal a layer runs under is aborted, or will be by the next kill.
Audible(h) == sig[h] = "aborted" \/ (sig[h] = "live" /\ ~isKilled(Home[h]))

\* The row, the queued jobs, the handlers and the signals of the running ones.
Tracked ==
  /\ GateOK(row, Behind)
  /\ \A l \in LAYER_ORDER : jobs[l].state # "none" => Persisted(l, Behind)
  /\ \A h \in Handlers : OnTrack(st[h], Behind, isKilled(Home[h]))
  /\ \A h \in Handlers : At(h, "exec") => Audible(h)

\* More layers behind the scan, and more kills, keep everybody on track.
LEMMA TrackGrows ==
  ASSUME NEW P, NEW Q, P \subseteq Q, NEW J \in BOOLEAN, NEW K \in BOOLEAN, J => K
  PROVE  /\ \A n : Persisted(n, P) => Persisted(n, Q)
         /\ \A r : GateOK(r, P) => GateOK(r, Q)
         /\ \A s : OnTrack(s, P, J) => OnTrack(s, Q, K)
<1>1. \A n : Persisted(n, P) => Persisted(n, Q)
  BY DEF Persisted
<1>2. \A r : GateOK(r, P) => GateOK(r, Q)
  BY <1>1 DEF GateOK
<1>. QED BY <1>1, <1>2 DEF OnTrack

\* Signals and kills of a step: no kill is forgotten, no signal is lost.
Calm ==
  /\ \A h \in Handlers : isKilled(Home[h]) => isKilled(Home[h])'
  /\ \A h \in Handlers : Audible(h) => Audible(h)'

\* A step that does not touch them.
LEMMA CalmSame == UNCHANGED <<sig, killed, globalKilled>> => Calm
  BY DEF Calm, Audible, isKilled

\* An abort flags the process and aborts what it can reach.
LEMMA CalmAbort ==
  ASSUME Typed, NEW h \in Handlers, abortScan(Home[h]) \/ abortAll(Home[h])
  PROVE  Calm /\ isKilled(Home[h])'
<1>0. Home[h] \in Procs /\ \A g \in Handlers : Home[g] \in Procs
  BY HandlersAssumption DEF Procs
<1>1. CASE abortScan(Home[h])
  <2>1. /\ \A p \in Procs : killed'[p] = (killed[p] \/ p = Home[h]) /\ globalKilled'[p] = globalKilled[p]
        /\ \A g \in Handlers : sig'[g] = IF Home[g] = Home[h] /\ sig[g] = "live" THEN "aborted" ELSE sig[g]
    BY <1>0, <1>1 DEF abortScan, Typed, TypeOK
  <2>. QED BY <1>0, <2>1 DEF Calm, Audible, isKilled
<1>2. CASE abortAll(Home[h])
  <2>1. /\ \A p \in Procs : /\ globalKilled'[p] = (globalKilled[p] \/ p = Home[h])
                            /\ killed[p] => killed'[p]
                            /\ p # Home[h] => killed'[p] = killed[p]
        /\ \A g \in Handlers : sig'[g] = IF Home[g] = Home[h] /\ sig[g] = "live" THEN "aborted" ELSE sig[g]
    BY <1>0, <1>2 DEF abortAll, Typed, TypeOK
  <2>. QED BY <1>0, <2>1 DEF Calm, Audible, isKilled
<1>. QED BY <1>1, <1>2

\* A handler that goes on as t drops its layer or keeps it, and does not take
\* it up again once it was leaving.
Stays(s, t) ==
  t.layer # NoLayer => t.layer = s.layer /\ (s.pc \in Leaving => t.pc \in Leaving)

\* What is behind the scan stays there.
LEMMA BehindGrows ==
  ASSUME Typed, NEW h \in Handlers, NEW t, Become(h, t), Stays(st[h], t),
         \A l \in LAYER_ORDER : jobs[l].state \notin {"none", "waiting"} =>
                                jobs'[l].state \notin {"none", "waiting"}
  PROVE  Behind \subseteq Behind'
<1>1. \A g \in Handlers, l \in LAYER_ORDER :
        (st[g].layer = l => st[g].pc \in Leaving) => (st'[g].layer = l => st'[g].pc \in Leaving)
  BY BecomeFacts, Layers DEF Stays
<1>. QED BY <1>1 DEF Behind

\* What a step of one handler owes.
LEMMA TrackStep ==
  ASSUME Typed, Typed', Tracked, NEW h \in Handlers, NEW t, Become(h, t), Behind \subseteq Behind',
         \A g \in Handlers : isKilled(Home[g]) => isKilled(Home[g])',
         \A g \in Handlers \ {h} : At(g, "exec") /\ Audible(g) => Audible(g)',
         t.pc = "exec" => Audible(h)',
         GateOK(row', Behind'), OnTrack(t, Behind', isKilled(Home[h])'),
         \A l \in LAYER_ORDER : jobs'[l].state # "none" => jobs[l].state # "none" \/ Persisted(l, Behind')
  PROVE  Tracked'
<1>1. st'[h] = t /\ \A g \in Handlers \ {h} : st'[g] = st[g]
  BY BecomeFacts
<1>2. \A n : Persisted(n, Behind) => Persisted(n, Behind')
  BY DEF Persisted
<1>3. \A l \in LAYER_ORDER : jobs'[l].state # "none" => Persisted(l, Behind')
  BY <1>2 DEF Tracked
<1>4. ASSUME NEW g \in Handlers PROVE OnTrack(st'[g], Behind', isKilled(Home[g])')
  <2>1. isKilled(Home[g]) \in BOOLEAN /\ isKilled(Home[g])' \in BOOLEAN
    BY HandlersAssumption DEF Typed, TypeOK, isKilled, Procs
  <2>2. OnTrack(st[g], Behind, isKilled(Home[g]))
    BY DEF Tracked
  <2>3. OnTrack(st[g], Behind', isKilled(Home[g])')
    <3>. DEFINE J == isKilled(Home[g])
                K == isKilled(Home[g])'
    <3>1. J \in BOOLEAN /\ K \in BOOLEAN /\ (J => K) /\ OnTrack(st[g], Behind, J)
      BY <2>1, <2>2
    <3>. HIDE DEF J, K
    <3>2. OnTrack(st[g], Behind', K)
      BY <3>1, TrackGrows
    <3>. QED BY <3>2 DEF K
  <2>. QED BY <1>1, <2>3
<1>5. \A g \in Handlers : At(g, "exec")' => Audible(g)'
  BY <1>1 DEF Tracked, At
<1>. QED BY <1>3, <1>4, <1>5 DEF Tracked

\* What it owes when it leaves the queue and its own layer as they are.
LEMMA TrackMove ==
  ASSUME Typed, Typed', Tracked, NEW h \in Handlers, NEW t, Become(h, t), Stays(st[h], t), jobs' = jobs,
         Calm, t.pc # "exec", GateOK(row', Behind), OnTrack(t, Behind, isKilled(Home[h])')
  PROVE  Tracked'
<1>1. Behind \subseteq Behind'
  BY BehindGrows
<1>2. isKilled(Home[h])' \in BOOLEAN
  BY HandlersAssumption DEF Typed, TypeOK, isKilled, Procs
<1>3. GateOK(row', Behind') /\ OnTrack(t, Behind', isKilled(Home[h])')
  <2>. DEFINE K == isKilled(Home[h])'
  <2>1. K \in BOOLEAN /\ OnTrack(t, Behind, K)
    BY <1>2
  <2>. HIDE DEF K
  <2>2. GateOK(row', Behind') /\ OnTrack(t, Behind', K)
    BY <1>1, <2>1, TrackGrows
  <2>. QED BY <2>2 DEF K
<1>. QED BY <1>1, <1>3, TrackStep DEF Calm

\* The awaits that owe nothing.
Loose == Labels \ (Resuming \cup Killing \cup
                   {"estimate_put", "fix_put", "complete", "partial", "fix_gate", "cleanup", "exec"})

\* What a handler may rely on.
LEMMA TrackFacts ==
  ASSUME Typed, Tracked, NEW h \in Handlers
  PROVE  /\ st[h] \in HandlerState /\ st[h].scan \in Scan /\ row \in Scan
         /\ OnTrack(st[h], Behind, isKilled(Home[h])) /\ GateOK(st[h].scan, Behind) /\ GateOK(row, Behind)
  BY DEF Typed, TypeOK, Tracked, OnTrack, HandlerState

\* Going on, loading a row and returning.
LEMMA TrackStates ==
  ASSUME NEW s \in HandlerState, NEW P, NEW J, OnTrack(s, P, J), NEW K
  PROVE  /\ \A l \in Loose : OnTrack([s EXCEPT !.pc = l], P, K)
         /\ \A l \in Loose, r \in Scan : GateOK(r, P) => OnTrack([s EXCEPT !.pc = l, !.scan = r], P, K)
         /\ \A l \in Killing \cup {"cleanup"} : K => OnTrack([s EXCEPT !.pc = l], P, K)
         /\ \A l \in Killing \cup {"cleanup"}, r \in Scan :
              GateOK(r, P) /\ K => OnTrack([s EXCEPT !.pc = l, !.scan = r], P, K)
         /\ OnTrack(Returned(s), P, K)
<1>1. ASSUME NEW l \in Loose PROVE OnTrack([s EXCEPT !.pc = l], P, K)
  BY DEF OnTrack, HandlerState, Loose
<1>2. ASSUME NEW l \in Loose, NEW r \in Scan, GateOK(r, P)
      PROVE  OnTrack([s EXCEPT !.pc = l, !.scan = r], P, K)
  BY <1>2 DEF OnTrack, HandlerState, Loose
<1>3. ASSUME NEW l \in Killing \cup {"cleanup"}, K PROVE OnTrack([s EXCEPT !.pc = l], P, K)
  BY <1>3 DEF OnTrack, HandlerState, Killing, Resuming
<1>4. ASSUME NEW l \in Killing \cup {"cleanup"}, NEW r \in Scan, GateOK(r, P), K
      PROVE  OnTrack([s EXCEPT !.pc = l, !.scan = r], P, K)
  BY <1>4 DEF OnTrack, HandlerState, Killing, Resuming
<1>5. OnTrack(Returned(s), P, K)
  BY DEF OnTrack, Returned, Idle, NewScan, GateOK, Resuming, Killing, NoLayer
<1>. QED BY <1>1, <1>2, <1>3, <1>4, <1>5

\* A handler stays with its layer when it goes on to another await, unless it
\* was leaving, and when it returns.
LEMMA StaysFacts ==
  ASSUME NEW s \in HandlerState
  PROVE  /\ \A l : s.pc \notin Leaving \/ l \in Leaving => Stays(s, [s EXCEPT !.pc = l])
         /\ \A l, r : s.pc \notin Leaving \/ l \in Leaving => Stays(s, [s EXCEPT !.pc = l, !.scan = r])
         /\ Stays(s, Returned(s))
<1>1. Stays(s, Returned(s))
  BY DEF Stays, Returned, Idle, Leaving, NoLayer
<1>. QED BY <1>1 DEF Stays, HandlerState

\* The same as steps of the system.
LEMMA ReturnTrack ==
  ASSUME Typed, Typed', Tracked, NEW h \in Handlers, Return(h), jobs' = jobs, Calm, GateOK(row', Behind)
  PROVE  Tracked'
<1>1. OnTrack(Returned(st[h]), Behind, isKilled(Home[h])')
  <2>. DEFINE K == isKilled(Home[h])'
  <2>. HIDE DEF K
  <2>1. OnTrack(Returned(st[h]), Behind, K)
    BY TrackFacts, TrackStates
  <2>. QED BY <2>1 DEF K
<1>2. Stays(st[h], Returned(st[h])) /\ Returned(st[h]).pc # "exec"
  BY TrackFacts, StaysFacts DEF Returned, Idle
<1>. QED BY <1>1, <1>2, TrackMove DEF Return

\* The handler goes on to the await l with the row r, as Loads; l owes nothing,
\* or the process knows of a kill.
LEMMA LoadTrack ==
  ASSUME Typed, Typed', Tracked, NEW h \in Handlers, NEW l, NEW r \in Scan, Loads(h, l, r),
         l \in Loose \/ (l \in Killing \cup {"cleanup"} /\ isKilled(Home[h])'),
         st[h].pc \notin Leaving \/ l \in Leaving,
         GateOK(r, Behind), jobs' = jobs, Calm, GateOK(row', Behind)
  PROVE  Tracked'
<1>. DEFINE t == [st[h] EXCEPT !.pc = l, !.scan = r]
<1>1. OnTrack(t, Behind, isKilled(Home[h])')
  <2>. DEFINE K == isKilled(Home[h])'
  <2>0. l \in Loose \/ (l \in Killing \cup {"cleanup"} /\ K)
    OBVIOUS
  <2>. HIDE DEF K
  <2>1. OnTrack(t, Behind, K)
    BY <2>0, TrackFacts, TrackStates
  <2>. QED BY <2>1 DEF K
<1>2. Stays(st[h], t) /\ t.pc = l
  BY TrackFacts, StaysFacts DEF HandlerState
<1>3. l # "exec"
  BY DEF Loose, Killing
<1>4. Become(h, t)
  BY DEF Loads
<1>. HIDE DEF t
<1>. QED BY <1>1, <1>2, <1>3, <1>4, TrackMove

\* The same with the copy of the row it has.
LEMMA GotoTrack ==
  ASSUME Typed, Typed', Tracked, NEW h \in Handlers, NEW l, Goto(h, l),
         l \in Loose \/ (l \in Killing \cup {"cleanup"} /\ isKilled(Home[h])'),
         st[h].pc \notin Leaving \/ l \in Leaving,
         jobs' = jobs, Calm, GateOK(row', Behind)
  PROVE  Tracked'
<1>1. [st[h] EXCEPT !.pc = l] = [st[h] EXCEPT !.pc = l, !.scan = st[h].scan]
  BY TrackFacts DEF HandlerState
<1>2. Loads(h, l, st[h].scan)
  BY <1>1 DEF Goto, Loads
<1>. QED BY <1>2, TrackFacts, LoadTrack

\* Which awaits owe nothing, and where nobody is leaving.
LEMMA LooseLabels ==
  /\ {"start_put", "start_token", "pause_put", "sched_put", "enqueue", "job_get", "persist",
      "persist_rest", "persist_put", "token_get", "token_put", "reread", "gate_put", "fail", "idle",
      "ack"} \subseteq Loose
  /\ Leaving \subseteq Loose
  BY DEF Loose, Leaving, Labels, Awaits, Resuming, Killing

\* Edits of a row that present no gate.
LEMMA GateEdits ==
  ASSUME NEW r \in Scan, NEW P, GateOK(r, P), NEW x
  PROVE  /\ GateOK([r EXCEPT !.status = x], P)
         /\ x \notin {"estimate_pending", "fix_gate_pending"} => GateOK([r EXCEPT !.gateState = x], P)
  BY DEF GateOK, Scan

\* Requests and kill messages: a kill tells the registry first.
LEMMA BeginTrack ==
  ASSUME Typed, Typed', Tracked, "resume" \notin Ops, "reconcile" \notin Ops, NEW h \in Handlers, Begin(h)
  PROVE  Tracked'
<1>0. /\ st[h] \in HandlerState /\ row \in Scan /\ row' = row /\ jobs' = jobs
      /\ OnTrack(st[h], Behind, isKilled(Home[h])) /\ GateOK(row, Behind)
  <2>1. row' = row /\ jobs' = jobs
    BY DEF Begin, Start, Pause, Cancel, Resume, Reconcile, Kill, KillAll, RemoteKill, ApproveEstimate,
           ApproveFix
  <2>. QED BY <2>1, TrackFacts
<1>1. st[h].pc \notin Leaving
  BY DEF Begin, Start, Pause, Cancel, Resume, Reconcile, Kill, KillAll, RemoteKill, ApproveEstimate,
         ApproveFix, Request, At, Leaving
<1>2. CASE Start(h)
  <2>1. Loads(h, "start_put", row) /\ Calm
    BY <1>2, CalmSame DEF Start, Loads
  <2>. QED BY <1>0, <1>1, <2>1, LoadTrack, LooseLabels
<1>3. CASE Pause(h)
  <2>1. Loads(h, "pause_put", row) /\ Calm
    BY <1>3, CalmSame DEF Pause, Loads
  <2>. QED BY <1>0, <1>1, <2>1, LoadTrack, LooseLabels
<1>4. CASE Cancel(h)
  <2>1. Loads(h, "cancel_put", row) /\ Calm /\ isKilled(Home[h])'
    BY <1>4, CalmAbort DEF Cancel, Loads
  <2>2. "cancel_put" \in Killing
    BY DEF Killing
  <2>. QED BY <1>0, <1>1, <2>1, <2>2, LoadTrack
<1>5. CASE Kill(h)
  <2>1. Goto(h, "kill_publish") /\ Calm /\ isKilled(Home[h])'
    BY <1>5, CalmAbort DEF Kill
  <2>2. "kill_publish" \in Killing
    BY DEF Killing
  <2>. QED BY <1>0, <1>1, <2>1, <2>2, GotoTrack
<1>6. CASE KillAll(h)
  <2>. DEFINE l == IF ctrl[Home[h]] THEN "killall_publish" ELSE "killall_publish_only"
  <2>1. Goto(h, l) /\ Calm /\ isKilled(Home[h])'
    BY <1>6, CalmAbort DEF KillAll
  <2>2. l \in Killing
    BY DEF Killing
  <2>. HIDE DEF l
  <2>. QED BY <1>0, <1>1, <2>1, <2>2, GotoTrack
<1>7. CASE RemoteKill(h)
  <2>1. Calm /\ isKilled(Home[h])'
    BY <1>7, CalmAbort DEF RemoteKill
  <2>2. CASE Goto(h, "kill_get")
    <3>1. "kill_get" \in Killing
      BY DEF Killing
    <3>. QED BY <1>0, <1>1, <2>1, <2>2, <3>1, GotoTrack
  <2>3. CASE st' = st
    <3>1. Become(h, st[h]) /\ Stays(st[h], st[h]) /\ st[h].pc # "exec"
      BY <1>7, <2>3 DEF Become, Stays, Typed, TypeOK, RemoteKill, At
    <3>2. OnTrack(st[h], Behind, isKilled(Home[h])')
      BY <1>0, <1>7 DEF OnTrack, RemoteKill, At, Killing
    <3>. QED BY <1>0, <2>1, <3>1, <3>2, TrackMove
  <2>. QED BY <1>7, <2>2, <2>3 DEF RemoteKill
<1>8. CASE ApproveEstimate(h)
  <2>. DEFINE r(role) == [status |-> "running", gateState |-> "estimate_approved", approver |-> role]
              t(role) == [st[h] EXCEPT !.pc = "estimate_put", !.scan = r(role)]
  <2>1. PICK role : Become(h, t(role))
    BY <1>8 DEF ApproveEstimate
  <2>2. Persisted(1, Behind)
    BY <1>0, <1>8 DEF ApproveEstimate, GateOK
  <2>3. OnTrack(t(role), Behind, isKilled(Home[h])')
    BY <1>0, <2>2 DEF OnTrack, HandlerState, GateOK, Resuming, Killing
  <2>4. Stays(st[h], t(role)) /\ t(role).pc # "exec"
    BY <1>0, <1>1 DEF Stays, HandlerState
  <2>5. Calm
    BY <1>8, CalmSame DEF ApproveEstimate
  <2>. HIDE DEF t
  <2>. QED BY <1>0, <2>1, <2>3, <2>4, <2>5, TrackMove
<1>9. CASE ApproveFix(h)
  <2>. DEFINE r == [row EXCEPT !.gateState = "approved", !.approver = "approver"]
              t == [st[h] EXCEPT !.pc = "fix_put", !.scan = r]
  <2>1. Become(h, t) /\ Calm
    BY <1>9, CalmSame DEF ApproveFix
  <2>2. Persisted(5, Behind)
    BY <1>0, <1>9 DEF ApproveFix, GateOK
  <2>3. r.gateState = "approved"
    BY <1>0 DEF Scan
  <2>. HIDE DEF r
  <2>4. OnTrack(t, Behind, isKilled(Home[h])')
    BY <1>0, <2>2, <2>3 DEF OnTrack, HandlerState, GateOK, Resuming, Killing
  <2>5. Stays(st[h], t) /\ t.pc # "exec"
    BY <1>0, <1>1 DEF Stays, HandlerState
  <2>. HIDE DEF t
  <2>. QED BY <1>0, <2>1, <2>4, <2>5, TrackMove
<1>10. ~Resume(h) /\ ~Reconcile(h)
  BY DEF Resume, Request, Reconcile
<1>. QED BY <1>2, <1>3, <1>4, <1>5, <1>6, <1>7, <1>8, <1>9, <1>10 DEF Begin

\* start, pause, cancel and kill.
LEMMA StepTrack1 ==
  ASSUME Typed, Typed', Tracked, NEW h \in Handlers,
         \/ StartPut(h) \/ StartToken(h) \/ PausePut(h) \/ CancelPut(h)
         \/ ResumeLoad(h) \/ ResumeToken(h) \/ ResumePut(h)
         \/ KillPublish(h) \/ KillGet(h) \/ KillPut(h)
  PROVE  Tracked'
<1>0. /\ st[h] \in HandlerState /\ st[h].scan \in Scan /\ row \in Scan
      /\ OnTrack(st[h], Behind, isKilled(Home[h])) /\ GateOK(st[h].scan, Behind) /\ GateOK(row, Behind)
  BY TrackFacts
<1>1. ~ResumeLoad(h) /\ ~ResumeToken(h) /\ ~ResumePut(h)
  BY <1>0 DEF ResumeLoad, ResumeToken, ResumePut, At, OnTrack, Resuming
<1>2. jobs' = jobs /\ UNCHANGED <<sig, killed, globalKilled>>
  BY <1>1 DEF StartPut, StartToken, PausePut, CancelPut, KillPublish, KillGet, KillPut
<1>3. Calm /\ (isKilled(Home[h]) => isKilled(Home[h])')
  BY <1>2, CalmSame DEF Calm
<1>4. st[h].pc \notin Leaving
  BY <1>1 DEF StartPut, StartToken, PausePut, CancelPut, KillPublish, KillGet, KillPut, At, Leaving
<1>5. CASE StartPut(h)
  <2>. DEFINE r == [st[h].scan EXCEPT !.status = "running"]
  <2>1. GateOK(r, Behind)
    BY <1>0, GateEdits
  <2>2. r \in Scan
    BY <1>0 DEF Scan, ScanStatus
  <2>3. Loads(h, "start_token", r) /\ row' = r
    BY <1>5 DEF StartPut, Loads
  <2>. HIDE DEF r
  <2>. QED BY <1>2, <1>3, <1>4, <2>1, <2>2, <2>3, LoadTrack, LooseLabels
<1>6. CASE StartToken(h)
  <2>. DEFINE t == [st[h] EXCEPT !.pc = "enqueue", !.next = 0]
  <2>1. Persisted(0, Behind)
    BY Layers DEF Persisted
  <2>2. OnTrack(t, Behind, isKilled(Home[h])')
    BY <1>0, <2>1 DEF OnTrack, HandlerState, Resuming, Killing
  <2>3. Stays(st[h], t) /\ t.pc # "exec"
    BY <1>0, <1>4 DEF Stays, HandlerState
  <2>4. Become(h, t) /\ row' = row
    BY <1>6 DEF StartToken
  <2>. HIDE DEF t
  <2>. QED BY <1>0, <1>2, <1>3, <2>2, <2>3, <2>4, TrackMove
<1>7. CASE PausePut(h)
  <2>1. GateOK([st[h].scan EXCEPT !.status = "paused"], Behind)
    BY <1>0, GateEdits
  <2>. QED BY <1>2, <1>3, <1>7, <2>1, ReturnTrack DEF PausePut
<1>8. CASE CancelPut(h)
  <2>1. GateOK(row', Behind)
    BY <1>0, <1>8 DEF CancelPut, GateOK, Scan, Pending
  <2>2. isKilled(Home[h])'
    BY <1>0, <1>3, <1>8 DEF CancelPut, At, OnTrack, Killing
  <2>. QED BY <1>2, <1>3, <1>4, <1>8, <2>1, <2>2, GotoTrack DEF CancelPut
<1>9. CASE KillPublish(h)
  <2>1. isKilled(Home[h])' /\ row' = row
    BY <1>0, <1>3, <1>9 DEF KillPublish, At, OnTrack, Killing
  <2>2. "kill_get" \in Killing
    BY DEF Killing
  <2>. QED BY <1>0, <1>2, <1>3, <1>4, <1>9, <2>1, <2>2, GotoTrack, ReturnTrack DEF KillPublish
<1>10. CASE KillGet(h)
  <2>. DEFINE l == IF isTerminalStatus(row.status) THEN "cleanup" ELSE "kill_put"
  <2>1. isKilled(Home[h])' /\ row' = row
    BY <1>0, <1>3, <1>10 DEF KillGet, At, OnTrack, Killing
  <2>2. l \in Killing \cup {"cleanup"}
    BY DEF Killing
  <2>3. [st[h] EXCEPT !.scan = row, !.pc = l] = [st[h] EXCEPT !.pc = l, !.scan = row]
    BY <1>0 DEF HandlerState
  <2>4. Loads(h, l, row)
    BY <1>10, <2>3 DEF KillGet, Loads
  <2>. HIDE DEF l
  <2>. QED BY <1>0, <1>2, <1>3, <1>4, <2>1, <2>2, <2>4, LoadTrack
<1>11. CASE KillPut(h)
  <2>1. GateOK(row', Behind)
    BY <1>0, <1>11 DEF KillPut, GateOK, Scan
  <2>2. isKilled(Home[h])'
    BY <1>0, <1>3, <1>11 DEF KillPut, At, OnTrack, Killing
  <2>. QED BY <1>2, <1>3, <1>4, <1>11, <2>1, <2>2, GotoTrack DEF KillPut
<1>. QED BY <1>1, <1>5, <1>6, <1>7, <1>8, <1>9, <1>10, <1>11

\* Approvals, the runner and what it leaves in the store.
LEMMA StepTrack2 ==
  ASSUME Typed, Typed', Tracked, NEW h \in Handlers,
         \/ EstimatePut(h) \/ FixPut(h) \/ SchedPut(h) \/ Enqueue(h) \/ JobGet(h) \/ ExecOk(h) \/ ExecFail(h)
         \/ Persist(h) \/ PersistRest(h) \/ PersistPut(h) \/ TokenGet(h)
  PROVE  Tracked'
<1>0. /\ st[h] \in HandlerState /\ st[h].scan \in Scan /\ row \in Scan
      /\ OnTrack(st[h], Behind, isKilled(Home[h])) /\ GateOK(st[h].scan, Behind) /\ GateOK(row, Behind)
  BY TrackFacts
<1>1. CASE EstimatePut(h)
  <2>. DEFINE k == ScheduleLabel(1, st[h].scan)
              t == [st[h] EXCEPT !.pc = k, !.next = 1]
  <2>1. Become(h, t) /\ row' = st[h].scan /\ jobs' = jobs /\ Calm
    BY <1>1, CalmSame DEF EstimatePut
  <2>2. k \in {"sched_put", "enqueue"}
    BY DEF ScheduleLabel
  <2>3. Persisted(1, Behind)
    BY <1>0, <1>1 DEF EstimatePut, At, OnTrack
  <2>. HIDE DEF k
  <2>4. OnTrack(t, Behind, isKilled(Home[h])')
    BY <1>0, <2>2, <2>3 DEF OnTrack, HandlerState, Resuming, Killing
  <2>5. Stays(st[h], t) /\ t.pc # "exec"
    BY <1>0, <2>2 DEF Stays, HandlerState, Leaving
  <2>. HIDE DEF t
  <2>. QED BY <1>0, <2>1, <2>4, <2>5, TrackMove
<1>2. CASE FixPut(h)
  <2>. DEFINE t == [st[h] EXCEPT !.pc = "enqueue", !.next = 5, !.apply = TRUE]
  <2>1. Become(h, t) /\ row' = st[h].scan /\ jobs' = jobs /\ Calm
    BY <1>2, CalmSame DEF FixPut
  <2>2. Persisted(5, Behind)
    BY <1>0, <1>2 DEF FixPut, At, OnTrack
  <2>3. OnTrack(t, Behind, isKilled(Home[h])')
    BY <1>0, <2>2 DEF OnTrack, HandlerState, Resuming, Killing
  <2>4. Stays(st[h], t) /\ t.pc # "exec"
    BY <1>0 DEF Stays, HandlerState, Leaving
  <2>. HIDE DEF t
  <2>. QED BY <1>0, <2>1, <2>3, <2>4, TrackMove
<1>3. CASE SchedPut(h)
  <2>. DEFINE r == [st[h].scan EXCEPT !.gateState = "running"]
  <2>1. GateOK(r, Behind)
    BY <1>0, GateEdits
  <2>2. r \in Scan
    BY <1>0 DEF Scan, GateState
  <2>3. Loads(h, "enqueue", r) /\ row' = r /\ jobs' = jobs /\ Calm
    BY <1>3, CalmSame DEF SchedPut, Loads
  <2>4. "enqueue" \in Leaving
    BY DEF Leaving
  <2>. HIDE DEF r
  <2>. QED BY <2>1, <2>2, <2>3, <2>4, LoadTrack, LooseLabels
<1>4. CASE Enqueue(h)
  <2>. DEFINE t == Returned(st[h])
  <2>1. Become(h, t) /\ row' = row /\ Calm
    BY <1>4, CalmSame DEF Enqueue, Return
  <2>2. \A l \in LAYER_ORDER : jobs'[l] = jobs[l] \/ (l = st[h].next /\ jobs[l].state = "none")
    BY <1>4 DEF Enqueue, Typed, TypeOK
  <2>3. \A l \in LAYER_ORDER : l = st[h].next => Persisted(l, Behind)
    BY <1>0, Layers DEF OnTrack
  <2>4. Stays(st[h], t) /\ t.pc # "exec"
    BY <1>0, StaysFacts DEF Returned, Idle
  <2>5. Behind \subseteq Behind'
    BY <2>1, <2>2, <2>4, BehindGrows
  <2>6. \A n : Persisted(n, Behind) => Persisted(n, Behind')
    BY <2>5 DEF Persisted
  <2>7. GateOK(row', Behind')
    BY <1>0, <2>1, <2>6 DEF GateOK
  <2>8. OnTrack(t, Behind', isKilled(Home[h])')
    BY <1>0, <2>6 DEF OnTrack, Returned, Idle, NewScan, GateOK, Resuming, Killing, NoLayer
  <2>. HIDE DEF t
  <2>. QED BY <2>1, <2>2, <2>3, <2>4, <2>5, <2>6, <2>7, <2>8, TrackStep DEF Calm
<1>5. CASE JobGet(h)
  <2>0. row' = row /\ jobs' = jobs /\ UNCHANGED <<killed, globalKilled>>
    BY <1>5 DEF JobGet
  <2>1. CASE Return(h) /\ UNCHANGED <<sig, ctrl>>
    BY <1>0, <2>0, <2>1, ReturnTrack, CalmSame
  <2>2. CASE /\ ~isKilled(Home[h]) /\ sig' = [sig EXCEPT ![h] = "live"]
             /\ Become(h, [st[h] EXCEPT !.pc = "exec", !.scan = row])
    <3>. DEFINE t == [st[h] EXCEPT !.pc = "exec", !.scan = row]
    <3>1. /\ Audible(h)' /\ \A g \in Handlers \ {h} : Audible(g) => Audible(g)'
          /\ \A g \in Handlers : isKilled(Home[g]) => isKilled(Home[g])'
      BY <2>0, <2>2 DEF Audible, isKilled, Typed, TypeOK
    <3>2. OnTrack(t, Behind, isKilled(Home[h])')
      BY <1>0 DEF OnTrack, HandlerState, Resuming, Killing
    <3>3. Stays(st[h], t)
      BY <1>0, <1>5 DEF Stays, HandlerState, JobGet, At, Leaving
    <3>4. Become(h, t)
      BY <2>2
    <3>. HIDE DEF t
    <3>5. Behind \subseteq Behind'
      BY <2>0, <3>3, <3>4, BehindGrows
    <3>6. \A n : Persisted(n, Behind) => Persisted(n, Behind')
      BY <3>5 DEF Persisted
    <3>7. GateOK(row', Behind') /\ OnTrack(t, Behind', isKilled(Home[h])')
      BY <1>0, <2>0, <3>2, <3>6 DEF GateOK, OnTrack
    <3>. QED BY <2>0, <3>1, <3>4, <3>5, <3>7, TrackStep
  <2>. QED BY <1>5, <2>1, <2>2 DEF JobGet
<1>6. CASE ExecOk(h)
  <2>1. st[h].pc \notin Leaving /\ Calm
    BY <1>6, CalmSame DEF ExecOk, At, Leaving
  <2>. QED BY <1>0, <1>6, <2>1, GotoTrack, LooseLabels DEF ExecOk
<1>7. CASE ExecFail(h)
  <2>1. st[h].pc \notin Leaving /\ Calm
    BY <1>7, CalmSame DEF ExecFail, At, Leaving
  <2>. QED BY <1>0, <1>7, <2>1, GotoTrack, ReturnTrack, LooseLabels DEF ExecFail
<1>8. CASE Persist(h)
  <2>1. st[h].pc \notin Leaving /\ Calm
    BY <1>8, CalmSame DEF Persist, At, Leaving
  <2>2. PICK l \in {"persist_put", "token_get", "persist_rest", "fail"} : Goto(h, l)
    BY <1>8 DEF Persist
  <2>. QED BY <1>0, <1>8, <2>1, <2>2, GotoTrack, LooseLabels DEF Persist
<1>9. CASE PersistRest(h)
  <2>1. st[h].pc \notin Leaving /\ Calm
    BY <1>9, CalmSame DEF PersistRest, At, Leaving
  <2>. QED BY <1>0, <1>9, <2>1, GotoTrack, LooseLabels DEF PersistRest
<1>10. CASE PersistPut(h)
  <2>1. st[h].pc \notin Leaving /\ Calm
    BY <1>10, CalmSame DEF PersistPut, At, Leaving
  <2>. QED BY <1>0, <1>10, <2>1, GotoTrack, LooseLabels DEF PersistPut
<1>11. CASE TokenGet(h)
  <2>. DEFINE t == [st[h] EXCEPT !.pc = "token_put", !.done = token]
  <2>1. Become(h, t) /\ row' = row /\ jobs' = jobs /\ Calm
    BY <1>11, CalmSame DEF TokenGet
  <2>2. OnTrack(t, Behind, isKilled(Home[h])')
    BY <1>0 DEF OnTrack, HandlerState, Resuming, Killing
  <2>3. Stays(st[h], t) /\ t.pc # "exec"
    BY <1>0, <1>11 DEF Stays, HandlerState, Leaving, TokenGet, At
  <2>. HIDE DEF t
  <2>. QED BY <1>0, <2>1, <2>2, <2>3, TrackMove
<1>. QED BY <1>1, <1>2, <1>3, <1>4, <1>5, <1>6, <1>7, <1>8, <1>9, <1>10, <1>11

\* A layer whose job is active falls behind when its only handler leaves it.
LEMMA LeaveBehind ==
  ASSUME Typed, Locked, NEW h \in Handlers, NEW t, Become(h, t), jobs' = jobs,
         st[h].layer \in LAYER_ORDER, t.layer = st[h].layer, t.pc \in Leaving
  PROVE  Behind \subseteq Behind' /\ st[h].layer \in Behind'
<1>1. Behind \subseteq Behind'
  BY BehindGrows DEF Stays
<1>2. st'[h] = t /\ \A g \in Handlers \ {h} : st'[g] = st[g] /\ st[g].layer # st[h].layer
  BY BecomeFacts DEF Locked
<1>3. jobs'[st[h].layer].state = "active"
  BY DEF Locked
<1>. QED BY <1>1, <1>2, <1>3 DEF Behind

\* The next layer is reached with this one behind the scan.
LEMMA PersistedNext ==
  ASSUME NEW l \in LAYER_ORDER, NEW P, NEW Q, P \subseteq Q, l \in Q, Persisted(l, P)
  PROVE  Persisted(l + 1, Q)
  BY Layers DEF Persisted

\* Transitions and outcomes: whoever goes on to the next layer, or presents a
\* gate, leaves its own behind.
LEMMA StepTrack3 ==
  ASSUME Typed, Typed', Locked, Tracked, NEW h \in Handlers,
         TokenPut(h) \/ Reread(h) \/ FixGate(h) \/ GatePut(h) \/ Complete(h) \/ Fail(h)
  PROVE  Tracked'
<1>0. /\ st[h] \in HandlerState /\ st[h].scan \in Scan /\ row \in Scan
      /\ OnTrack(st[h], Behind, isKilled(Home[h])) /\ GateOK(st[h].scan, Behind) /\ GateOK(row, Behind)
  BY TrackFacts
<1>1. jobs' = jobs /\ Calm
  BY CalmSame DEF TokenPut, Reread, FixGate, GatePut, Complete, Fail
<1>2. \A g \in Handlers : isKilled(Home[g]) => isKilled(Home[g])'
  BY <1>1 DEF Calm
<1>3. CASE TokenPut(h)
  <2>0. st[h].layer # NoLayer /\ st[h].pc \notin Leaving /\ row' = row
    BY <1>3, Layers DEF TokenPut, At, Typed, ControlOK, JobLabels, Leaving
  <2>1. CASE Goto(h, "reread")
    BY <1>0, <1>1, <2>0, <2>1, GotoTrack, LooseLabels
  <2>2. CASE Become(h, [st[h] EXCEPT !.pc = "partial", !.scan.gateState = "blocked"])
    <3>. DEFINE t == [st[h] EXCEPT !.pc = "partial", !.scan.gateState = "blocked"]
    <3>1. OnTrack(t, Behind, isKilled(Home[h])')
      BY <1>0, <2>0 DEF OnTrack, HandlerState, Scan, GateOK, Resuming, Killing
    <3>2. Stays(st[h], t) /\ t.pc # "exec"
      BY <1>0, <2>0 DEF Stays, HandlerState
    <3>3. Become(h, t)
      BY <2>2
    <3>. HIDE DEF t
    <3>. QED BY <1>0, <1>1, <2>0, <3>1, <3>2, <3>3, TrackMove
  <2>. QED BY <1>3, <2>1, <2>2 DEF TokenPut
<1>4. CASE Reread(h)
  <2>. DEFINE l == st[h].layer
              a == Advance(row, l)
              r == [row EXCEPT !.gateState = a.gate]
              t == [st[h] EXCEPT !.pc = a.pc, !.next = a.next, !.scan = r]
  <2>0. l \in LAYER_ORDER /\ Persisted(l, Behind) /\ st[h].pc \notin Leaving /\ row' = row
    BY <1>0, <1>4, Layers DEF Reread, At, Typed, ControlOK, JobLabels, OnTrack, Leaving
  <2>1. CASE Return(h)
    BY <1>0, <1>1, <2>0, <2>1, ReturnTrack
  <2>2. CASE Become(h, t) /\ l \in {0, 1, 2, 3}
    <3>1. /\ a.pc \in {"gate_put", "enqueue"} /\ a.next \in {NoLayer, l + 1}
          /\ a.gate = "estimate_pending" => l = 0 \/ a.gate = row.gateState
          /\ a.gate = "fix_gate_pending" => a.gate = row.gateState
      BY <2>0, <2>2, ConfigAssumption DEF Advance
    <3>2. r.gateState = a.gate
      BY <1>0 DEF Scan
    <3>. HIDE DEF a, r
    <3>3. t.layer = l /\ t.pc = a.pc /\ t.next = a.next /\ t.scan = r
      BY <1>0 DEF HandlerState
    <3>. HIDE DEF t
    <3>4. Behind \subseteq Behind' /\ l \in Behind'
      BY <1>1, <2>0, <2>2, <3>1, <3>3, LeaveBehind DEF Leaving
    <3>5. Persisted(l, Behind') /\ Persisted(l + 1, Behind') /\ GateOK(row', Behind')
      BY <1>0, <2>0, <3>4, PersistedNext DEF Persisted, GateOK
    <3>6. GateOK(r, Behind')
      BY <2>0, <3>1, <3>2, <3>5 DEF GateOK
    <3>7. OnTrack(t, Behind', isKilled(Home[h])')
      BY <3>1, <3>3, <3>5, <3>6 DEF OnTrack, Resuming, Killing
    <3>. QED BY <1>1, <1>2, <2>2, <3>1, <3>3, <3>4, <3>5, <3>7, TrackStep DEF Calm
  <2>3. CASE Become(h, t) /\ l \in {4, 5}
    <3>1. /\ a.pc \in {"fix_gate", "complete"} /\ (a.pc = "fix_gate" => l = 4)
          /\ a.next = NoLayer /\ a.gate = row.gateState
      BY <2>0, <2>3, ConfigAssumption DEF Advance
    <3>2. GateOK(r, Behind)
      BY <1>0, <3>1 DEF Scan, GateOK
    <3>. HIDE DEF a, r
    <3>3. t.layer = l /\ t.pc = a.pc /\ t.next = a.next /\ t.scan = r
      BY <1>0 DEF HandlerState
    <3>. HIDE DEF t
    <3>4. OnTrack(t, Behind, isKilled(Home[h])')
      BY <2>0, <3>1, <3>2, <3>3, Layers DEF OnTrack, Resuming, Killing
    <3>5. Stays(st[h], t) /\ t.pc # "exec"
      BY <2>0, <3>1, <3>3 DEF Stays
    <3>. QED BY <1>0, <1>1, <2>0, <2>3, <3>4, <3>5, TrackMove
  <2>. QED BY <1>4, <2>0, <2>1, <2>2, <2>3, Layers DEF Reread
<1>5. CASE FixGate(h)
  <2>. DEFINE p == [st[h] EXCEPT !.pc = "gate_put", !.scan.gateState = "fix_gate_pending"]
              q == [st[h] EXCEPT !.pc = "gate_put", !.scan.gateState = "auto_approved",
                                 !.next = 5, !.apply = evaluateFixGate]
  <2>0. st[h].layer = 4 /\ Persisted(4, Behind) /\ row' = row /\ 4 \in LAYER_ORDER
    BY <1>0, <1>5, Layers DEF FixGate, At, OnTrack
  <2>1. PICK t \in {p, q} : Become(h, t)
    BY <1>5 DEF FixGate
  <2>2. /\ t.layer = 4 /\ t.pc = "gate_put" /\ t.next \in {st[h].next, 5}
        /\ t.scan.gateState # "estimate_pending"
    <3>1. CASE t = p
      BY <1>0, <2>0, <3>1 DEF HandlerState, Scan
    <3>2. CASE t = q
      BY <1>0, <2>0, <3>2 DEF HandlerState, Scan
    <3>. QED BY <3>1, <3>2
  <2>. HIDE DEF p, q
  <2>3. Behind \subseteq Behind' /\ 4 \in Behind'
    BY <1>1, <2>0, <2>1, <2>2, LeaveBehind DEF Leaving
  <2>4. /\ Persisted(4, Behind') /\ Persisted(5, Behind') /\ GateOK(row', Behind')
        /\ st[h].next # NoLayer => Persisted(st[h].next, Behind')
    <3>1. Persisted(4 + 1, Behind')
      BY <2>0, <2>3, PersistedNext
    <3>. QED BY <1>0, <2>0, <2>3, <3>1 DEF Persisted, GateOK, OnTrack
  <2>5. OnTrack(t, Behind', isKilled(Home[h])')
    BY <2>2, <2>4 DEF OnTrack, GateOK, Resuming, Killing
  <2>. QED BY <1>1, <1>2, <2>1, <2>2, <2>3, <2>4, <2>5, TrackStep DEF Calm
<1>6. CASE GatePut(h)
  <2>1. ScheduleLabel(st[h].next, st[h].scan) \in Leaving
    BY DEF ScheduleLabel, Leaving
  <2>. QED BY <1>0, <1>1, <1>6, <2>1, GotoTrack, ReturnTrack, LooseLabels DEF GatePut
<1>7. CASE Complete(h)
  <2>. DEFINE t == [st[h] EXCEPT !.pc = "cleanup"]
  <2>0. st[h].layer # NoLayer /\ st[h].pc \notin Leaving
    BY <1>0, <1>7 DEF Complete, OnTrack, Leaving
  <2>1. Become(h, t) /\ GateOK(row', Behind)
    BY <1>0, <1>7, GateEdits DEF Complete, Goto
  <2>2. OnTrack(t, Behind, isKilled(Home[h])')
    BY <1>0, <2>0 DEF OnTrack, HandlerState, Resuming, Killing
  <2>3. Stays(st[h], t) /\ t.pc # "exec"
    BY <1>0, <2>0 DEF Stays, HandlerState
  <2>. HIDE DEF t
  <2>. QED BY <1>1, <2>1, <2>2, <2>3, TrackMove
<1>8. CASE Fail(h)
  <2>1. GateOK(row', Behind)
    BY <1>0, <1>8, GateEdits DEF Fail
  <2>. QED BY <1>1, <1>8, <2>1, ReturnTrack DEF Fail
<1>. QED BY <1>3, <1>4, <1>5, <1>6, <1>7, <1>8

\* cleanup() detaches no layer that is running: after a kill the signals of the
\* process are aborted, and otherwise the layer cleaned up after is the only one
\* anybody is at work on.
LEMMA CleanupTrack ==
  ASSUME Typed, Typed', Locked, Tracked, NEW h \in Handlers, Cleanup(h)
  PROVE  Tracked'
<1>0. /\ row' = row /\ jobs' = jobs /\ UNCHANGED <<killed, globalKilled>> /\ Return(h)
      /\ \A g \in Handlers : sig'[g] = IF Home[g] = Home[h] /\ sig[g] = "live" THEN "detached" ELSE sig[g]
  BY DEF Cleanup
<1>1. ASSUME NEW g \in Handlers \ {h}, At(g, "exec"), Audible(g) PROVE Audible(g)'
  <2>. SUFFICES ASSUME Home[g] = Home[h], sig[g] = "live" PROVE FALSE
    BY <1>0, <1>1 DEF Audible, isKilled
  <2>1. ~isKilled(Home[h])
    BY <1>1 DEF Audible
  <2>2. st[h].layer \in LAYER_ORDER /\ Persisted(st[h].layer, Behind) /\ st[h].pc \notin Leaving
    BY <2>1, TrackFacts DEF OnTrack, Cleanup, At, HandlerState, Leaving
  <2>3. st[g].layer \in LAYER_ORDER /\ Persisted(st[g].layer, Behind) /\ st[g].pc \notin Leaving
    BY <1>1, TrackFacts, Layers DEF OnTrack, At, Typed, ControlOK, JobLabels, Leaving
  <2>4. st[h].layer \notin Behind /\ st[g].layer \notin Behind
    BY <2>2, <2>3 DEF Behind
  <2>5. st[g].layer # st[h].layer
    BY <2>2, <2>3 DEF Locked
  <2>6. st[g].layer < st[h].layer \/ st[h].layer < st[g].layer
    BY <2>2, <2>3, <2>5, Layers
  <2>. QED BY <2>2, <2>3, <2>4, <2>6 DEF Persisted
<1>2. \A g \in Handlers : isKilled(Home[g]) => isKilled(Home[g])'
  BY <1>0 DEF isKilled
<1>. DEFINE t == Returned(st[h])
<1>3. Become(h, t) /\ Stays(st[h], t) /\ t.pc # "exec"
  BY <1>0, TrackFacts, StaysFacts DEF Return, Returned, Idle
<1>4. OnTrack(t, Behind, isKilled(Home[h])')
  <2>. DEFINE K == isKilled(Home[h])'
  <2>. HIDE DEF K
  <2>1. OnTrack(Returned(st[h]), Behind, K)
    BY TrackFacts, TrackStates
  <2>. QED BY <2>1 DEF K
<1>. HIDE DEF t
<1>5. Behind \subseteq Behind'
  BY <1>0, <1>3, BehindGrows
<1>6. \A n : Persisted(n, Behind) => Persisted(n, Behind')
  BY <1>5 DEF Persisted
<1>7. GateOK(row', Behind') /\ OnTrack(t, Behind', isKilled(Home[h])')
  BY <1>0, <1>4, <1>6, TrackFacts DEF GateOK, OnTrack
<1>. QED BY <1>0, <1>1, <1>2, <1>3, <1>5, <1>7, TrackStep

\* An active job has a handler: nobody crashes or loses a lock.
Owned == \A l \in LAYER_ORDER : jobs[l].state = "active" => owner[l] \in Handlers

\* A job taken, acknowledged or failed.
LEMMA QueueTrack ==
  ASSUME Typed, Typed', Tracked, NEW h \in Handlers, NEW l \in LAYER_ORDER,
         Ack(h) \/ StoreError(h) \/ TakeJob(h, l)
  PROVE  Tracked'
<1>0. /\ st[h] \in HandlerState /\ row \in Scan /\ row' = row
      /\ OnTrack(st[h], Behind, isKilled(Home[h])) /\ GateOK(row, Behind)
      /\ UNCHANGED <<killed, globalKilled>>
  BY TrackFacts DEF Ack, StoreError, TakeJob
<1>1. \A g \in Handlers : isKilled(Home[g])' = isKilled(Home[g])
  BY <1>0 DEF isKilled
<1>2. ASSUME Behind \subseteq Behind' PROVE (\A n : Persisted(n, Behind) => Persisted(n, Behind'))
                                            /\ GateOK(row', Behind')
  BY <1>0, <1>2 DEF Persisted, GateOK
<1>3. ASSUME NEW o \in {"done", "failed"}, Settle(h, o) PROVE Tracked'
  <2>1. Become(h, Idle) /\ Stays(st[h], Idle) /\ Idle.pc # "exec"
    BY <1>3 DEF Settle, Stays, Idle
  <2>2. \A m \in LAYER_ORDER : jobs'[m] = jobs[m] \/ (jobs'[m].state = o /\ m = st[h].layer)
    BY <1>3 DEF Settle, Typed, TypeOK, Job
  <2>3. Behind \subseteq Behind'
    BY <2>1, <2>2, BehindGrows
  <2>4. \A g \in Handlers \ {h} : Audible(g) => Audible(g)'
    BY <1>1, <1>3 DEF Audible, Settle, Typed, TypeOK
  <2>5. OnTrack(Idle, Behind', isKilled(Home[h])')
    BY DEF OnTrack, Idle, NewScan, GateOK, Resuming, Killing
  <2>6. \A m \in LAYER_ORDER : jobs'[m].state # "none" => jobs[m].state # "none" \/ Persisted(m, Behind')
    <3>1. \A m \in LAYER_ORDER : m = st[h].layer => Persisted(m, Behind')
      BY <1>0, <1>2, <2>3, Layers DEF OnTrack
    <3>. QED BY <2>2, <3>1
  <2>. QED BY <1>1, <1>2, <2>1, <2>3, <2>4, <2>5, <2>6, TrackStep
<1>4. CASE Ack(h)
  BY <1>3, <1>4 DEF Ack
<1>5. CASE StoreError(h)
  <2>1. CASE Settle(h, "failed")
    BY <1>3, <2>1
  <2>2. CASE st[h].pc \in Guarded /\ Goto(h, "fail") /\ UNCHANGED <<queue, sig>>
    <3>1. st[h].pc \notin Leaving /\ Calm
      BY <1>0, <2>2, CalmSame DEF Guarded, Leaving
    <3>. QED BY <1>0, <2>2, <3>1, GotoTrack, LooseLabels
  <2>. QED BY <1>5, <2>1, <2>2 DEF StoreError
<1>6. CASE TakeJob(h, l)
  <2>. DEFINE t == [Idle EXCEPT !.layer = l, !.auto = jobs[l].auto, !.live = jobs[l].live,
                                !.pc = IF isKilled(Home[h]) THEN "ack" ELSE "job_get"]
  <2>1. t.layer = l /\ t.next = NoLayer /\ t.scan = NewScan /\ t.pc \in {"ack", "job_get"}
    BY DEF Idle
  <2>2. Become(h, t) /\ UNCHANGED sig
    BY <1>6 DEF TakeJob
  <2>. HIDE DEF t
  <2>3. jobs[l].state = "waiting" /\ \A m \in LAYER_ORDER \ {l} : jobs'[m] = jobs[m]
    BY <1>6 DEF TakeJob, Typed, TypeOK
  <2>4. st'[h] = t /\ \A g \in Handlers \ {h} : st'[g] = st[g]
    BY <2>2, BecomeFacts
  <2>5. Behind \subseteq Behind'
    BY <2>1, <2>3, <2>4 DEF Behind
  <2>6. Persisted(l, Behind')
    BY <1>2, <2>3, <2>5 DEF Tracked
  <2>7. OnTrack(t, Behind', isKilled(Home[h])')
    BY <2>1, <2>6 DEF OnTrack, NewScan, GateOK, Resuming, Killing
  <2>8. \A m \in LAYER_ORDER : jobs'[m].state # "none" => jobs[m].state # "none" \/ Persisted(m, Behind')
    BY <2>3, <2>6
  <2>9. \A g \in Handlers \ {h} : Audible(g) => Audible(g)'
    BY <1>1, <2>2 DEF Audible
  <2>. QED BY <1>1, <1>2, <2>1, <2>2, <2>5, <2>7, <2>8, <2>9, TrackStep
<1>. QED BY <1>4, <1>5, <1>6

\* Locks are given with the job and returned with it.
LEMMA NextOwned ==
  ASSUME "stall" \notin Faults, "crash" \notin Faults, Typed, Owned, [Next]_vars
  PROVE  Owned'
<1>1. ASSUME NEW h \in Handlers, NEW o \in {"done", "failed"}, Settle(h, o) PROVE Owned'
  <2>1. \A l \in LAYER_ORDER : \/ jobs'[l] = jobs[l] /\ owner'[l] = owner[l]
                               \/ jobs'[l].state = o
    BY <1>1 DEF Settle, Typed, TypeOK, Job
  <2>. QED BY <2>1 DEF Owned
<1>2. CASE UNCHANGED queue
  BY <1>2 DEF Owned
<1>3. ASSUME NEW h \in Handlers, Begin(h) PROVE Owned'
  BY <1>2, <1>3, BeginMoved
<1>4. ASSUME NEW h \in Handlers, Step(h) PROVE Owned'
  <2>1. CASE Ack(h)
    BY <1>1, <2>1 DEF Ack
  <2>2. CASE ~Ack(h)
    <3>1. owner' = owner /\ \A l \in LAYER_ORDER : jobs'[l] = jobs[l] \/ jobs'[l].state = "waiting"
      <4>1. owner' = owner /\ (jobs' = jobs \/ jobs' = [jobs EXCEPT ![st[h].next] = buildJob(st[h])])
        BY <1>4, <2>2, StepMoved
      <4>2. buildJob(st[h]).state = "waiting"
        BY DEF buildJob
      <4>. QED BY <4>1, <4>2 DEF Typed, TypeOK
    <3>. QED BY <3>1 DEF Owned
  <2>. QED BY <2>1, <2>2
<1>5. ASSUME NEW h \in Handlers, StoreError(h) PROVE Owned'
  BY <1>1, <1>2, <1>5 DEF StoreError
<1>6. ASSUME NEW h \in Handlers, NEW l \in LAYER_ORDER, TakeJob(h, l) PROVE Owned'
  <2>1. owner'[l] = h /\ \A m \in LAYER_ORDER \ {l} : jobs'[m] = jobs[m] /\ owner'[m] = owner[m]
    BY <1>6 DEF TakeJob, Typed, TypeOK
  <2>. QED BY <2>1 DEF Owned
<1>7. ASSUME NEW l \in LAYER_ORDER, Evict(l) PROVE Owned'
  <2>1. owner' = owner /\ \A m \in LAYER_ORDER : jobs'[m] = jobs[m] \/ jobs'[m].state = "none"
    BY <1>7 DEF Evict, Typed, TypeOK, NoJob
  <2>. QED BY <2>1 DEF Owned
<1>8. \A l \in LAYER_ORDER : ~Stall(l)
  BY NoHandlerAssumption DEF Stall, Failure, Owned
<1>9. \A p \in Procs : ~Crash(p)
  BY DEF Crash, Failure
<1>10. CASE UNCHANGED vars
  BY <1>2, <1>10 DEF vars
<1>. QED BY <1>3, <1>4, <1>5, <1>6, <1>7, <1>8, <1>9, <1>10 DEF Next

\* No step leaves the track.
LEMMA NextTracked ==
  ASSUME "resume" \notin Ops, "reconcile" \notin Ops, "stall" \notin Faults, "crash" \notin Faults,
         "evict" \notin Faults, Typed, Typed', Locked, Owned, Tracked, [Next]_vars
  PROVE  Tracked'
<1>0. 0 \in LAYER_ORDER
  BY Layers
<1>1. ASSUME NEW h \in Handlers, Begin(h) PROVE Tracked'
  BY <1>1, BeginTrack
<1>2. ASSUME NEW h \in Handlers, Step(h) \/ StoreError(h) PROVE Tracked'
  BY <1>0, <1>2, StepTrack1, StepTrack2, StepTrack3, CleanupTrack, QueueTrack DEF Step
<1>3. ASSUME NEW h \in Handlers, NEW l \in LAYER_ORDER, TakeJob(h, l) PROVE Tracked'
  BY <1>3, QueueTrack
<1>4. \A l \in LAYER_ORDER : ~Evict(l) /\ ~Stall(l)
  BY NoHandlerAssumption DEF Evict, Stall, Failure, Owned
<1>5. \A p \in Procs : ~Crash(p)
  BY DEF Crash, Failure
<1>6. CASE UNCHANGED vars
  <2>1. UNCHANGED <<row, st, jobs, sig, killed, globalKilled>>
    BY <1>6 DEF vars
  <2>. QED BY <2>1 DEF Tracked, Behind, At, Audible, isKilled
<1>. QED BY <1>1, <1>2, <1>3, <1>4, <1>5, <1>6 DEF Next

\* No running layer is detached from its controller, so that a kill or a
\* cancellation aborts it (abortScan, abortAll), through pauses, approvals,
\* failures of the store, the budget and the runner, and a second consumer, as
\* long as no layer is run again behind a later one.  Resumes, crashes, lost
\* locks and forgotten job ids can do that, and the handler of the earlier layer
\* then cleans up the controller under which the later one runs.
THEOREM RunningStaysAttached ==
  /\ "resume" \notin Ops /\ "reconcile" \notin Ops
  /\ "stall" \notin Faults /\ "crash" \notin Faults /\ "evict" \notin Faults
  => (Spec => [](\A h \in Handlers : At(h, "exec") /\ isKilled(Home[h]) => sig[h] = "aborted"))
<1>. DEFINE Aborted == \A h \in Handlers : At(h, "exec") /\ isKilled(Home[h]) => sig[h] = "aborted"
<1>. SUFFICES ASSUME "resume" \notin Ops, "reconcile" \notin Ops, "stall" \notin Faults,
                     "crash" \notin Faults, "evict" \notin Faults
              PROVE  Spec => []Aborted
  OBVIOUS
<1>1. Init => Locked /\ Owned
  BY Layers DEF Init, Locked, Owned, Idle, NoJob
<1>2. Init => Tracked
  BY DEF Init, Tracked, OnTrack, GateOK, Idle, NewScan, NoJob, Resuming, Killing, At
<1>3. Typed /\ Typed' /\ Locked /\ Owned /\ Tracked /\ [Next]_vars => Locked' /\ Owned' /\ Tracked'
  BY NextLocked, NextOwned, NextTracked
<1>4. Tracked => Aborted
  BY DEF Tracked, Audible
<1>. QED BY <1>1, <1>2, <1>3, <1>4, AlwaysTyped, PTL DEF Spec

=============================================================================
