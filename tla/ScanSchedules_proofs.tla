------------------------ MODULE ScanSchedules_proofs ------------------------
(***************************************************************************)
(* The safety of scan schedules for any number of requests, workers,       *)
(* firings, crashes and stalls, and the correctness of the cron evaluator  *)
(* for every calendar, expression and instant.                             *)
(*                                                                         *)
(* Two invariants: what a sync nobody disturbed knows at each of its       *)
(* steps, and, for each firing, a count of the scans it has created and of *)
(* the deliveries that may still create one.  The evaluator's loop is      *)
(* reasoned about from the latest instant at which it would be wrong.      *)
(***************************************************************************)
EXTENDS ScanSchedules, FiniteSetTheorems, WellFoundedInduction, TLAPS

\* The assumption, taken apart.
LEMMA Constants ==
  /\ IsFiniteSet(Workers)
  /\ MaxRequests \in Nat /\ MaxFirings \in Nat /\ MaxCrashes \in Nat /\ MAX_STALLED \in Nat
  BY ScheduleAssumption

USE DEF store, firing

-----------------------------------------------------------------------------
(* Rows, requests and syncs *)

Nexts == {Never} \cup {nextCronRun(Crons[c], now) : c \in DOMAIN Crons, now \in Clock}

Rows == {r \in [enabled : BOOLEAN, cron : {0} \cup DOMAIN Crons, next : Nexts] :
           r.enabled <=> r.next # Never}

Requests == {Idle} \cup [op : {"put", "delete"}, row : Rows]

\* What listEnabled returned.
Listed == {Gone} \cup {r \in Rows : r.enabled}

SyncPCs == {"down", "upsert", "prune", "drop", "refresh", "save", "up"}

Syncs == [pc : SyncPCs, row : Listed]

StoreTyped ==
  /\ api \in [Handlers -> Requests]
  /\ schedule \in Rows /\ repeat \in {None} \cup DOMAIN Crons
  /\ sync \in [Workers -> Syncs]
  /\ calm \subseteq {k \in Workers : ~at(k, "down")}

\* The job a row calls for.
wanted(row) == IF row.enabled THEN row.cron ELSE None

\* What a sync that nobody wrote into knows of the row and of the job.
Knows(s, row, job) ==
  /\ s.pc = "upsert" => row.enabled /\ s.row = row
  /\ s.pc = "prune" => \/ ~row.enabled /\ s.row = Gone
                       \/ row.enabled /\ s.row = row /\ job = wanted(row)
  /\ s.pc = "drop" => ~row.enabled /\ s.row = Gone
  /\ s.pc = "refresh" => /\ job = wanted(row)
                         /\ s.row = IF row.enabled THEN row ELSE Gone
  /\ s.pc = "save" => /\ row.enabled /\ job = wanted(row)
                      /\ s.row.enabled /\ s.row.cron = row.cron
  /\ s.pc = "up" => job = wanted(row)

CalmKnows == \A k \in calm : Knows(sync[k], schedule, repeat)

StoreInv == StoreTyped /\ CalmKnows

-----------------------------------------------------------------------------
(* Firings *)

FiringTyped ==
  /\ count \in [requests : Nat, firings : 0 .. MaxFirings, crashes : Nat]
  /\ queue \subseteq 1 .. count.firings
  /\ stalls \in [Firings -> 0 .. MAX_STALLED]
  /\ scans \in [Firings -> Nat]
  /\ trigger \in [Workers -> [pc : {"idle", "get", "create", "start"}, job : 0 .. MaxFirings]]
  /\ \A k \in Workers : trigger[k].job <= count.firings /\ (trigger[k].pc # "idle" => trigger[k].job # 0)

\* The workers that may still create a scan for firing j.
holders(j) == {k \in Workers : trigger[k].job = j /\ trigger[k].pc \in {"get", "create"}}

\* Each scan of a firing, and each delivery of it that may create one, is the
\* first or was paid for by a stall.
Paid ==
  \A j \in Firings :
    /\ j > count.firings => scans[j] = 0
    /\ scans[j] + Cardinality(holders(j)) + (IF j \in queue THEN 1 ELSE 0) <= 1 + stalls[j]

FiringInv == FiringTyped /\ Paid

Inv == StoreInv /\ FiringInv
-----------------------------------------------------------------------------
(* The store *)

LEMMA GoneTyped == Gone \in Rows /\ ~Gone.enabled
  BY DEF Gone, Rows, Nexts

\* A request that is not refused asks for a row of the type.
LEMMA RowsTyped == rows \subseteq Rows
<1>. SUFFICES ASSUME NEW w \in rows PROVE w \in Rows
  OBVIOUS
<1>1. PICK q \in (DOMAIN Crons) \X BOOLEAN \X Clock :
        /\ ~refusedCron(Crons[q[1]], q[2], q[3])
        /\ w = [enabled |-> q[2], cron |-> q[1],
                next |-> computeNextRunAt(Crons[q[1]], q[2], q[3])]
  BY DEF rows
<1>2. q[1] \in DOMAIN Crons /\ q[2] \in BOOLEAN /\ q[3] \in Clock
  BY <1>1
<1>3. CASE q[2]
  <2>1. w.next = nextCronRun(Crons[q[1]], q[3]) /\ w.next # Never
    BY <1>1, <1>3 DEF computeNextRunAt, refusedCron
  <2>2. w.next \in Nexts
    BY <1>2, <2>1 DEF Nexts
  <2>3. PICK n \in Nexts : w = [enabled |-> TRUE, cron |-> q[1], next |-> n] /\ n # Never
    BY <1>1, <1>2, <1>3, <2>1, <2>2
  <2>. QED BY <1>2, <2>3 DEF Rows
<1>4. CASE ~q[2]
  <2>1. w = [enabled |-> FALSE, cron |-> q[1], next |-> Never]
    BY <1>1, <1>2, <1>4 DEF computeNextRunAt
  <2>. QED BY <1>2, <2>1 DEF Rows, Nexts
<1>. QED BY <1>2, <1>3, <1>4

LEMMA InitStore == Init => StoreInv
<1>. SUFFICES ASSUME Init PROVE StoreInv
  OBVIOUS
<1>1. schedule \in Rows /\ Down \in Syncs /\ Idle \in Requests
  BY RowsTyped, GoneTyped DEF Init, Down, SyncPCs, Syncs, Listed, Requests
<1>. QED BY <1>1 DEF Init, StoreInv, StoreTyped, CalmKnows

\* A step that leaves row, job and syncs alone leaves what they know.
LEMMA StoreRest ==
  ASSUME StoreInv, UNCHANGED <<schedule, repeat, sync, calm>>, api' \in [Handlers -> Requests]
  PROVE  StoreInv'
<1>1. StoreTyped'
  BY DEF StoreInv, StoreTyped, at
<1>2. CalmKnows'
  BY DEF StoreInv, CalmKnows
<1>. QED BY <1>1, <1>2 DEF StoreInv

LEMMA ServeStore ==
  ASSUME StoreInv, NEW h \in Handlers, Put(h) \/ Delete(h) PROVE StoreInv'
<1>1. PICK q \in Requests : Serve(h, q)
  <2>1. \A w \in rows : [op |-> "put", row |-> w] \in Requests
    BY RowsTyped DEF Requests
  <2>2. [op |-> "delete", row |-> Gone] \in Requests
    BY GoneTyped DEF Requests
  <2>. QED BY <2>1, <2>2 DEF Put, Delete
<1>2. api' \in [Handlers -> Requests]
  BY <1>1 DEF Serve, StoreInv, StoreTyped
<1>. QED BY <1>1, <1>2, StoreRest DEF Serve

LEMMA SaveStore == ASSUME StoreInv, NEW h \in Handlers, Save(h) PROVE StoreInv'
<1>1. api[h].row \in Rows
  BY DEF Save, StoreInv, StoreTyped, Requests
<1>2. schedule' \in Rows /\ api' \in [Handlers -> Requests]
  BY <1>1, GoneTyped DEF Save, StoreInv, StoreTyped, Requests
<1>3. StoreTyped'
  BY <1>2 DEF Save, StoreInv, StoreTyped
<1>4. CalmKnows'
  BY DEF Save, CalmKnows
<1>. QED BY <1>3, <1>4 DEF StoreInv

\* A step of the sync of worker k.
LEMMA SyncStep ==
  ASSUME StoreInv, NEW k \in Workers, UNCHANGED api,
         NEW s \in Syncs, sync' = [sync EXCEPT ![k] = s],
         schedule' \in Rows, repeat' \in {None} \cup DOMAIN Crons,
         k \in calm' => s.pc # "down" /\ Knows(s, schedule', repeat'),
         \/ calm' \subseteq {k}
         \/ calm' \subseteq calm \cup {k} /\ UNCHANGED <<schedule, repeat>>
  PROVE  StoreInv'
<1>1. StoreTyped'
  BY DEF StoreInv, StoreTyped, at
<1>2. ASSUME NEW g \in calm', g # k PROVE Knows(sync'[g], schedule', repeat')
  <2>1. g \in calm /\ g \in Workers /\ sync'[g] = sync[g] /\ UNCHANGED <<schedule, repeat>>
    BY <1>2 DEF StoreInv, StoreTyped
  <2>. QED BY <2>1 DEF StoreInv, CalmKnows, Knows, wanted
<1>3. CalmKnows'
  BY <1>2 DEF CalmKnows, StoreInv, StoreTyped
<1>. QED BY <1>1, <1>3 DEF StoreInv
LEMMA BootStore == ASSUME StoreInv, NEW k \in Workers, Boot(k) PROVE StoreInv'
<1>. DEFINE s == [pc |-> IF schedule.enabled THEN "upsert" ELSE "prune",
                  row |-> IF schedule.enabled THEN schedule ELSE Gone]
<1>1. s \in Syncs
  BY GoneTyped DEF StoreInv, StoreTyped, SyncPCs, Syncs, Listed
<1>2. s.pc # "down" /\ Knows(s, schedule', repeat')
  BY DEF Boot, Knows, wanted
<1>3. sync' = [sync EXCEPT ![k] = s]
  BY DEF Boot
<1>. HIDE DEF s
<1>4. schedule' \in Rows /\ repeat' \in {None} \cup DOMAIN Crons
  BY DEF Boot, StoreInv, StoreTyped
<1>. QED BY <1>1, <1>2, <1>3, <1>4, SyncStep DEF Boot

LEMMA SyncStore == ASSUME StoreInv, NEW k \in Workers, Sync(k) PROVE StoreInv'
<1>. DEFINE goes(pc) == [sync[k] EXCEPT !.pc = pc]
<1>0. /\ sync[k] \in Syncs /\ schedule \in Rows
      /\ repeat \in {None} \cup DOMAIN Crons
      /\ k \in calm => Knows(sync[k], schedule, repeat)
  BY DEF StoreInv, StoreTyped, CalmKnows
<1>1. \A pc \in SyncPCs : /\ goes(pc) \in Syncs
                           /\ goes(pc).pc = pc /\ goes(pc).row = sync[k].row
  BY <1>0 DEF Syncs
<1>2. \A pc : goto(k, pc) => sync' = [sync EXCEPT ![k] = goes(pc)]
  BY <1>0 DEF goto, StoreInv, StoreTyped
<1>. DEFINE up == [pc |-> "up", row |-> Gone]
<1>3. /\ up \in Syncs /\ up.pc = "up"
      /\ over(k) => sync' = [sync EXCEPT ![k] = up]
  BY GoneTyped DEF SyncPCs, Syncs, Listed, over
<1>. HIDE DEF goes, up
<1>4. CASE Upsert(k)
  <2>1. sync' = [sync EXCEPT ![k] = goes("prune")] /\ "prune" \in SyncPCs
    BY <1>2, <1>4 DEF Upsert, SyncPCs
  <2>2. repeat' \in {None} \cup DOMAIN Crons /\ schedule' \in Rows
    <3>1. sync[k].row \in Rows
      BY <1>0, GoneTyped DEF Syncs, Listed
    <3>. QED BY <1>0, <1>4, <3>1 DEF Upsert, Rows, None
  <2>3. k \in calm' => Knows(goes("prune"), schedule', repeat')
    BY <1>0, <1>1, <1>4, <2>1 DEF Upsert, Knows, wanted, at
  <2>. QED BY <1>1, <1>4, <2>1, <2>2, <2>3, SyncStep DEF Upsert
<1>5. CASE Prune(k)
  <2>1. CASE repeat # None /\ sync[k].row = Gone
    <3>1. sync' = [sync EXCEPT ![k] = goes("drop")] /\ "drop" \in SyncPCs
      BY <1>2, <1>5, <2>1 DEF Prune, SyncPCs
    <3>2. k \in calm' => Knows(goes("drop"), schedule', repeat')
      BY <1>0, <1>1, <1>5, <2>1, <3>1, GoneTyped DEF Prune, Knows, wanted, at
    <3>. QED BY <1>0, <1>1, <1>5, <3>1, <3>2, SyncStep DEF Prune
  <2>2. CASE ~(repeat # None /\ sync[k].row = Gone)
    <3>1. sync' = [sync EXCEPT ![k] = goes("refresh")] /\ "refresh" \in SyncPCs
      BY <1>2, <1>5, <2>2 DEF Prune, SyncPCs
    <3>2. k \in calm' => Knows(goes("refresh"), schedule', repeat')
      BY <1>0, <1>1, <1>5, <2>2, <3>1, GoneTyped DEF Prune, Knows, wanted, at
    <3>. QED BY <1>0, <1>1, <1>5, <3>1, <3>2, SyncStep DEF Prune
  <2>. QED BY <2>1, <2>2
<1>6. CASE Unschedule(k)
  <2>1. sync' = [sync EXCEPT ![k] = goes("refresh")] /\ "refresh" \in SyncPCs
    BY <1>2, <1>6 DEF Unschedule, SyncPCs
  <2>2. k \in calm' => Knows(goes("refresh"), schedule', repeat')
    BY <1>0, <1>1, <1>6, <2>1 DEF Unschedule, Knows, wanted, at
  <2>. QED BY <1>0, <1>1, <1>6, <2>1, <2>2, SyncStep DEF Unschedule
<1>7. CASE Refresh(k)
  <2>1. CASE over(k)
    <3>1. k \in calm' => Knows(up, schedule', repeat')
      BY <1>0, <1>3, <1>7 DEF Refresh, Knows, wanted, at
    <3>. QED BY <1>0, <1>3, <1>7, <2>1, <3>1, SyncStep DEF Refresh
  <2>2. CASE /\ repeat # None /\ sync[k].row # Gone
             /\ \E next \in nextMs[repeat] \ {sync[k].row.next} :
                  sync' = [sync EXCEPT ![k] = [pc |-> "save", row |-> [@.row EXCEPT !.next = next]]]
    <3>1. PICK next \in nextMs[repeat] :
            sync' = [sync EXCEPT ![k] = [pc |-> "save", row |-> [sync[k].row EXCEPT !.next = next]]]
      BY <2>2, <1>0 DEF StoreInv, StoreTyped
    <3>2. next \in Nexts /\ next # Never
      BY <1>0, <2>2 DEF nextMs, Nexts
    <3>. DEFINE w == [sync[k].row EXCEPT !.next = next]
                s == [pc |-> "save", row |-> w]
    <3>3. sync[k].row \in Rows /\ sync[k].row.enabled
      BY <1>0, <2>2 DEF Syncs, Listed
    <3>4. w \in Rows /\ w.enabled /\ w.cron = sync[k].row.cron
      BY <3>2, <3>3 DEF Rows
    <3>. HIDE DEF w
    <3>5. s \in Syncs /\ s.pc = "save" /\ s.row = w
      BY <3>4 DEF Syncs, Listed, SyncPCs
    <3>6. sync' = [sync EXCEPT ![k] = s]
      BY <3>1 DEF w
    <3>. HIDE DEF s
    <3>7. k \in calm' => Knows(s, schedule', repeat')
      BY <1>0, <1>7, <2>2, <3>4, <3>5 DEF Refresh, Knows, wanted, at
    <3>. QED BY <1>0, <1>7, <3>5, <3>6, <3>7, SyncStep DEF Refresh
  <2>. QED BY <1>7, <2>1, <2>2 DEF Refresh
<1>8. CASE SaveNext(k)
  <2>1. schedule' \in Rows
    BY <1>0, <1>8, GoneTyped DEF SaveNext, Syncs, Listed
  <2>2. k \in calm' => Knows(up, schedule', repeat')
    BY <1>0, <1>3, <1>8, GoneTyped DEF SaveNext, Knows, wanted, at
  <2>. QED BY <1>0, <1>3, <1>8, <2>1, <2>2, SyncStep DEF SaveNext
<1>9. CASE SyncFails(k)
  <2>1. calm' \subseteq calm /\ k \notin calm'
    BY <1>9 DEF SyncFails
  <2>. QED BY <1>0, <1>3, <1>9, <2>1, SyncStep DEF SyncFails
<1>. QED BY <1>4, <1>5, <1>6, <1>7, <1>8, <1>9 DEF Sync
LEMMA CrashStore == ASSUME StoreInv, NEW k \in Workers, Crash(k) PROVE StoreInv'
<1>1. Down \in Syncs
  BY GoneTyped DEF Down, Syncs, SyncPCs, Listed
<1>2. schedule' \in Rows /\ repeat' \in {None} \cup DOMAIN Crons /\ k \notin calm' /\ calm' \subseteq calm
  BY DEF Crash, StoreInv, StoreTyped
<1>. QED BY <1>1, <1>2, SyncStep DEF Crash

-----------------------------------------------------------------------------
(* The firings *)

LEMMA HoldersFinite ==
  \A j : IsFiniteSet(holders(j)) /\ Cardinality(holders(j)) \in Nat
<1>. SUFFICES ASSUME NEW j PROVE IsFiniteSet(holders(j)) /\ Cardinality(holders(j)) \in Nat
  OBVIOUS
<1>1. holders(j) \subseteq Workers
  BY DEF holders
<1>. QED BY <1>1, Constants, FS_Subset, FS_CardinalityType

LEMMA InitFiring == Init => FiringInv
<1>. SUFFICES ASSUME Init PROVE FiringInv
  OBVIOUS
<1>1. FiringTyped
  <2>1. NoTrigger \in [pc : {"idle", "get", "create", "start"}, job : 0 .. MaxFirings]
        /\ NoTrigger.pc = "idle" /\ NoTrigger.job = 0
    BY Constants DEF NoTrigger
  <2>2. count \in [requests : Nat, firings : 0 .. MaxFirings, crashes : Nat]
        /\ count.firings = 0
    BY Constants DEF Init
  <2>3. stalls \in [Firings -> 0 .. MAX_STALLED] /\ scans \in [Firings -> Nat]
    BY Constants DEF Init
  <2>. QED BY <2>1, <2>2, <2>3 DEF Init, FiringTyped
<1>2. \A j : holders(j) = {}
  BY DEF Init, holders, NoTrigger
<1>3. \A j \in Firings : scans[j] = 0 /\ stalls[j] = 0 /\ j \notin queue
  BY DEF Init
<1>4. Paid
  BY <1>2, <1>3, FS_EmptySet DEF Paid
<1>. QED BY <1>1, <1>4 DEF FiringInv

LEMMA FiringRest ==
  ASSUME FiringInv, UNCHANGED firing, NEW n \in Nat, count' = [count EXCEPT !.requests = n]
  PROVE  FiringInv'
<1>1. count' \in [requests : Nat, firings : 0 .. MaxFirings, crashes : Nat]
      /\ count'.firings = count.firings
  BY DEF FiringInv, FiringTyped
<1>2. FiringTyped'
  BY <1>1 DEF FiringInv, FiringTyped
<1>3. \A j : holders(j)' = holders(j)
  BY DEF holders
<1>4. Paid'
  BY <1>1, <1>3 DEF FiringInv, Paid
<1>. QED BY <1>2, <1>4 DEF FiringInv

LEMMA FireFiring == ASSUME FiringInv, Fire PROVE FiringInv'
<1>. DEFINE f == count.firings + 1
<1>1. count' = [count EXCEPT !.firings = f] /\ f \in 0 .. MaxFirings /\ f \in Firings
      /\ count.firings \in Nat
  BY Constants DEF Fire, FiringInv, FiringTyped, Firings
<1>2. count' \in [requests : Nat, firings : 0 .. MaxFirings, crashes : Nat] /\ count'.firings = f
  BY <1>1 DEF FiringInv, FiringTyped
<1>3. FiringTyped'
  <2>1. queue' \subseteq 1 .. count'.firings
    BY <1>1, <1>2 DEF Fire, FiringInv, FiringTyped
  <2>2. \A k \in Workers : trigger[k].job <= count'.firings
    BY <1>1, <1>2 DEF FiringInv, FiringTyped
  <2>. QED BY <1>2, <2>1, <2>2 DEF Fire, FiringInv, FiringTyped
<1>4. Paid'
  <2>. SUFFICES ASSUME NEW j \in Firings
       PROVE  /\ j > f => scans[j] = 0
              /\ scans[j] + Cardinality(holders(j)) + (IF j \in queue' THEN 1 ELSE 0) <= 1 + stalls[j]
    <3>1. \A j : holders(j)' = holders(j)
      BY DEF holders, Fire
    <3>. QED BY <1>2, <3>1 DEF Paid, Fire, Firings
  <2>1. CASE j # f
    <3>1. j \in queue' <=> j \in queue
      BY <2>1 DEF Fire
    <3>. QED BY <1>1, <2>1, <3>1 DEF FiringInv, Paid, Firings
  <2>2. CASE j = f
    <3>1. scans[j] = 0 /\ stalls[j] \in Nat
      BY <1>1, <2>2 DEF FiringInv, FiringTyped, Paid
    <3>2. holders(j) = {}
      BY <1>1, <2>2 DEF holders, FiringInv, FiringTyped
    <3>. QED BY <2>2, <3>1, <3>2, FS_EmptySet
  <2>. QED BY <2>1, <2>2
<1>. QED BY <1>3, <1>4 DEF FiringInv

\* A step of the trigger of worker k.
LEMMA TriggerTyped ==
  ASSUME FiringInv, NEW k \in Workers,
         NEW s \in [pc : {"idle", "get", "create", "start"}, job : 0 .. MaxFirings],
         trigger' = [trigger EXCEPT ![k] = s],
         s.job <= count.firings, s.pc # "idle" => s.job # 0,
         queue' \subseteq 1 .. count.firings, stalls' \in [Firings -> 0 .. MAX_STALLED],
         scans' \in [Firings -> Nat],
         count' \in [requests : Nat, firings : 0 .. MaxFirings, crashes : Nat],
         count'.firings = count.firings
  PROVE  FiringTyped'
<1>1. trigger' \in [Workers -> [pc : {"idle", "get", "create", "start"}, job : 0 .. MaxFirings]]
  BY DEF FiringInv, FiringTyped
<1>2. \A g \in Workers : trigger'[g].job <= count.firings
                         /\ (trigger'[g].pc # "idle" => trigger'[g].job # 0)
  BY DEF FiringInv, FiringTyped
<1>. QED BY <1>1, <1>2 DEF FiringTyped

\* What it does to the deliveries that may still create a scan.
LEMMA HoldersStep ==
  ASSUME FiringInv, NEW k \in Workers, NEW s, trigger' = [trigger EXCEPT ![k] = s], NEW j
  PROVE  holders(j)' = IF s.job = j /\ s.pc \in {"get", "create"}
                       THEN holders(j) \cup {k} ELSE holders(j) \ {k}
<1>1. trigger'[k] = s /\ \A g \in Workers \ {k} : trigger'[g] = trigger[g]
  BY DEF FiringInv, FiringTyped
<1>2. CASE s.job = j /\ s.pc \in {"get", "create"}
  BY <1>1, <1>2 DEF holders
<1>3. CASE ~(s.job = j /\ s.pc \in {"get", "create"})
  BY <1>1, <1>3 DEF holders
<1>. QED BY <1>2, <1>3

LEMMA HoldersCount ==
  ASSUME NEW j, NEW k
  PROVE  /\ Cardinality(holders(j) \cup {k}) <= Cardinality(holders(j)) + 1
         /\ Cardinality(holders(j) \cup {k}) \in Nat
         /\ Cardinality(holders(j) \ {k}) \in Nat
         /\ Cardinality(holders(j) \ {k}) <= Cardinality(holders(j))
         /\ k \in holders(j) => Cardinality(holders(j) \ {k}) = Cardinality(holders(j)) - 1
<1>. DEFINE H == holders(j)
<1>1. IsFiniteSet(H) /\ Cardinality(H) \in Nat
  BY HoldersFinite
<1>. HIDE DEF H
<1>2. IsFiniteSet(H \cup {k}) /\ Cardinality(H \cup {k}) <= Cardinality(H) + 1
  <2>1. CASE k \in H
    <3>1. H \cup {k} = H
      BY <2>1
    <3>2. Cardinality(H \cup {k}) = Cardinality(H) /\ IsFiniteSet(H \cup {k})
      BY <1>1, <3>1, Zenon
    <3>. QED BY <1>1, <3>2
  <2>2. CASE k \notin H
    BY <1>1, <2>2, FS_AddElement
  <2>. QED BY <2>1, <2>2
<1>3. /\ IsFiniteSet(H \ {k})
      /\ Cardinality(H \ {k}) = IF k \in H THEN Cardinality(H) - 1 ELSE Cardinality(H)
  BY <1>1, FS_RemoveElement
<1>4. Cardinality(H \cup {k}) \in Nat /\ Cardinality(H \ {k}) \in Nat
  BY <1>2, <1>3, FS_CardinalityType
<1>5. /\ Cardinality(H \ {k}) <= Cardinality(H)
      /\ k \in H => Cardinality(H \ {k}) = Cardinality(H) - 1
  BY <1>1, <1>3
<1>. QED BY <1>2, <1>4, <1>5 DEF H

LEMMA TakeFiring == ASSUME FiringInv, NEW k \in Workers, Take(k) PROVE FiringInv'
<1>1. PICK i \in queue : queue' = queue \ {i} /\ trigger' = [trigger EXCEPT ![k] = [pc |-> "get", job |-> i]]
  BY DEF Take
<1>. DEFINE s == [pc |-> "get", job |-> i]
<1>2. i \in 1 .. count.firings /\ i \in 0 .. MaxFirings /\ count.firings \in Nat
  BY <1>1, Constants DEF FiringInv, FiringTyped
<1>3. s \in [pc : {"idle", "get", "create", "start"}, job : 0 .. MaxFirings]
      /\ s.job = i /\ s.pc = "get"
  BY <1>2
<1>4. trigger' = [trigger EXCEPT ![k] = s] /\ UNCHANGED <<stalls, scans, count>>
  BY <1>1 DEF Take
<1>. HIDE DEF s
<1>5. FiringTyped'
  BY <1>1, <1>2, <1>3, <1>4, TriggerTyped DEF FiringInv, FiringTyped
<1>6. Paid'
  <2>. SUFFICES ASSUME NEW j \in Firings
       PROVE  /\ j > count.firings => scans[j] = 0
              /\ scans[j] + Cardinality(holders(j)') + (IF j \in queue' THEN 1 ELSE 0) <= 1 + stalls[j]
    BY <1>4 DEF Paid, Firings
  <2>1. scans[j] \in Nat /\ stalls[j] \in Nat /\ Cardinality(holders(j)) \in Nat
    BY HoldersFinite DEF FiringInv, FiringTyped
  <2>2. CASE j = i
    <3>1. Cardinality(holders(j)') <= Cardinality(holders(j)) + 1 /\ Cardinality(holders(j)') \in Nat
      BY <1>3, <1>4, <2>2, HoldersStep, HoldersCount
    <3>2. j \in queue /\ j \notin queue'
      BY <1>1, <2>2
    <3>. QED BY <2>1, <3>1, <3>2 DEF FiringInv, Paid
  <2>3. CASE j # i
    <3>1. Cardinality(holders(j)') <= Cardinality(holders(j)) /\ Cardinality(holders(j)') \in Nat
      <4>1. holders(j)' = holders(j) \ {k}
        BY <1>3, <1>4, <2>3, HoldersStep
      <4>. QED BY <4>1, HoldersCount
    <3>2. j \in queue <=> j \in queue'
      BY <1>1, <2>3
    <3>. QED BY <2>1, <3>1, <3>2 DEF FiringInv, Paid
  <2>. QED BY <2>2, <2>3
<1>. QED BY <1>5, <1>6 DEF FiringInv

\* A worker goes on, or is done, with the firing it holds and creates no scan.
LEMMA KeepStep ==
  ASSUME FiringInv, NEW k \in Workers,
         NEW s \in [pc : {"idle", "get", "create", "start"}, job : 0 .. MaxFirings],
         trigger' = [trigger EXCEPT ![k] = s],
         s.job <= count.firings, s.pc # "idle" => s.job # 0,
         s.pc \in {"get", "create"} => k \in holders(s.job),
         UNCHANGED <<queue, stalls, scans>>,
         count' \in [requests : Nat, firings : 0 .. MaxFirings, crashes : Nat],
         count'.firings = count.firings
  PROVE  FiringInv'
<1>1. FiringTyped'
  BY TriggerTyped DEF FiringInv, FiringTyped
<1>2. Paid'
  <2>. SUFFICES ASSUME NEW j \in Firings
       PROVE  scans[j] + Cardinality(holders(j)') + (IF j \in queue THEN 1 ELSE 0) <= 1 + stalls[j]
    BY DEF Paid, FiringInv, Firings
  <2>1. scans[j] \in Nat /\ stalls[j] \in Nat /\ Cardinality(holders(j)) \in Nat
    BY HoldersFinite DEF FiringInv, FiringTyped
  <2>2. Cardinality(holders(j)') <= Cardinality(holders(j)) /\ Cardinality(holders(j)') \in Nat
    <3>1. CASE s.job = j /\ s.pc \in {"get", "create"}
      <4>1. holders(j)' = holders(j) \cup {k}
        BY <3>1, HoldersStep
      <4>2. holders(j)' = holders(j)
        BY <3>1, <4>1
      <4>. QED BY <2>1, <4>2
    <3>2. CASE ~(s.job = j /\ s.pc \in {"get", "create"})
      <4>1. holders(j)' = holders(j) \ {k}
        BY <3>2, HoldersStep
      <4>. QED BY <4>1, HoldersCount
    <3>. QED BY <3>1, <3>2
  <2>. QED BY <2>1, <2>2 DEF FiringInv, Paid
<1>. QED BY <1>1, <1>2 DEF FiringInv

LEMMA HandleFiring == ASSUME FiringInv, NEW k \in Workers, Handle(k) PROVE FiringInv'
<1>. DEFINE T == [pc : {"idle", "get", "create", "start"}, job : 0 .. MaxFirings]
            goes(pc) == [trigger[k] EXCEPT !.pc = pc]
<1>0. /\ trigger[k] \in T /\ trigger[k].job <= count.firings
      /\ trigger[k].pc # "idle" => trigger[k].job # 0
      /\ count.firings \in Nat /\ UNCHANGED <<queue, stalls, count>>
      /\ count' \in [requests : Nat, firings : 0 .. MaxFirings, crashes : Nat]
      /\ count'.firings = count.firings
  BY DEF Handle, Get, Create, Start, FiringInv, FiringTyped
<1>1. NoTrigger \in T /\ NoTrigger.pc = "idle" /\ NoTrigger.job = 0
  BY Constants DEF NoTrigger
<1>2. \A pc \in {"create", "start"} : goes(pc) \in T /\ goes(pc).pc = pc /\ goes(pc).job = trigger[k].job
  BY <1>0
<1>3. \A pc : trigger' = [trigger EXCEPT ![k].pc = pc] => trigger' = [trigger EXCEPT ![k] = goes(pc)]
  BY DEF FiringInv, FiringTyped
<1>. HIDE DEF goes
<1>4. CASE trigger' = [trigger EXCEPT ![k] = NoTrigger] /\ UNCHANGED scans
  <2>1. NoTrigger.job <= count.firings /\ ~(NoTrigger.pc \in {"get", "create"})
    BY <1>0, <1>1
  <2>. QED BY <1>0, <1>1, <1>4, <2>1, KeepStep
<1>5. CASE Get(k) /\ trigger' = [trigger EXCEPT ![k].pc = "create"]
  <2>1. trigger[k].pc = "get" /\ k \in holders(goes("create").job)
    BY <1>2, <1>5 DEF Get, holders
  <2>. QED BY <1>0, <1>2, <1>3, <1>5, <2>1, KeepStep DEF Get
<1>6. CASE /\ trigger[k].pc = "create" /\ scans' = [scans EXCEPT ![trigger[k].job] = @ + 1]
           /\ trigger' = [trigger EXCEPT ![k].pc = "start"]
  <2>. DEFINE i == trigger[k].job
              s == goes("start")
  <2>1. i \in Firings
    BY <1>0, <1>6 DEF Firings
  <2>2. s \in T /\ s.pc = "start" /\ s.job = i /\ trigger' = [trigger EXCEPT ![k] = s]
    BY <1>2, <1>3, <1>6
  <2>. HIDE DEF s
  <2>3. scans' \in [Firings -> Nat]
    BY <1>6, <2>1 DEF FiringInv, FiringTyped
  <2>4. FiringTyped'
    BY <1>0, <1>6, <2>2, <2>3, TriggerTyped DEF FiringInv, FiringTyped
  <2>5. Paid'
    <3>. SUFFICES ASSUME NEW j \in Firings
         PROVE  /\ j > count.firings => scans'[j] = 0
                /\ scans'[j] + Cardinality(holders(j)') + (IF j \in queue THEN 1 ELSE 0) <= 1 + stalls[j]
      BY <1>0 DEF Paid, Firings
    <3>1. scans[j] \in Nat /\ stalls[j] \in Nat /\ Cardinality(holders(j)) \in Nat
      BY HoldersFinite DEF FiringInv, FiringTyped
    <3>2. holders(j)' = holders(j) \ {k}
      BY <2>2, HoldersStep
    <3>3. CASE j = i
      <4>1. k \in holders(j)
        BY <1>6, <3>3 DEF holders
      <4>2. Cardinality(holders(j)') = Cardinality(holders(j)) - 1 /\ Cardinality(holders(j)') \in Nat
        BY <3>2, <4>1, HoldersCount
      <4>3. scans'[j] = scans[j] + 1 /\ ~(j > count.firings)
        BY <1>0, <1>6, <3>3 DEF FiringInv, FiringTyped
      <4>. QED BY <3>1, <4>2, <4>3 DEF FiringInv, Paid
    <3>4. CASE j # i
      <4>1. Cardinality(holders(j)') <= Cardinality(holders(j)) /\ Cardinality(holders(j)') \in Nat
        BY <3>1, <3>2, HoldersCount
      <4>2. scans'[j] = scans[j]
        BY <1>6, <3>4 DEF FiringInv, FiringTyped
      <4>. QED BY <3>1, <4>1, <4>2 DEF FiringInv, Paid
    <3>. QED BY <3>3, <3>4
  <2>. QED BY <2>4, <2>5 DEF FiringInv
<1>. QED BY <1>4, <1>5, <1>6 DEF Handle, Get, Create, Start

\* A firing that is put back is paid for.
LEMMA PutBack ==
  ASSUME FiringInv, NEW i \in 0 .. count.firings, putBack(i)
  PROVE  /\ queue' \subseteq 1 .. count.firings /\ stalls' \in [Firings -> 0 .. MAX_STALLED]
         /\ \A j \in Firings :
              \/ (j \in queue' <=> j \in queue) /\ stalls'[j] >= stalls[j]
              \/ stalls'[j] = stalls[j] + 1
<1>0. count.firings \in 0 .. MaxFirings /\ stalls \in [Firings -> 0 .. MAX_STALLED]
  BY DEF FiringInv, FiringTyped
<1>1. CASE i # 0 /\ stalls[i] < MAX_STALLED
  <2>1. i \in 1 .. count.firings /\ i \in Firings
    BY <1>0, <1>1, Constants DEF Firings
  <2>2. stalls[i] + 1 \in 0 .. MAX_STALLED
    BY <1>0, <1>1, <2>1, Constants
  <2>3. queue' = queue \cup {i} /\ stalls' = [stalls EXCEPT ![i] = stalls[i] + 1]
    BY <1>1 DEF putBack
  <2>4. stalls' \in [Firings -> 0 .. MAX_STALLED]
    BY <1>0, <2>2, <2>3
  <2>. QED BY <1>0, <2>1, <2>3, <2>4, Constants DEF FiringInv, FiringTyped
<1>2. CASE ~(i # 0 /\ stalls[i] < MAX_STALLED)
  <2>1. UNCHANGED <<queue, stalls>> /\ queue \subseteq 1 .. count.firings
    BY <1>2 DEF putBack, FiringInv, FiringTyped
  <2>2. \A j \in Firings : stalls[j] \in 0 .. MAX_STALLED
    BY <1>0
  <2>. QED BY <1>0, <2>1, <2>2, Constants
<1>. QED BY <1>1, <1>2

LEMMA StallFiring == ASSUME FiringInv, NEW k \in Workers, Stall(k) PROVE FiringInv'
<1>1. trigger[k].job \in 0 .. count.firings /\ UNCHANGED <<trigger, scans, count>>
  BY DEF Stall, FiringInv, FiringTyped
<1>2. /\ queue' \subseteq 1 .. count.firings /\ stalls' \in [Firings -> 0 .. MAX_STALLED]
      /\ \A j \in Firings : \/ (j \in queue' <=> j \in queue) /\ stalls'[j] >= stalls[j]
                            \/ stalls'[j] = stalls[j] + 1
  BY <1>1, PutBack DEF Stall
<1>3. FiringTyped'
  BY <1>1, <1>2 DEF FiringInv, FiringTyped
<1>4. \A j : holders(j)' = holders(j)
  BY <1>1 DEF holders
<1>5. Paid'
  <2>. SUFFICES ASSUME NEW j \in Firings
       PROVE  scans[j] + Cardinality(holders(j)) + (IF j \in queue' THEN 1 ELSE 0) <= 1 + stalls'[j]
    BY <1>1, <1>4 DEF Paid, FiringInv, Firings
  <2>1. /\ scans[j] \in Nat /\ stalls[j] \in Nat /\ stalls'[j] \in Nat
        /\ Cardinality(holders(j)) \in Nat
    BY <1>2, HoldersFinite DEF FiringInv, FiringTyped
  <2>2. CASE (j \in queue' <=> j \in queue) /\ stalls'[j] >= stalls[j]
    BY <2>1, <2>2 DEF FiringInv, Paid
  <2>3. CASE stalls'[j] = stalls[j] + 1
    BY <2>1, <2>3 DEF FiringInv, Paid
  <2>. QED BY <1>2, <2>2, <2>3
<1>. QED BY <1>3, <1>5 DEF FiringInv

LEMMA CrashFiring == ASSUME FiringInv, NEW k \in Workers, Crash(k) PROVE FiringInv'
<1>0. /\ NoTrigger \in [pc : {"idle", "get", "create", "start"}, job : 0 .. MaxFirings]
      /\ NoTrigger.pc = "idle" /\ NoTrigger.job = 0
  BY Constants DEF NoTrigger
<1>1. /\ trigger[k].job \in 0 .. count.firings /\ count.firings \in Nat /\ UNCHANGED scans
      /\ trigger' = [trigger EXCEPT ![k] = NoTrigger]
      /\ count' \in [requests : Nat, firings : 0 .. MaxFirings, crashes : Nat]
      /\ count'.firings = count.firings
  BY DEF Crash, FiringInv, FiringTyped
<1>2. /\ queue' \subseteq 1 .. count.firings /\ stalls' \in [Firings -> 0 .. MAX_STALLED]
      /\ \A j \in Firings : \/ (j \in queue' <=> j \in queue) /\ stalls'[j] >= stalls[j]
                            \/ stalls'[j] = stalls[j] + 1
  <2>1. CASE putBack(trigger[k].job)
    BY <1>1, <2>1, PutBack
  <2>2. CASE UNCHANGED <<queue, stalls>>
    BY <2>2, Constants DEF FiringInv, FiringTyped
  <2>. QED BY <2>1, <2>2 DEF Crash
<1>3. FiringTyped'
  BY <1>0, <1>1, <1>2, TriggerTyped DEF FiringInv, FiringTyped
<1>4. Paid'
  <2>. SUFFICES ASSUME NEW j \in Firings
       PROVE  scans[j] + Cardinality(holders(j)') + (IF j \in queue' THEN 1 ELSE 0) <= 1 + stalls'[j]
    BY <1>1 DEF Paid, FiringInv, Firings
  <2>1. /\ scans[j] \in Nat /\ stalls[j] \in Nat /\ stalls'[j] \in Nat
        /\ Cardinality(holders(j)) \in Nat
    BY <1>2, HoldersFinite DEF FiringInv, FiringTyped
  <2>2. Cardinality(holders(j)') <= Cardinality(holders(j)) /\ Cardinality(holders(j)') \in Nat
    <3>1. holders(j)' = holders(j) \ {k}
      BY <1>0, <1>1, HoldersStep
    <3>. QED BY <3>1, HoldersCount
  <2>3. CASE (j \in queue' <=> j \in queue) /\ stalls'[j] >= stalls[j]
    BY <2>1, <2>2, <2>3 DEF FiringInv, Paid
  <2>4. CASE stalls'[j] = stalls[j] + 1
    BY <2>1, <2>2, <2>4 DEF FiringInv, Paid
  <2>. QED BY <1>2, <2>3, <2>4
<1>. QED BY <1>3, <1>4 DEF FiringInv

-----------------------------------------------------------------------------
(* The properties *)

LEMMA InitInv == Init => Inv
  BY InitStore, InitFiring DEF Inv

LEMMA NextInv == Inv /\ [Next]_vars => Inv'
<1>. SUFFICES ASSUME Inv, [Next]_vars PROVE Inv'
  OBVIOUS
<1>. USE DEF Inv
<1>0. count.requests \in Nat /\ count = [count EXCEPT !.requests = count.requests]
      /\ api \in [Handlers -> Requests]
  BY DEF FiringInv, FiringTyped, StoreInv, StoreTyped
<1>1. CASE UNCHANGED vars
  BY <1>0, <1>1, StoreRest, FiringRest DEF vars
<1>2. ASSUME NEW h \in Handlers, Put(h) \/ Delete(h) PROVE Inv'
  <2>1. UNCHANGED firing /\ count' = [count EXCEPT !.requests = count.requests + 1]
    BY <1>0, <1>2 DEF Put, Delete, Serve
  <2>2. FiringInv'
    BY <1>0, <2>1, FiringRest
  <2>. QED BY <1>2, <2>2, ServeStore
<1>3. ASSUME NEW h \in Handlers, Save(h) PROVE Inv'
  <2>1. FiringInv'
    BY <1>0, <1>3, FiringRest DEF Save
  <2>. QED BY <1>3, <2>1, SaveStore
<1>4. ASSUME NEW k \in Workers, Boot(k) \/ Sync(k) PROVE Inv'
  <2>1. UNCHANGED firing /\ count' = count
    BY <1>4 DEF Boot, Sync, Upsert, Prune, Unschedule, Refresh, SaveNext, SyncFails
  <2>2. FiringInv'
    BY <1>0, <2>1, FiringRest
  <2>. QED BY <1>4, <2>2, BootStore, SyncStore
<1>5. ASSUME NEW k \in Workers, Take(k) \/ Handle(k) \/ Stall(k) PROVE Inv'
  <2>1. UNCHANGED <<schedule, repeat, sync, calm>> /\ api' \in [Handlers -> Requests]
    BY <1>0, <1>5 DEF Take, Handle, Get, Create, Start, Stall
  <2>. QED BY <1>5, <2>1, StoreRest, TakeFiring, HandleFiring, StallFiring
<1>6. ASSUME NEW k \in Workers, Crash(k) PROVE Inv'
  BY <1>6, CrashStore, CrashFiring
<1>7. CASE Fire
  BY <1>0, <1>7, StoreRest, FireFiring DEF Fire
<1>. QED BY <1>1, <1>2, <1>3, <1>4, <1>5, <1>6, <1>7 DEF Next

\* Every variable has its type: through replacements, deletions and the rows that
\* late syncs write back, a row shows a next run exactly when it is enabled, and no
\* firing is put back more often than the queue allows.
THEOREM TypeCorrect == Spec => []TypeOK
<1>1. Inv => TypeOK
  <2>. SUFFICES ASSUME Inv PROVE TypeOK
    OBVIOUS
  <2>1. schedule \in Rows
    BY DEF Inv, StoreInv, StoreTyped
  <2>. QED BY <2>1 DEF Inv, StoreInv, StoreTyped, FiringInv, FiringTyped, TypeOK, Rows
<1>. QED BY <1>1, InitInv, NextInv, PTL DEF Spec

\* When a sync that nobody wrote into is over, the queue fires the schedule exactly
\* if it is enabled, and with its cron expression, whatever earlier syncs, their
\* failures and crashes left behind.
THEOREM SyncsReconcile == Spec => []SyncReconciles
<1>1. Inv => SyncReconciles
  BY DEF Inv, StoreInv, CalmKnows, Knows, wanted, SyncReconciles, at
<1>. QED BY <1>1, InitInv, NextInv, PTL DEF Spec

\* A firing creates one scan, and one more for each time it was put back.
THEOREM ScansArePaid == Spec => []ScansPerFiring
<1>1. Inv => ScansPerFiring
  <2>. SUFFICES ASSUME Inv, NEW j \in Firings PROVE scans[j] <= 1 + stalls[j]
    BY DEF ScansPerFiring
  <2>1. scans[j] \in Nat /\ stalls[j] \in Nat /\ Cardinality(holders(j)) \in Nat
    BY HoldersFinite DEF Inv, FiringInv, FiringTyped
  <2>. QED BY <2>1 DEF Inv, FiringInv, Paid
<1>. QED BY <1>1, InitInv, NextInv, PTL DEF Spec

-----------------------------------------------------------------------------
(* The least and the greatest number of a set, which stand in for induction *)

LEMMA LeastNat ==
  ASSUME NEW T \in SUBSET Nat, T # {}
  PROVE  \E x \in T : \A y \in T : x <= y
<1>. DEFINE R == OpToRel(<, Nat)
<1>1. \A x, y \in Nat : x < y => <<x, y>> \in R
  BY DEF OpToRel
<1>2. IsWellFoundedOn(R, Nat)
  BY NatLessThanWellFounded, Zenon
<1>. HIDE DEF R
<1>3. PICK x \in T : \A y \in T : <<y, x>> \notin R
  BY <1>2, WFMin
<1>4. ASSUME NEW y \in T PROVE x <= y
  <2>1. ~(y < x)
    BY <1>1, <1>3
  <2>. QED BY <2>1
<1>. QED BY <1>4

LEMMA GreatestNat ==
  ASSUME NEW n \in Nat, NEW T \in SUBSET (0 .. n), T # {}
  PROVE  \E x \in T : \A y \in T : y <= x
<1>. DEFINE U == {u \in 0 .. n : n - u \in T}
<1>1. ASSUME NEW y \in T PROVE n - y \in U
  <2>1. n - y \in 0 .. n /\ n - (n - y) = y
    OBVIOUS
  <2>. QED BY <2>1
<1>2. U \in SUBSET Nat
  OBVIOUS
<1>. HIDE DEF U
<1>6. U # {}
  <2>1. PICK y \in T : TRUE
    OBVIOUS
  <2>. QED BY <1>1, <2>1
<1>3. PICK u \in U : \A v \in U : u <= v
  BY <1>2, <1>6, LeastNat
<1>. USE DEF U
<1>4. ASSUME NEW y \in T PROVE y <= n - u
  <2>1. u <= n - y /\ u \in Int /\ y \in Int
    BY <1>1, <1>3
  <2>. QED BY <2>1
<1>5. n - u \in T
  BY <1>3
<1>. QED BY <1>4, <1>5

\* What first gives for a set of instants.
LEMMA FirstOf ==
  ASSUME NEW T \in SUBSET Nat
  PROVE  /\ T = {} => first(T) = Never
         /\ T # {} => first(T) \in T /\ \A y \in T : first(T) <= y
<1>1. CASE T # {}
  <2>1. \E x \in T : \A y \in T : x =< y
    BY <1>1, LeastNat
  <2>. QED BY <1>1, <2>1 DEF first, Min
<1>. QED BY <1>1 DEF first

LEMMA FirstIs ==
  ASSUME NEW T \in SUBSET Nat, NEW x \in T, \A y \in T : x <= y
  PROVE  first(T) = x
<1>1. first(T) \in T /\ first(T) <= x
  BY FirstOf
<1>2. first(T) \in Nat /\ x \in Nat /\ x <= first(T)
  BY <1>1
<1>. QED BY <1>1, <1>2

-----------------------------------------------------------------------------
(* The calendar *)

LEMMA Calendar ==
  /\ YearMonths \in Nat \ {0} /\ WeekDays \in Nat \ {0} /\ DayHours \in Nat \ {0}
  /\ HourMinutes \in Nat \ {0} /\ Minute \in Nat \ {0} /\ Hour \in Nat \ {0} /\ Day \in Nat \ {0}
  /\ Hour = HourMinutes * Minute /\ Day = DayHours * Hour
  /\ Months \in Nat \ {0} /\ DOMAIN FirstDay = 1 .. Months + 1
  /\ \A m \in 1 .. Months + 1 : FirstDay[m] \in Nat
  /\ FirstDay[1] = 0 /\ Horizon \in Nat
  /\ \A m, n \in 1 .. Months + 1 : m < n => FirstDay[m] < FirstDay[n]
<1>1. HourMinutes \in Nat \ {0} /\ Minute \in Nat \ {0} /\ DayHours \in Nat \ {0}
  BY CalendarAssumption DEF Minute
<1>2. Hour \in Nat \ {0}
  BY <1>1 DEF Hour
<1>3. Day \in Nat \ {0}
  BY <1>1, <1>2 DEF Day
<1>4. Months \in Nat \ {0} /\ DOMAIN FirstDay = 1 .. Months + 1
  BY CalendarAssumption DEF Months
<1>5. ASSUME NEW m \in 1 .. Months + 1 PROVE FirstDay[m] \in Nat
  <2>1. FirstDay \in Seq(Nat) /\ m \in DOMAIN FirstDay
    BY CalendarAssumption, <1>4
  <2>. QED BY <2>1
<1>. QED BY CalendarAssumption, <1>1, <1>2, <1>3, <1>4, <1>5 DEF Hour, Day

\* The instants of a unit are those from its start to the start of the next.
LEMMA Unit ==
  ASSUME NEW D \in Nat \ {0}, NEW t \in Nat
  PROVE  /\ t \div D \in Nat /\ (t \div D) * D \in Nat /\ (t \div D + 1) * D \in Nat
         /\ (t \div D) * D <= t /\ t < (t \div D + 1) * D
         /\ t % D = t - (t \div D) * D
         /\ ((t \div D) * D) \div D = t \div D
  OBVIOUS

LEMMA SameUnit ==
  ASSUME NEW D \in Nat \ {0}, NEW t \in Nat, NEW u \in Nat, t <= u, u < (t \div D + 1) * D
  PROVE  u \div D = t \div D
  OBVIOUS

LEMMA Multiples ==
  ASSUME NEW D \in Nat \ {0}, NEW j \in Nat, NEW k \in Nat, j <= k
  PROVE  j * D \in Nat /\ j * D <= k * D
  OBVIOUS

\* A unit lies within one larger unit.
LEMMA Nested ==
  ASSUME NEW D \in Nat \ {0}, NEW n \in Nat \ {0}, NEW t \in Nat, NEW u \in Nat,
         t \div D = u \div D
  PROVE  t \div (n * D) = u \div (n * D)
<1>. DEFINE E == n * D
            q == t \div D
<1>1. E \in Nat \ {0} /\ q \in Nat
  OBVIOUS
<1>2. ASSUME NEW v \in Nat, v \div D = q PROVE v \div E = q \div n
  <2>. DEFINE a == q \div n
              b == q % n
  <2>1. a \in Nat /\ b \in 0 .. n - 1 /\ q = n * a + b
    BY <1>1
  <2>2. PICK r \in 0 .. D - 1 : v = D * q + r
    BY <1>2
  <2>. HIDE DEF a, b, q
  <2>3. D * q = D * (n * a) + D * b
    BY <1>1, <2>1
  <2>4. D * (n * a) = E * a
    BY <2>1
  <2>5. D * b \in Nat /\ D * b <= D * (n - 1) /\ D * (n - 1) = E - D
    BY <2>1
  <2>6. D * b + r \in 0 .. E - 1 /\ v = E * a + (D * b + r)
    <3>. HIDE DEF E
    <3>. QED BY <1>1, <2>1, <2>2, <2>3, <2>4, <2>5
  <2>7. v \div E = a
    <3>. HIDE DEF E
    <3>. QED BY <1>1, <2>1, <2>6
  <2>. QED BY <2>7 DEF a
<1>. QED BY <1>2

\* The start of the next unit is no later than a multiple of the unit that is later.
LEMMA NextUnit ==
  ASSUME NEW D \in Nat \ {0}, NEW t \in Nat, NEW k \in Nat, t < k * D
  PROVE  t \div D + 1 <= k /\ (t \div D + 1) * D <= k * D
  OBVIOUS

LEMMA EndIs ==
  /\ End \in Nat /\ End = FirstDay[Months + 1] * Day /\ FirstDay[Months + 1] \in Nat
  /\ \E k \in Nat : End = k * Hour
  /\ \E k \in Nat : End = k * Minute
<1>. DEFINE d == FirstDay[Months + 1]
<1>1. d \in Nat /\ Months + 1 \in 1 .. Months + 1
  BY Calendar
<1>2. End = d * Day
  BY DEF End
<1>. HIDE DEF d
<1>3. d * DayHours \in Nat /\ End = (d * DayHours) * Hour
  BY <1>1, <1>2, Calendar
<1>4. (d * DayHours) * HourMinutes \in Nat
  BY <1>3, Calendar
<1>5. End = ((d * DayHours) * HourMinutes) * Minute
  <2>. DEFINE e == d * DayHours
  <2>1. e \in Nat /\ End = e * Hour
    BY <1>3
  <2>. HIDE DEF e
  <2>2. End = (e * HourMinutes) * Minute
    BY <2>1, Calendar
  <2>. QED BY <2>2 DEF e
<1>6. End \in Nat
  BY <1>1, <1>2, Calendar
<1>. QED BY <1>1, <1>2, <1>3, <1>4, <1>5, <1>6 DEF d

\* An instant of the calendar is in one month.
LEMMA MonthIs ==
  ASSUME NEW t \in 0 .. End - 1
  PROVE  /\ day(t) \in Nat
         /\ month(t) \in 1 .. Months
         /\ FirstDay[month(t)] <= day(t) /\ day(t) < FirstDay[month(t) + 1]
<1>1. day(t) \in Nat /\ day(t) < FirstDay[Months + 1]
  <2>1. t < FirstDay[Months + 1] * Day /\ FirstDay[Months + 1] \in Nat
    BY EndIs
  <2>2. t \div Day + 1 <= FirstDay[Months + 1]
    BY <2>1, NextUnit, Calendar
  <2>3. t \div Day \in Nat
    <3>1. t \in Nat /\ Day \in Nat \ {0}
      BY EndIs, Calendar
    <3>. QED BY <3>1, Unit
  <2>. QED BY <2>1, <2>2, <2>3 DEF day
<1>. DEFINE T == {m \in 0 .. Months : m # 0 /\ FirstDay[m] <= day(t)}
<1>2. 1 \in T
  BY <1>1, Calendar
<1>3. PICK m \in T : \A n \in T : n <= m
  <2>1. Months \in Nat /\ T \in SUBSET (0 .. Months) /\ T # {}
    BY <1>2, Calendar
  <2>. QED BY <2>1, GreatestNat
<1>4. m \in 1 .. Months /\ FirstDay[m] <= day(t)
  BY Calendar
<1>5. day(t) < FirstDay[m + 1]
  <2>1. m + 1 \in 1 .. Months + 1 /\ FirstDay[m + 1] \in Nat
    BY <1>4, Calendar
  <2>2. CASE m = Months
    BY <1>1, <2>2
  <2>3. CASE m # Months
    <3>1. m + 1 \in 0 .. Months /\ m + 1 # 0 /\ ~(m + 1 <= m)
      BY <1>4, <2>3, Calendar
    <3>2. ~(FirstDay[m + 1] <= day(t))
      BY <1>3, <3>1
    <3>. QED BY <1>1, <2>1, <3>2
  <2>. QED BY <2>2, <2>3
<1>. HIDE DEF T
<1>. QED BY <1>1, <1>4, <1>5 DEF month

LEMMA MonthOnly ==
  ASSUME NEW t \in 0 .. End - 1, NEW m \in 1 .. Months,
         FirstDay[m] <= day(t), day(t) < FirstDay[m + 1]
  PROVE  month(t) = m
<1>. DEFINE n == month(t)
<1>1. /\ n \in 1 .. Months /\ day(t) \in Nat
      /\ FirstDay[n] <= day(t) /\ day(t) < FirstDay[n + 1]
  BY MonthIs
<1>. HIDE DEF n
<1>2. \A i, j \in 1 .. Months : i < j => FirstDay[i + 1] <= FirstDay[j]
  <2>. SUFFICES ASSUME NEW i \in 1 .. Months, NEW j \in 1 .. Months, i < j
                PROVE  FirstDay[i + 1] <= FirstDay[j]
    OBVIOUS
  <2>1. i + 1 \in 1 .. Months + 1 /\ j \in 1 .. Months + 1 /\ (i + 1 = j \/ i + 1 < j)
    BY Calendar
  <2>2. FirstDay[i + 1] \in Nat /\ FirstDay[j] \in Nat
    BY <2>1, Calendar
  <2>3. i + 1 < j => FirstDay[i + 1] < FirstDay[j]
    BY <2>1, Calendar
  <2>. QED BY <2>1, <2>2, <2>3
<1>3. /\ FirstDay[m] \in Nat /\ FirstDay[m + 1] \in Nat
      /\ FirstDay[n] \in Nat /\ FirstDay[n + 1] \in Nat
  BY <1>1, Calendar
<1>4. ~(m < n) /\ ~(n < m)
  BY <1>1, <1>2, <1>3
<1>5. n = m
  BY <1>1, <1>4
<1>. QED BY <1>5 DEF n

\* Instants of one day, hour or minute agree on the fields of that unit and of the
\* larger ones.
LEMMA SameDay ==
  ASSUME NEW t \in 0 .. End - 1, NEW u \in 0 .. End - 1, day(u) = day(t)
  PROVE  month(u) = month(t) /\ date(u) = date(t) /\ monthOfYear(u) = monthOfYear(t)
<1>1. month(u) = month(t)
  BY MonthIs, MonthOnly
<1>. QED BY <1>1 DEF date, monthOfYear

LEMMA SameHour ==
  ASSUME NEW t \in Nat, NEW u \in Nat, u \div Hour = t \div Hour
  PROVE  day(u) = day(t) /\ hour(u) = hour(t)
<1>0. DayHours \in Nat \ {0} /\ Hour \in Nat \ {0}
  BY Calendar
<1>1. t \div (DayHours * Hour) = u \div (DayHours * Hour)
  BY <1>0, Nested
<1>2. u \div Day = t \div Day
  BY <1>1, Calendar
<1>. QED BY <1>2 DEF day, hour

LEMMA SameMinute ==
  ASSUME NEW t \in Nat, NEW u \in Nat, u \div Minute = t \div Minute
  PROVE  day(u) = day(t) /\ hour(u) = hour(t) /\ minute(u) = minute(t)
<1>0. HourMinutes \in Nat \ {0} /\ Minute \in Nat \ {0}
  BY Calendar
<1>1. t \div (HourMinutes * Minute) = u \div (HourMinutes * Minute)
  BY <1>0, Nested
<1>2. u \div Hour = t \div Hour
  BY <1>1, Calendar
<1>. QED BY <1>2, SameHour DEF minute

-----------------------------------------------------------------------------
(* The evaluator *)

\* The fields the loop compares.
matches(f, t) ==
  /\ monthOfYear(t) \in f.month /\ dayMatches(t, f)
  /\ hour(t) \in f.hour /\ minute(t) \in f.minute
  /\ f.hasSeconds => second(t) \in f.second

LEMMA SameDayMatches ==
  ASSUME NEW f, NEW t \in 0 .. End - 1, NEW u \in 0 .. End - 1, day(u) = day(t)
  PROVE  dayMatches(u, f) <=> dayMatches(t, f)
<1>1. date(u) = date(t)
  BY SameDay
<1>. QED BY <1>1 DEF dayMatches

\* A round stops where every field matches, and otherwise skips nothing that does.
LEMMA Advance ==
  ASSUME NEW f, NEW t \in 0 .. End - 1
  PROVE  /\ matches(f, t) => advance(f, t) = t
         /\ ~matches(f, t) => /\ advance(f, t) \in t + 1 .. End
                              /\ \A u \in t .. advance(f, t) - 1 : ~matches(f, u)
<1>0. t \in Nat /\ End \in Nat /\ t < End
  BY EndIs
<1>1. CASE monthOfYear(t) \notin f.month
  <2>. DEFINE m == month(t)
              n == FirstDay[m + 1]
              next == n * Day
  <2>1. /\ m \in 1 .. Months /\ day(t) \in Nat /\ FirstDay[m] \in Nat /\ n \in Nat
        /\ FirstDay[m] <= day(t) /\ day(t) < n /\ m + 1 \in 1 .. Months + 1
    BY MonthIs, Calendar
  <2>2. n <= FirstDay[Months + 1] /\ FirstDay[Months + 1] \in Nat
    <3>1. m + 1 = Months + 1 \/ m + 1 < Months + 1
      BY <2>1, Calendar
    <3>2. Months + 1 \in 1 .. Months + 1 /\ FirstDay[Months + 1] \in Nat
      BY Calendar
    <3>3. m + 1 < Months + 1 => n < FirstDay[Months + 1]
      BY <2>1, <3>2, Calendar
    <3>. QED BY <2>1, <3>1, <3>2, <3>3
  <2>. HIDE DEF n
  <2>3. next \in Nat /\ next <= End
    <3>1. n * Day <= FirstDay[Months + 1] * Day /\ n * Day \in Nat
      BY <2>1, <2>2, Calendar, Multiples
    <3>. QED BY <3>1, EndIs
  <2>4. t < next
    <3>1. t < (day(t) + 1) * Day
      BY <1>0, Unit, Calendar DEF day
    <3>2. (day(t) + 1) * Day <= n * Day /\ (day(t) + 1) * Day \in Nat
      <4>1. day(t) + 1 \in Nat /\ day(t) + 1 <= n
        BY <2>1
      <4>. QED BY <2>1, <4>1, Calendar, Multiples
    <3>. QED BY <1>0, <2>3, <3>1, <3>2
  <2>5. ASSUME NEW u \in t .. next - 1 PROVE ~matches(f, u)
    <3>1. u \in 0 .. End - 1 /\ u \in Nat /\ u < n * Day /\ t <= u
      BY <1>0, <2>3
    <3>2. day(u) + 1 <= n
      BY <2>1, <3>1, NextUnit, Calendar DEF day
    <3>3. day(t) <= day(u) /\ day(u) \in Nat
      BY <1>0, <3>1, Calendar DEF day
    <3>4. FirstDay[m] <= day(u) /\ day(u) < FirstDay[m + 1]
      BY <2>1, <3>2, <3>3 DEF n
    <3>5. month(u) = m
      BY <2>1, <3>1, <3>4, MonthOnly
    <3>. QED BY <1>1, <3>5 DEF matches, monthOfYear
  <2>6. advance(f, t) = next
    BY <1>1 DEF advance, n
  <2>7. next \in t + 1 .. End
    BY <1>0, <2>3, <2>4
  <2>. HIDE DEF next
  <2>. QED BY <1>1, <2>5, <2>6, <2>7 DEF matches
<1>. DEFINE Skips(D) ==
       LET next == (t \div D + 1) * D
       IN next \in t + 1 .. End /\ \A u \in t .. next - 1 : u \in 0 .. End - 1 /\ u \div D = t \div D
<1>2. ASSUME NEW D \in Nat \ {0}, NEW k \in Nat, End = k * D PROVE Skips(D)
  <2>. DEFINE next == (t \div D + 1) * D
  <2>1. t < next /\ next \in Nat
    BY <1>0, Unit
  <2>2. next <= End
    BY <1>0, <1>2, NextUnit
  <2>3. ASSUME NEW u \in t .. next - 1 PROVE u \in 0 .. End - 1 /\ u \div D = t \div D
    <3>1. u \in Nat /\ u < next /\ t <= u
      BY <1>0, <2>1
    <3>2. u \div D = t \div D
      BY <1>0, <3>1, SameUnit
    <3>. HIDE DEF next
    <3>. QED BY <1>0, <2>1, <2>2, <3>1, <3>2
  <2>. QED BY <1>0, <2>1, <2>2, <2>3
<1>3. Skips(Day) /\ Skips(Hour) /\ Skips(Minute)
  BY <1>2, EndIs, Calendar
<1>4. CASE monthOfYear(t) \in f.month /\ ~dayMatches(t, f)
  <2>1. advance(f, t) = (t \div Day + 1) * Day
    BY <1>4 DEF advance, day
  <2>2. \A u \in 0 .. End - 1 : u \div Day = t \div Day => ~matches(f, u)
    BY <1>4, SameDayMatches DEF matches, day
  <2>. QED BY <1>3, <1>4, <2>1, <2>2 DEF matches
<1>5. CASE monthOfYear(t) \in f.month /\ dayMatches(t, f) /\ hour(t) \notin f.hour
  <2>1. advance(f, t) = (t \div Hour + 1) * Hour
    BY <1>5 DEF advance
  <2>2. \A u \in 0 .. End - 1 : u \div Hour = t \div Hour => ~matches(f, u)
    BY <1>5, SameHour DEF matches
  <2>. QED BY <1>3, <1>5, <2>1, <2>2 DEF matches
<1>6. CASE /\ monthOfYear(t) \in f.month /\ dayMatches(t, f)
           /\ hour(t) \in f.hour /\ minute(t) \notin f.minute
  <2>1. advance(f, t) = (t \div Minute + 1) * Minute
    BY <1>6 DEF advance
  <2>2. \A u \in 0 .. End - 1 : u \div Minute = t \div Minute => ~matches(f, u)
    BY <1>6, SameMinute DEF matches
  <2>. QED BY <1>3, <1>6, <2>1, <2>2 DEF matches
<1>7. CASE /\ monthOfYear(t) \in f.month /\ dayMatches(t, f)
           /\ hour(t) \in f.hour /\ minute(t) \in f.minute
  <2>1. CASE f.hasSeconds /\ second(t) \notin f.second
    <3>1. advance(f, t) = t + 1 /\ ~matches(f, t)
      BY <1>7, <2>1 DEF advance, matches
    <3>2. \A u \in t .. (t + 1) - 1 : u = t
      BY <1>0
    <3>. QED BY <1>0, <3>1, <3>2
  <2>2. CASE ~(f.hasSeconds /\ second(t) \notin f.second)
    BY <1>7, <2>2 DEF advance, matches
  <2>. QED BY <2>1, <2>2
<1>. QED BY <1>1, <1>4, <1>5, <1>6, <1>7

\* The instants the loop may stop at, from t on.
hits(f, limit, t) == {u \in t .. limit : u < End /\ matches(f, u)}

LEMMA SearchFinds ==
  ASSUME NEW f, NEW limit \in Nat
  PROVE  \A t \in 0 .. End : search(f, limit)[t] = first(hits(f, limit, t))
<1>. DEFINE G == [t \in 0 .. End |-> first(hits(f, limit, t))]
            Step(r, t) == IF t > limit \/ t = End THEN Never
                          ELSE IF advance(f, t) = t THEN t ELSE r[advance(f, t)]
            run == search(f, limit)
<1>0. End \in Nat
  BY EndIs
<1>1. \A t \in 0 .. End : hits(f, limit, t) \in SUBSET Nat
  BY <1>0 DEF hits
<1>2. ASSUME NEW t \in 0 .. End PROVE G[t] = Step(G, t)
  <2>1. CASE t > limit \/ t = End
    <3>1. hits(f, limit, t) = {}
      BY <1>0, <2>1 DEF hits
    <3>. QED BY <2>1, <3>1 DEF first
  <2>2. CASE ~(t > limit \/ t = End) /\ matches(f, t)
    <3>1. t \in 0 .. End - 1 /\ t \in t .. limit /\ t < End
      BY <1>0, <2>2
    <3>2. advance(f, t) = t
      BY <2>2, <3>1, Advance
    <3>3. t \in hits(f, limit, t) /\ \A y \in hits(f, limit, t) : t <= y
      BY <2>2, <3>1 DEF hits
    <3>4. first(hits(f, limit, t)) = t
      BY <1>1, <3>3, FirstIs
    <3>. QED BY <2>2, <3>2, <3>4
  <2>3. CASE ~(t > limit \/ t = End) /\ ~matches(f, t)
    <3>. DEFINE n == advance(f, t)
    <3>1. t \in 0 .. End - 1
      BY <1>0, <2>3
    <3>2. n \in t + 1 .. End /\ \A u \in t .. n - 1 : ~matches(f, u)
      BY <2>3, <3>1, Advance
    <3>. HIDE DEF n
    <3>3. hits(f, limit, n) = hits(f, limit, t)
      BY <1>0, <3>1, <3>2 DEF hits
    <3>4. n \in 0 .. End /\ n # t
      BY <1>0, <3>1, <3>2
    <3>5. Step(G, t) = G[n]
      BY <2>3, <3>4 DEF n
    <3>. QED BY <3>3, <3>4, <3>5
  <2>. QED BY <2>1, <2>2, <2>3
<1>3. run = [t \in 0 .. End |-> Step(run, t)]
  <2>1. G = [t \in 0 .. End |-> Step(G, t)]
    BY <1>2
  <2>. HIDE DEF G
  <2>. QED BY <2>1 DEF search
<1>. HIDE DEF run
<1>4. SUFFICES ASSUME \E t \in 0 .. End : run[t] # G[t] PROVE FALSE
  BY DEF run
<1>. DEFINE B == {t \in 0 .. End : run[t] # G[t]}
<1>5. PICK b \in B : \A y \in B : y <= b
  <2>1. B \in SUBSET (0 .. End) /\ B # {}
    BY <1>4
  <2>. HIDE DEF B
  <2>. QED BY <1>0, <2>1, GreatestNat
<1>6. b \in 0 .. End /\ run[b] # G[b]
  BY <1>5
<1>7. run[b] = Step(run, b) /\ G[b] = Step(G, b)
  BY <1>2, <1>3, <1>6
<1>8. ~(b > limit \/ b = End) /\ advance(f, b) # b /\ run[advance(f, b)] # G[advance(f, b)]
  <2>. HIDE DEF G
  <2>. QED BY <1>6, <1>7
<1>9. advance(f, b) \in b + 1 .. End
  BY <1>0, <1>6, <1>8, Advance
<1>10. advance(f, b) \in B
  BY <1>0, <1>6, <1>8, <1>9
<1>. QED BY <1>0, <1>5, <1>6, <1>9, <1>10

\* Without a field of seconds the loop starts and stops at whole minutes.
LEMMA WholeMinutes ==
  ASSUME NEW f, NEW from \in 0 .. End - 1, NEW limit \in Nat,
         ~f.hasSeconds, f.second = {0}
  PROVE  first(hits(f, limit, (from \div Minute + 1) * Minute))
           = first({t \in from + 1 .. limit : t < End /\ fires(f, t)})
<1>. DEFINE start == (from \div Minute + 1) * Minute
            H == hits(f, limit, start)
            T == {t \in from + 1 .. limit : t < End /\ fires(f, t)}
<1>0. from \in Nat /\ End \in Nat /\ Minute \in Nat \ {0}
  BY EndIs, Calendar
<1>1. start \in Nat /\ from < start
  BY <1>0, Unit
<1>2. ASSUME NEW t \in T PROVE t \in H
  <2>1. t \in Nat /\ t <= limit /\ from < t /\ t < End /\ fires(f, t)
    BY <1>0
  <2>2. t % Minute = 0
    BY <2>1 DEF fires, second
  <2>3. t \div Minute \in Nat /\ t = (t \div Minute) * Minute
    <3>1. t \div Minute \in Nat /\ (t \div Minute) * Minute \in Nat
      BY <1>0, <2>1, Unit
    <3>2. t % Minute = t - (t \div Minute) * Minute
      BY <1>0, <2>1, Unit
    <3>. QED BY <2>1, <2>2, <3>1, <3>2
  <2>4. start <= t
    BY <1>0, <2>1, <2>3, NextUnit
  <2>5. matches(f, t)
    BY <2>1 DEF fires, matches
  <2>. HIDE DEF start
  <2>. QED BY <1>1, <2>1, <2>4, <2>5 DEF hits
<1>3. H \in SUBSET Nat /\ T \in SUBSET Nat
  <2>. HIDE DEF start
  <2>. QED BY <1>0, <1>1 DEF hits
<1>4. CASE H = {}
  <2>1. T = {}
    BY <1>2, <1>4
  <2>. QED BY <1>4, <2>1
<1>5. CASE H # {}
  <2>. DEFINE x == first(H)
              y == (x \div Minute) * Minute
  <2>1. x \in H /\ \A z \in H : x <= z
    BY <1>3, <1>5, FirstOf
  <2>. HIDE DEF x
  <2>2. x \in Nat /\ start <= x /\ x <= limit /\ x < End /\ matches(f, x)
    <3>. HIDE DEF start
    <3>. QED BY <1>1, <2>1 DEF hits
  <2>3. x \div Minute \in Nat /\ y \in Nat /\ y <= x /\ y \div Minute = x \div Minute
    <3>1. x \in Nat
      BY <2>2
    <3>. QED BY <1>0, <3>1, Unit
  <2>4. start <= y
    <3>1. from \div Minute \in Nat /\ from \div Minute + 1 \in Nat
      BY <1>0, Unit
    <3>2. from \div Minute + 1 <= x \div Minute
      <4>1. x < (x \div Minute + 1) * Minute
        BY <1>0, <2>2, Unit
      <4>2. from < (x \div Minute + 1) * Minute
        BY <1>0, <1>1, <2>2, <2>3, <4>1
      <4>3. ~(x \div Minute < from \div Minute + 1)
        <5>. SUFFICES ASSUME x \div Minute < from \div Minute + 1 PROVE FALSE
          OBVIOUS
        <5>1. x \div Minute + 1 \in Nat /\ x \div Minute + 1 <= from \div Minute + 1
          BY <2>3, <3>1
        <5>2. (x \div Minute + 1) * Minute <= start /\ (x \div Minute + 1) * Minute \in Nat
          BY <1>0, <3>1, <5>1, Multiples
        <5>. QED BY <1>1, <2>2, <4>1, <5>2
      <4>. QED BY <2>3, <3>1, <4>3
    <3>. QED BY <1>0, <2>3, <3>1, <3>2, Multiples
  <2>. HIDE DEF start, y
  <2>5. y \in H
    <3>1. x \in 0 .. End - 1 /\ y \in 0 .. End - 1
      BY <1>0, <2>2, <2>3
    <3>2. day(y) = day(x) /\ hour(y) = hour(x) /\ minute(y) = minute(x)
      BY <2>2, <2>3, SameMinute
    <3>3. monthOfYear(y) = monthOfYear(x) /\ (dayMatches(y, f) <=> dayMatches(x, f))
      BY <3>1, <3>2, SameDay, SameDayMatches
    <3>4. matches(f, y)
      BY <2>2, <3>2, <3>3 DEF matches
    <3>. QED BY <1>0, <1>1, <2>2, <2>3, <2>4, <3>4 DEF hits
  <2>6. x = y
    BY <2>1, <2>2, <2>3, <2>5
  <2>7. second(x) = 0
    BY <1>0, <2>2, <2>6, Unit DEF second, y
  <2>8. x \in T
    <3>1. fires(f, x)
      BY <2>2, <2>7 DEF matches, fires
    <3>. QED BY <1>0, <1>1, <2>2, <3>1
  <2>. HIDE DEF H, T
  <2>9. first(T) = x
    BY <1>2, <1>3, <2>1, <2>8, FirstIs
  <2>. QED BY <2>9 DEF x, H, T, start
<1>. QED BY <1>4, <1>5

\* With one, a round compares every field.
LEMMA WholeSeconds ==
  ASSUME NEW f, NEW from \in Nat, NEW limit \in Nat, f.hasSeconds
  PROVE  hits(f, limit, from + 1) = {t \in from + 1 .. limit : t < End /\ fires(f, t)}
  BY DEF hits, matches, fires

\* nextCronRun returns the first instant after the one it is given, within the
\* horizon, at which every field of the expression matches, and none if there is
\* none: for every calendar, every expression and every instant of the calendar.
\* No jump passes over an instant that matches, and the loop ends.
THEOREM NextCronRunIsFirst ==
  ASSUME NEW c, NEW from \in 0 .. End - 1
  PROVE  nextCronRun(c, from) = firstAfter(c, from)
<1>. DEFINE f == parseCron(c)
            limit == from + Horizon
            unit == IF f.hasSeconds THEN 1 ELSE Minute
            start == (from \div unit + 1) * unit
            T == {t \in from + 1 .. limit : t < End /\ fires(f, t)}
<1>1. from \in Nat /\ End \in Nat /\ limit \in Nat /\ Minute \in Nat \ {0} /\ from < End
  BY EndIs, Calendar
<1>2. nextCronRun(c, from) = search(f, limit)[start] /\ firstAfter(c, from) = first(T)
  BY DEF nextCronRun, firstAfter
<1>3. f.hasSeconds = c.hasSeconds /\ (~f.hasSeconds => f.second = {0})
  BY DEF parseCron
<1>. HIDE DEF f
<1>4. CASE f.hasSeconds
  <2>1. unit = 1 /\ start = from + 1
    BY <1>1, <1>4
  <2>2. start \in 0 .. End
    BY <1>1, <2>1
  <2>. HIDE DEF limit, start
  <2>3. search(f, limit)[start] = first(hits(f, limit, start))
    BY <1>1, <2>2, SearchFinds
  <2>4. hits(f, limit, start) = T
    BY <1>1, <1>4, <2>1, WholeSeconds
  <2>. QED BY <1>2, <2>3, <2>4
<1>5. CASE ~f.hasSeconds
  <2>1. start = (from \div Minute + 1) * Minute
    BY <1>5
  <2>2. start \in 0 .. End
    <3>1. PICK k \in Nat : End = k * Minute
      BY EndIs
    <3>2. start <= End
      BY <1>1, <2>1, <3>1, NextUnit
    <3>3. start \in Nat
      <4>1. (from \div Minute + 1) * Minute \in Nat
        BY <1>1, Unit
      <4>. QED BY <2>1, <4>1
    <3>. QED BY <1>1, <3>2, <3>3
  <2>. HIDE DEF limit, start
  <2>3. search(f, limit)[start] = first(hits(f, limit, start))
    BY <1>1, <2>2, SearchFinds
  <2>4. first(hits(f, limit, start)) = first(T)
    BY <1>1, <1>3, <1>5, <2>1, WholeMinutes
  <2>. QED BY <1>2, <2>3, <2>4
<1>. QED BY <1>4, <1>5

\* However schedules are edited, the evaluator is right about every expression an
\* edit may bring and every instant at which it may be asked.
THEOREM CronIsExact == Spec => []CronExact
<1>1. misses = {}
  <2>. SUFFICES ASSUME NEW p \in CronInputs \X Times
                PROVE  nextCronRun(p[1], p[2]) = firstAfter(p[1], p[2])
    BY DEF misses
  <2>1. p[2] \in Nat /\ p[2] + Horizon < End /\ Horizon \in Nat /\ End \in Nat
    BY CalendarAssumption, ScheduleAssumption, EndIs
  <2>2. p[2] \in 0 .. End - 1
    BY <2>1
  <2>. QED BY <2>2, NextCronRunIsFirst
<1>2. CronExact
  BY <1>1 DEF CronExact
<1>. QED BY <1>2, PTL
=============================================================================
