--------------------------- MODULE AuditLog_proofs ---------------------------
(***************************************************************************)
(* The audit log for any number of clients, writers, attempts and appends: *)
(* the chain verifies in every state, rows are never rewritten, an event   *)
(* is stored once, append() gives up only under contention, and it is      *)
(* atomic: the log implements AtomicLog.                                   *)
(***************************************************************************)
EXTENDS AuditLog, TLAPS

\* The functions and records of the state are nothing but their values.
Shape ==
  /\ rows = [c \in Clients |-> rows[c]]
  /\ last = [w \in Writers |-> last[w]]
  /\ \A c \in Clients : \A s \in DOMAIN rows[c] :
       rows[c][s] = [event |-> rows[c][s].event, prevHash |-> rows[c][s].prevHash,
                     hash |-> rows[c][s].hash]

\* A client's last sequence exists: findFirst finds the row it looks for.
Bounded ==
  \A c \in Clients :
    DOMAIN rows[c] = {} \/ \E s \in DOMAIN rows[c] : \A r \in DOMAIN rows[c] : r <= s

\* What a writer read is still in the table when it inserts, last or not.
ReadValid ==
  \A w \in Writers : pc[w] = "create" =>
    \/ last[w] = NoRow
    \/ /\ last[w].sequence \in DOMAIN rows[client[w]]
       /\ last[w].hash = rows[client[w]][last[w].sequence].hash

\* Events are numbered by call, and that of a call in progress is not stored.
Fresh ==
  /\ \A c \in Clients : \A s \in DOMAIN rows[c] : rows[c][s].event <= calls
  /\ \A e \in returned : e <= calls
  /\ \A w \in Writers : pc[w] # "idle" =>
       /\ event[w] \in 1..calls
       /\ \A c \in Clients : \A s \in DOMAIN rows[c] : rows[c][s].event # event[w]
       /\ \A v \in Writers \ {w} : pc[v] # "idle" => event[v] # event[w]

\* A lost attempt is a row committed by somebody else since the call began.
Lost ==
  \A w \in Writers :
    /\ pc[w] = "idle" => attempt[w] = 0
    /\ pc[w] # "idle" => /\ result[w] = "none"
                         /\ lastSequence(rows[client[w]]) >= began[w] + attempt[w]
    /\ pc[w] = "create" => last[w].sequence >= began[w] + attempt[w]

IInv == TypeOK /\ Shape /\ Bounded /\ ReadValid /\ ChainIntact

-----------------------------------------------------------------------------
(* Tables                                                                  *)

\* lastSequence is 0 for an empty table and otherwise its greatest index.
LEMMA LastSequence ==
  ASSUME NEW t, DOMAIN t \subseteq Nat \ {0},
         DOMAIN t = {} \/ \E s \in DOMAIN t : \A r \in DOMAIN t : r <= s
  PROVE  /\ lastSequence(t) \in Nat
         /\ \A r \in DOMAIN t : r <= lastSequence(t)
         /\ lastSequence(t) = 0 <=> DOMAIN t = {}
         /\ lastSequence(t) # 0 => lastSequence(t) \in DOMAIN t
<1>1. CASE DOMAIN t = {}
  BY <1>1 DEF lastSequence
<1>2. CASE DOMAIN t # {}
  <2>1. \E s \in DOMAIN t : \A r \in DOMAIN t : r <= s
    BY <1>2
  <2>2. /\ lastSequence(t) \in DOMAIN t
        /\ \A r \in DOMAIN t : r <= lastSequence(t)
    BY <1>2, <2>1 DEF lastSequence
  <2>. QED BY <1>2, <2>2
<1>. QED BY <1>1, <1>2

\* Inserting the successor of a row, linked to it, keeps a chain verified.
LEMMA InsertVerified ==
  ASSUME NEW t, NEW n \in Nat, NEW h, NEW e,
         DOMAIN t \subseteq Nat \ {0}, verifyChainRecords(t),
         n + 1 \notin DOMAIN t,
         \/ n = 0 /\ h = NoHash
         \/ n \in DOMAIN t /\ h = t[n].hash
  PROVE  verifyChainRecords(Insert(t, n + 1, NewRow(n + 1, h, e)))
<1>. DEFINE u == Insert(t, n + 1, NewRow(n + 1, h, e))
<1>1. /\ DOMAIN u = DOMAIN t \cup {n + 1}
      /\ u[n + 1] = NewRow(n + 1, h, e)
      /\ \A r \in DOMAIN t : u[r] = t[r]
  BY DEF Insert
<1>2. ASSUME NEW s \in DOMAIN u
      PROVE  /\ s = 1 \/ s - 1 \in DOMAIN u
             /\ u[s].prevHash = (IF s = 1 THEN NoHash ELSE u[s - 1].hash)
             /\ u[s].hash = hashAuditEvent(s, u[s].event, u[s].prevHash)
  <2>1. CASE s \in DOMAIN t
    <3>1. /\ s = 1 \/ s - 1 \in DOMAIN t
          /\ t[s].prevHash = (IF s = 1 THEN NoHash ELSE t[s - 1].hash)
          /\ t[s].hash = hashAuditEvent(s, t[s].event, t[s].prevHash)
      BY <2>1 DEF verifyChainRecords
    <3>. QED BY <1>1, <2>1, <3>1
  <2>2. CASE s = n + 1
    <3>1. /\ u[s].prevHash = h /\ u[s].event = e
          /\ u[s].hash = hashAuditEvent(s, e, h)
      BY <1>1, <2>2 DEF NewRow
    <3>2. CASE n = 0 /\ h = NoHash
      BY <2>2, <3>1, <3>2
    <3>3. CASE n \in DOMAIN t /\ h = t[n].hash
      <4>1. s # 1 /\ s - 1 = n
        BY <2>2, <3>3
      <4>2. u[s - 1].hash = h
        BY <1>1, <3>3, <4>1
      <4>. QED BY <1>1, <3>1, <3>3, <4>1, <4>2
    <3>. QED BY <3>2, <3>3
  <2>. QED BY <1>1, <2>1, <2>2
<1>. HIDE DEF u
<1>3. verifyChainRecords(u)
  BY <1>2 DEF verifyChainRecords
<1>. QED BY <1>3 DEF u
-----------------------------------------------------------------------------
(* The inductive invariant                                                 *)

\* The log starts with empty tables and no call in progress.
LEMMA InitIInv == Init => IInv
  BY AttemptsAssumption, MaxAppendsAssumption
  DEF Init, IInv, TypeOK, Shape, Bounded, ReadValid, ChainIntact, verifyChainRecords, NoRow, Events

\* A committed insert, whichever way the caller learns of it.
LEMMA StoreIInv ==
  ASSUME IInv, NEW w \in Writers, pc[w] = "create", ~Taken(w), Store(w),
         pc' = [pc EXCEPT ![w] = "idle"], client' = client,
         last' = [last EXCEPT ![w] = NoRow], event[w] \in Events
  PROVE  /\ \A c \in Clients : DOMAIN rows'[c] \subseteq Nat \ {0}
         /\ \A c \in Clients : \A s \in DOMAIN rows'[c] : rows'[c][s].event \in Events
         /\ Shape' /\ Bounded' /\ ReadValid' /\ ChainIntact'
<1>. DEFINE c0 == client[w]
            n == last[w].sequence
            h == last[w].hash
            row == NewRow(n + 1, h, event[w])
<1>1. c0 \in Clients /\ n \in Nat /\ n + 1 \notin DOMAIN rows[c0]
  BY DEF IInv, TypeOK, Taken, sequence
<1>2. rows'[c0] = Insert(rows[c0], n + 1, row)
  BY <1>1 DEF IInv, Shape, Store, sequence
<1>3. \A c \in Clients \ {c0} : rows'[c] = rows[c]
  BY <1>1 DEF IInv, Shape, Store, sequence
<1>4. rows' = [c \in Clients |-> rows'[c]]
  BY <1>1 DEF IInv, Shape, Store, sequence
<1>5. last' = [v \in Writers |-> last'[v]] /\ last'[w] = NoRow
      /\ \A v \in Writers \ {w} : last'[v] = last[v]
  BY DEF IInv, Shape
<1>6. /\ DOMAIN rows'[c0] = DOMAIN rows[c0] \cup {n + 1}
      /\ rows'[c0][n + 1] = row
      /\ \A s \in DOMAIN rows[c0] : rows'[c0][s] = rows[c0][s]
  BY <1>1, <1>2 DEF Insert
<1>7. row = [event |-> event[w], prevHash |-> h, hash |-> hashAuditEvent(n + 1, event[w], h)]
  BY DEF NewRow
<1>. HIDE DEF row
<1>8. \A c \in Clients : DOMAIN rows'[c] \subseteq Nat \ {0}
  BY <1>1, <1>3, <1>6 DEF IInv, TypeOK
<1>9. \A c \in Clients : \A s \in DOMAIN rows'[c] : rows'[c][s].event \in Events
  <2>1. \A c \in Clients \ {c0} : \A s \in DOMAIN rows'[c] : rows'[c][s].event \in Events
    BY <1>3 DEF IInv, TypeOK
  <2>2. \A s \in DOMAIN rows[c0] : rows'[c0][s].event \in Events
    BY <1>1, <1>6 DEF IInv, TypeOK
  <2>3. rows'[c0][n + 1].event \in Events
    BY <1>6, <1>7
  <2>. QED BY <1>1, <1>6, <2>1, <2>2, <2>3
<1>10. Shape'
  <2>1. \A s \in DOMAIN rows'[c0] :
          rows'[c0][s] = [event |-> rows'[c0][s].event, prevHash |-> rows'[c0][s].prevHash,
                          hash |-> rows'[c0][s].hash]
    BY <1>1, <1>6, <1>7 DEF IInv, Shape
  <2>2. \A c \in Clients \ {c0} : \A s \in DOMAIN rows'[c] :
          rows'[c][s] = [event |-> rows'[c][s].event, prevHash |-> rows'[c][s].prevHash,
                         hash |-> rows'[c][s].hash]
    BY <1>3 DEF IInv, Shape
  <2>. QED BY <1>1, <1>4, <1>5, <2>1, <2>2 DEF Shape
<1>11. Bounded'
  <2>1. ASSUME NEW c \in Clients, c # c0
        PROVE  DOMAIN rows'[c] = {} \/ \E s \in DOMAIN rows'[c] : \A r \in DOMAIN rows'[c] : r <= s
    BY <1>3, <2>1 DEF IInv, Bounded
  <2>2. \E s \in DOMAIN rows'[c0] : \A r \in DOMAIN rows'[c0] : r <= s
    <3>1. CASE DOMAIN rows[c0] = {}
      <4>1. DOMAIN rows'[c0] = {n + 1}
        BY <1>6, <3>1
      <4>. QED BY <1>1, <4>1
    <3>2. CASE DOMAIN rows[c0] # {}
      <4>1. PICK m \in DOMAIN rows[c0] : \A r \in DOMAIN rows[c0] : r <= m
        BY <1>1, <3>2 DEF IInv, Bounded
      <4>2. m \in Nat /\ DOMAIN rows[c0] \subseteq Nat
        BY <1>1 DEF IInv, TypeOK
      <4>3. CASE m <= n + 1
        <5>1. \A r \in DOMAIN rows'[c0] : r <= n + 1
          BY <1>1, <1>6, <4>1, <4>2, <4>3
        <5>. QED BY <1>6, <5>1
      <4>4. CASE n + 1 <= m
        <5>1. \A r \in DOMAIN rows'[c0] : r <= m
          BY <1>6, <4>1, <4>4
        <5>. QED BY <1>6, <5>1
      <4>. QED BY <1>1, <4>2, <4>3, <4>4
    <3>. QED BY <3>1, <3>2
  <2>. QED BY <2>1, <2>2 DEF Bounded
<1>12. ReadValid'
  <2>. SUFFICES ASSUME NEW v \in Writers, pc'[v] = "create"
                PROVE  \/ last'[v] = NoRow
                       \/ /\ last'[v].sequence \in DOMAIN rows'[client'[v]]
                          /\ last'[v].hash = rows'[client'[v]][last'[v].sequence].hash
    BY DEF ReadValid
  <2>1. v # w /\ pc[v] = "create"
    BY DEF IInv, TypeOK
  <2>2. \/ last[v] = NoRow
        \/ /\ last[v].sequence \in DOMAIN rows[client[v]]
           /\ last[v].hash = rows[client[v]][last[v].sequence].hash
    BY <2>1 DEF IInv, ReadValid
  <2>3. client[v] \in Clients
    BY DEF IInv, TypeOK
  <2>. QED BY <1>3, <1>5, <1>6, <2>1, <2>2, <2>3
<1>13. ChainIntact'
  <2>1. \A c \in Clients \ {c0} : verifyChainRecords(rows'[c])
    BY <1>3 DEF IInv, ChainIntact
  <2>2. verifyChainRecords(rows'[c0])
    <3>1. verifyChainRecords(rows[c0]) /\ DOMAIN rows[c0] \subseteq Nat \ {0}
      BY <1>1 DEF IInv, ChainIntact, TypeOK
    <3>2. \/ n = 0 /\ h = NoHash
          \/ n \in DOMAIN rows[c0] /\ h = rows[c0][n].hash
      BY DEF IInv, ReadValid, NoRow
    <3>. QED BY <1>1, <1>2, <3>1, <3>2, InsertVerified DEF row
  <2>. QED BY <2>1, <2>2 DEF ChainIntact
<1>. QED BY <1>8, <1>9, <1>10, <1>11, <1>12, <1>13

\* Every step keeps the chain: only an insert changes a table.
LEMMA NextIInv ==
  ASSUME IInv, Fresh, [Next]_vars
  PROVE  IInv'
<1>1. ASSUME NEW w \in Writers, NEW c \in Clients, Append(w, c)
      PROVE  IInv'
  <2>1. lastSequence(rows[c]) \in Nat
    BY LastSequence DEF IInv, TypeOK, Bounded
  <2>2. TypeOK'
    BY <1>1, <2>1, MaxAppendsAssumption DEF IInv, TypeOK, Append
  <2>3. ReadValid'
    BY <1>1 DEF IInv, TypeOK, ReadValid, Append
  <2>. QED BY <1>1, <2>2, <2>3 DEF IInv, Shape, Bounded, ChainIntact, Append
<1>2. ASSUME NEW w \in Writers, FindLast(w)
      PROVE  IInv'
  <2>. DEFINE t == rows[client[w]]
              s == lastSequence(t)
  <2>1. s \in Nat /\ (s # 0 => s \in DOMAIN t)
    BY LastSequence DEF IInv, TypeOK, Bounded
  <2>. HIDE DEF s
  <2>2. last' = [last EXCEPT ![w] = IF s = 0 THEN NoRow ELSE [sequence |-> s, hash |-> t[s].hash]]
    BY <1>2 DEF FindLast, s
  <2>3. /\ last' = [v \in Writers |-> last'[v]]
        /\ last'[w] = IF s = 0 THEN NoRow ELSE [sequence |-> s, hash |-> t[s].hash]
        /\ \A v \in Writers \ {w} : last'[v] = last[v]
    BY <2>2 DEF IInv, Shape
  <2>4. TypeOK'
    <3>1. \A v \in Writers : last'[v].sequence \in Nat
      BY <2>1, <2>3 DEF IInv, TypeOK, NoRow
    <3>. QED BY <1>2, <3>1 DEF IInv, TypeOK, FindLast
  <2>5. ReadValid'
    BY <1>2, <2>1, <2>3 DEF IInv, TypeOK, ReadValid, FindLast
  <2>. QED BY <1>2, <2>3, <2>4, <2>5 DEF IInv, Shape, Bounded, ChainIntact, FindLast
<1>3. ASSUME NEW w \in Writers, Create(w) \/ LostReply(w)
      PROVE  IInv'
  <2>1. /\ pc[w] = "create" /\ ~Taken(w) /\ Store(w)
        /\ pc' = [pc EXCEPT ![w] = "idle"] /\ client' = client
        /\ last' = [last EXCEPT ![w] = NoRow]
        /\ calls' = calls /\ event' = event /\ began' = began
        /\ attempt' = [attempt EXCEPT ![w] = 0]
        /\ result' = [result EXCEPT ![w] = "ok"] \/ result' = [result EXCEPT ![w] = "error"]
        /\ returned' = returned \/ returned' = returned \cup {event[w]}
    BY <1>3 DEF Create, LostReply, End
  <2>2. event[w] \in Events
    BY <2>1, MaxAppendsAssumption DEF Fresh, IInv, TypeOK, Events
  <2>3. /\ \A c \in Clients : DOMAIN rows'[c] \subseteq Nat \ {0}
        /\ \A c \in Clients : \A s \in DOMAIN rows'[c] : rows'[c][s].event \in Events
        /\ Shape' /\ Bounded' /\ ReadValid' /\ ChainIntact'
    BY <2>1, <2>2, StoreIInv
  <2>4. \A v \in Writers : last'[v].sequence \in Nat
    BY <2>1 DEF IInv, TypeOK, Shape, NoRow
  <2>5. /\ pc' \in [Writers -> {"idle", "read", "create"}]
        /\ client' \in [Writers -> Clients]
        /\ calls' \in 0..MaxAppends /\ event' \in [Writers -> 0..MaxAppends]
        /\ began' \in [Writers -> Nat]
        /\ result' \in [Writers -> {"none", "ok", "exhausted", "error"}]
        /\ returned' \in SUBSET Events
    BY <2>1, <2>2 DEF IInv, TypeOK
  <2>6. attempt' \in [Writers -> 0..(MAX_APPEND_ATTEMPTS - 1)]
    BY <2>1, AttemptsAssumption DEF IInv, TypeOK
  <2>. QED BY <2>3, <2>4, <2>5, <2>6 DEF IInv, TypeOK
<1>4. ASSUME NEW w \in Writers, Conflict(w) \/ Throw(w)
      PROVE  IInv'
  <2>1. /\ pc' = [pc EXCEPT ![w] = "idle"] \/ pc' = [pc EXCEPT ![w] = "read"]
        /\ last' = [last EXCEPT ![w] = NoRow]
        /\ UNCHANGED <<rows, client, calls, event, began, returned>>
        /\ \/ result' = result \/ result' = [result EXCEPT ![w] = "exhausted"]
           \/ result' = [result EXCEPT ![w] = "error"]
        /\ \/ attempt' = [attempt EXCEPT ![w] = 0]
           \/ /\ attempt[w] < MAX_APPEND_ATTEMPTS - 1
              /\ attempt' = [attempt EXCEPT ![w] = attempt[w] + 1]
    BY <1>4 DEF Conflict, Throw, End
  <2>2. /\ last' = [v \in Writers |-> last'[v]]
        /\ last'[w] = NoRow
        /\ \A v \in Writers \ {w} : last'[v] = last[v]
    BY <2>1 DEF IInv, Shape
  <2>3. attempt' \in [Writers -> 0..(MAX_APPEND_ATTEMPTS - 1)]
    BY <2>1, AttemptsAssumption DEF IInv, TypeOK
  <2>4. \A v \in Writers : last'[v].sequence \in Nat
    BY <2>2 DEF IInv, TypeOK, NoRow
  <2>5. TypeOK'
    BY <2>1, <2>3, <2>4 DEF IInv, TypeOK
  <2>6. ReadValid'
    BY <2>1, <2>2 DEF IInv, TypeOK, ReadValid
  <2>. QED BY <2>1, <2>2, <2>5, <2>6 DEF IInv, Shape, Bounded, ChainIntact
<1>5. CASE UNCHANGED vars
  BY <1>5 DEF vars, IInv, TypeOK, Shape, Bounded, ReadValid, ChainIntact
<1>. QED BY <1>1, <1>2, <1>3, <1>4, <1>5 DEF Next

\* What a committed insert does to the rows.
LEMMA StoreRows ==
  ASSUME IInv, NEW w \in Writers, ~Taken(w), Store(w)
  PROVE  /\ client[w] \in Clients
         /\ last[w].sequence + 1 \notin DOMAIN rows[client[w]]
         /\ DOMAIN rows'[client[w]] = DOMAIN rows[client[w]] \cup {last[w].sequence + 1}
         /\ rows'[client[w]][last[w].sequence + 1].event = event[w]
         /\ \A s \in DOMAIN rows[client[w]] : rows'[client[w]][s] = rows[client[w]][s]
         /\ \A c \in Clients \ {client[w]} : rows'[c] = rows[c]
<1>1. client[w] \in Clients /\ sequence(w) \notin DOMAIN rows[client[w]]
  BY DEF IInv, TypeOK, Taken
<1>2. rows'[client[w]] =
        Insert(rows[client[w]], sequence(w), NewRow(sequence(w), last[w].hash, event[w]))
  BY <1>1 DEF IInv, Shape, Store
<1>3. \A c \in Clients \ {client[w]} : rows'[c] = rows[c]
  BY <1>1 DEF IInv, Shape, Store
<1>4. /\ DOMAIN rows'[client[w]] = DOMAIN rows[client[w]] \cup {sequence(w)}
      /\ rows'[client[w]][sequence(w)] = NewRow(sequence(w), last[w].hash, event[w])
      /\ \A s \in DOMAIN rows[client[w]] : rows'[client[w]][s] = rows[client[w]][s]
  BY <1>1, <1>2 DEF Insert
<1>. QED BY <1>1, <1>3, <1>4 DEF NewRow, sequence

Once == IInv /\ Fresh /\ RecordedOnce

\* No event is stored or numbered at the start.
LEMMA InitOnce == Init => Once
<1>. SUFFICES ASSUME Init PROVE Fresh /\ RecordedOnce
  BY InitIInv DEF Once
<1>. QED BY DEF Init, Fresh, RecordedOnce

\* Every step keeps events fresh until they are stored, and stored once.
LEMMA NextOnce ==
  ASSUME Once, [Next]_vars
  PROVE  Once'
<1>0. IInv'
  BY NextIInv DEF Once
<1>1. ASSUME NEW w \in Writers, NEW c \in Clients, Append(w, c)
      PROVE  Fresh' /\ RecordedOnce'
  <2>1. /\ rows' = rows /\ returned' = returned /\ calls' = calls + 1 /\ calls \in Nat
        /\ pc' = [pc EXCEPT ![w] = "read"] /\ event' = [event EXCEPT ![w] = calls + 1]
    BY <1>1 DEF Append, Once, IInv, TypeOK
  <2>2. /\ \A d \in Clients : \A s \in DOMAIN rows[d] : rows[d][s].event \in Nat
        /\ \A e \in returned : e \in Nat
    BY DEF Once, IInv, TypeOK, Events
  <2>3. /\ \A d \in Clients : \A s \in DOMAIN rows'[d] : rows'[d][s].event <= calls'
        /\ \A e \in returned' : e <= calls'
    BY <2>1, <2>2 DEF Once, Fresh
  <2>4. ASSUME NEW v \in Writers, pc'[v] # "idle"
        PROVE  /\ event'[v] \in 1..calls'
               /\ \A d \in Clients : \A s \in DOMAIN rows'[d] : rows'[d][s].event # event'[v]
               /\ \A u \in Writers \ {v} : pc'[u] # "idle" => event'[u] # event'[v]
    BY <2>1, <2>2, <2>4 DEF Once, Fresh, IInv, TypeOK
  <2>5. RecordedOnce'
    BY <2>1 DEF Once, RecordedOnce
  <2>. QED BY <2>3, <2>4, <2>5 DEF Fresh
<1>2. ASSUME NEW w \in Writers, Create(w) \/ LostReply(w)
      PROVE  Fresh' /\ RecordedOnce'
  <2>1. /\ pc[w] = "create" /\ ~Taken(w) /\ Store(w)
        /\ pc' = [pc EXCEPT ![w] = "idle"]
        /\ calls' = calls /\ event' = event
        /\ returned' = returned \/ returned' = returned \cup {event[w]}
    BY <1>2 DEF Create, LostReply, End
  <2>2. /\ event[w] \in 1..calls /\ calls \in Nat
        /\ \A c \in Clients : \A s \in DOMAIN rows[c] : rows[c][s].event # event[w]
    BY <2>1 DEF Once, Fresh, IInv, TypeOK
  <2>. DEFINE c0 == client[w]
              s0 == last[w].sequence + 1
  <2>3. /\ c0 \in Clients /\ s0 \notin DOMAIN rows[c0]
        /\ DOMAIN rows'[c0] = DOMAIN rows[c0] \cup {s0}
        /\ rows'[c0][s0].event = event[w]
        /\ \A s \in DOMAIN rows[c0] : rows'[c0][s] = rows[c0][s]
        /\ \A c \in Clients \ {c0} : rows'[c] = rows[c]
    BY <2>1, StoreRows DEF Once
  <2>. HIDE DEF c0, s0
  \* Every row is the new one or an old one.
  <2>4. ASSUME NEW c \in Clients, NEW s \in DOMAIN rows'[c]
        PROVE  \/ c = c0 /\ s = s0 /\ rows'[c][s].event = event[w]
               \/ s \in DOMAIN rows[c] /\ rows'[c][s] = rows[c][s]
    BY <2>3
  <2>5. \A c \in Clients : \A s \in DOMAIN rows[c] :
          s \in DOMAIN rows'[c] /\ rows'[c][s] = rows[c][s]
    BY <2>3
  <2>6. Fresh'
    <3>1. /\ \A c \in Clients : \A s \in DOMAIN rows'[c] : rows'[c][s].event <= calls'
          /\ \A e \in returned' : e <= calls'
      BY <2>1, <2>2, <2>4 DEF Once, Fresh
    <3>2. ASSUME NEW v \in Writers, pc'[v] # "idle"
          PROVE  /\ event'[v] \in 1..calls'
                 /\ \A c \in Clients : \A s \in DOMAIN rows'[c] : rows'[c][s].event # event'[v]
                 /\ \A u \in Writers \ {v} : pc'[u] # "idle" => event'[u] # event'[v]
      <4>1. v # w /\ pc[v] # "idle"
        BY <2>1, <3>2 DEF Once, IInv, TypeOK
      <4>2. /\ event[v] \in 1..calls /\ event[v] # event[w]
            /\ \A c \in Clients : \A s \in DOMAIN rows[c] : rows[c][s].event # event[v]
            /\ \A u \in Writers \ {v} : pc[u] # "idle" => event[u] # event[v]
        BY <2>1, <4>1 DEF Once, Fresh
      <4>3. \A u \in Writers : pc'[u] # "idle" => pc[u] # "idle"
        BY <2>1 DEF Once, IInv, TypeOK
      <4>. QED BY <2>1, <2>4, <4>2, <4>3
    <3>. QED BY <3>1, <3>2 DEF Fresh
  <2>7. RecordedOnce'
    <3>1. ASSUME NEW c \in Clients, NEW d \in Clients,
                 NEW s \in DOMAIN rows'[c], NEW r \in DOMAIN rows'[d],
                 rows'[c][s].event = rows'[d][r].event
          PROVE  c = d /\ s = r
      <4>1. \/ c = c0 /\ s = s0 /\ rows'[c][s].event = event[w]
            \/ s \in DOMAIN rows[c] /\ rows'[c][s] = rows[c][s]
        BY <2>4
      <4>2. \/ d = c0 /\ r = s0 /\ rows'[d][r].event = event[w]
            \/ r \in DOMAIN rows[d] /\ rows'[d][r] = rows[d][r]
        BY <2>4
      <4>. QED BY <2>2, <3>1, <4>1, <4>2 DEF Once, RecordedOnce
    <3>2. ASSUME NEW e \in returned'
          PROVE  \E c \in Clients : \E s \in DOMAIN rows'[c] : rows'[c][s].event = e
      <4>1. CASE e \in returned
        <5>1. PICK c \in Clients : \E s \in DOMAIN rows[c] : rows[c][s].event = e
          BY <4>1 DEF Once, RecordedOnce
        <5>2. PICK s \in DOMAIN rows[c] : rows[c][s].event = e
          BY <5>1
        <5>. QED BY <2>5, <5>2
      <4>2. CASE e = event[w]
        BY <2>3, <4>2
      <4>. QED BY <2>1, <4>1, <4>2
    <3>. QED BY <3>1, <3>2 DEF RecordedOnce
  <2>. QED BY <2>6, <2>7
<1>3. ASSUME NEW w \in Writers, FindLast(w) \/ Conflict(w) \/ Throw(w)
      PROVE  Fresh' /\ RecordedOnce'
  <2>1. /\ UNCHANGED <<rows, calls, event, returned>>
        /\ pc[w] # "idle"
        /\ \/ pc' = [pc EXCEPT ![w] = "idle"] \/ pc' = [pc EXCEPT ![w] = "read"]
           \/ pc' = [pc EXCEPT ![w] = "create"]
    BY <1>3 DEF FindLast, Conflict, Throw, End
  <2>2. \A v \in Writers : pc'[v] # "idle" => pc[v] # "idle"
    BY <2>1 DEF Once, IInv, TypeOK
  <2>3. Fresh'
    BY <2>1, <2>2 DEF Once, Fresh
  <2>4. RecordedOnce'
    BY <2>1 DEF Once, RecordedOnce
  <2>. QED BY <2>3, <2>4
<1>4. ASSUME UNCHANGED vars
      PROVE  Fresh' /\ RecordedOnce'
  <2>1. Fresh'
    BY <1>4 DEF vars, Once, Fresh
  <2>2. RecordedOnce'
    BY <1>4 DEF vars, Once, RecordedOnce
  <2>. QED BY <2>1, <2>2
<1>5. Fresh' /\ RecordedOnce'
  BY <1>1, <1>2, <1>3, <1>4 DEF Next
<1>. QED BY <1>0, <1>5 DEF Once

-----------------------------------------------------------------------------
(* Attempts                                                                *)

\* An insert never lowers the last sequence, and it covers the new row.
LEMMA StoreGrows ==
  ASSUME IInv, IInv', NEW w \in Writers, ~Taken(w), Store(w), NEW c \in Clients
  PROVE  lastSequence(rows'[c]) \in Nat /\ lastSequence(rows[c]) \in Nat
         /\ lastSequence(rows'[c]) >= lastSequence(rows[c])
<1>1. /\ lastSequence(rows[c]) \in Nat
      /\ lastSequence(rows[c]) # 0 => lastSequence(rows[c]) \in DOMAIN rows[c]
  BY LastSequence DEF IInv, TypeOK, Bounded
<1>2. /\ lastSequence(rows'[c]) \in Nat
      /\ \A r \in DOMAIN rows'[c] : r <= lastSequence(rows'[c])
  BY LastSequence DEF IInv, TypeOK, Bounded
<1>3. DOMAIN rows[c] \subseteq DOMAIN rows'[c]
  BY StoreRows
<1>. QED BY <1>1, <1>2, <1>3

Contended == IInv /\ Lost /\ GivesUpUnderContention

\* Nobody has lost an attempt at the start.
LEMMA InitContended == Init => Contended
<1>. SUFFICES ASSUME Init PROVE Lost /\ GivesUpUnderContention
  BY InitIInv DEF Contended
<1>. QED BY DEF Init, Lost, GivesUpUnderContention

\* Every step keeps the count of lost attempts below the rows committed since.
LEMMA NextContended ==
  ASSUME Contended, Fresh, [Next]_vars
  PROVE  Contended'
<1>0. IInv'
  BY NextIInv DEF Contended
<1>. USE DEF Contended
<1>1. ASSUME NEW w \in Writers, NEW c \in Clients, Append(w, c)
      PROVE  Lost' /\ GivesUpUnderContention'
  <2>1. lastSequence(rows[c]) \in Nat
    BY LastSequence DEF IInv, TypeOK, Bounded
  <2>2. /\ rows' = rows /\ attempt' = attempt /\ last' = last
        /\ pc[w] = "idle" /\ pc' = [pc EXCEPT ![w] = "read"]
        /\ client' = [client EXCEPT ![w] = c]
        /\ began' = [began EXCEPT ![w] = lastSequence(rows[c])]
        /\ result' = [result EXCEPT ![w] = "none"]
    BY <1>1 DEF Append
  <2>3. Lost'
    BY <2>1, <2>2 DEF Lost, IInv, TypeOK
  <2>4. GivesUpUnderContention'
    BY <2>2 DEF GivesUpUnderContention, IInv, TypeOK
  <2>. QED BY <2>3, <2>4
<1>2. ASSUME NEW w \in Writers, FindLast(w)
      PROVE  Lost' /\ GivesUpUnderContention'
  <2>. DEFINE s == lastSequence(rows[client[w]])
  <2>1. s \in Nat
    BY LastSequence DEF IInv, TypeOK, Bounded
  <2>2. /\ UNCHANGED <<rows, client, attempt, began, result>>
        /\ pc[w] = "read" /\ pc' = [pc EXCEPT ![w] = "create"]
    BY <1>2 DEF FindLast
  <2>3. \A v \in Writers : last'[v].sequence = IF v = w THEN s ELSE last[v].sequence
    BY <1>2 DEF FindLast, NoRow, IInv, Shape
  <2>. HIDE DEF s
  <2>4. s >= began[w] + attempt[w]
    BY <2>2 DEF Lost, s
  <2>5. Lost'
    BY <2>1, <2>2, <2>3, <2>4 DEF Lost, IInv, TypeOK
  <2>6. GivesUpUnderContention'
    BY <2>2 DEF GivesUpUnderContention
  <2>. QED BY <2>5, <2>6
<1>3. ASSUME NEW w \in Writers, Create(w) \/ LostReply(w)
      PROVE  Lost' /\ GivesUpUnderContention'
  <2>1. /\ pc[w] = "create" /\ ~Taken(w) /\ Store(w)
        /\ pc' = [pc EXCEPT ![w] = "idle"] /\ UNCHANGED <<client, began>>
        /\ attempt' = [attempt EXCEPT ![w] = 0] /\ last' = [last EXCEPT ![w] = NoRow]
        /\ result' = [result EXCEPT ![w] = "ok"] \/ result' = [result EXCEPT ![w] = "error"]
    BY <1>3 DEF Create, LostReply, End
  <2>2. \A c \in Clients : /\ lastSequence(rows'[c]) \in Nat /\ lastSequence(rows[c]) \in Nat
                           /\ lastSequence(rows'[c]) >= lastSequence(rows[c])
    BY <1>0, <2>1, StoreGrows
  <2>3. ASSUME NEW v \in Writers, v # w
        PROVE  /\ pc'[v] = pc[v] /\ attempt'[v] = attempt[v] /\ result'[v] = result[v]
               /\ last'[v] = last[v]
    BY <2>1, <2>3 DEF IInv, TypeOK, Shape
  <2>4. pc'[w] = "idle" /\ attempt'[w] = 0 /\ result'[w] # "exhausted"
    BY <2>1 DEF IInv, TypeOK
  <2>5. \A v \in Writers : /\ client[v] \in Clients /\ began[v] \in Nat /\ attempt[v] \in Nat
    BY DEF IInv, TypeOK
  <2>6. Lost'
    <3>1. ASSUME NEW v \in Writers, v # w, pc[v] # "idle"
          PROVE  lastSequence(rows'[client[v]]) >= began[v] + attempt[v]
      BY <2>2, <2>5, <3>1 DEF Lost
    <3>. QED BY <2>1, <2>3, <2>4, <3>1 DEF Lost
  <2>7. GivesUpUnderContention'
    <3>1. ASSUME NEW v \in Writers, v # w, result[v] = "exhausted"
          PROVE  lastSequence(rows'[client[v]]) >= began[v] + MAX_APPEND_ATTEMPTS
      BY <2>2, <2>5, <3>1, AttemptsAssumption DEF GivesUpUnderContention
    <3>. QED BY <2>1, <2>3, <2>4, <3>1 DEF GivesUpUnderContention
  <2>. QED BY <2>6, <2>7
<1>4. ASSUME NEW w \in Writers, Conflict(w)
      PROVE  Lost' /\ GivesUpUnderContention'
  <2>1. /\ pc[w] = "create" /\ Taken(w) /\ UNCHANGED <<rows, client, began>>
        /\ last' = [last EXCEPT ![w] = NoRow]
    BY <1>4 DEF Conflict, End
  <2>2. \A v \in Writers : /\ client[v] \in Clients /\ began[v] \in Nat
                           /\ attempt[v] \in 0..(MAX_APPEND_ATTEMPTS - 1)
                           /\ last[v].sequence \in Nat
                           /\ lastSequence(rows[client[v]]) \in Nat
    <3>1. \A v \in Writers : lastSequence(rows[client[v]]) \in Nat
      BY LastSequence DEF IInv, TypeOK, Bounded
    <3>. QED BY <3>1 DEF IInv, TypeOK
  <2>3. lastSequence(rows[client[w]]) >= began[w] + attempt[w] + 1
    <3>1. last[w].sequence + 1 <= lastSequence(rows[client[w]])
      BY <2>1, <2>2, LastSequence DEF Taken, sequence, IInv, TypeOK, Bounded
    <3>2. last[w].sequence >= began[w] + attempt[w]
      BY <2>1 DEF Lost
    <3>. QED BY <2>2, <3>1, <3>2, AttemptsAssumption
  <2>4. \A v \in Writers \ {w} : last'[v] = last[v]
    BY <2>1 DEF IInv, Shape
  <2>5. CASE /\ attempt' = [attempt EXCEPT ![w] = attempt[w] + 1]
             /\ pc' = [pc EXCEPT ![w] = "read"] /\ result' = result
    <3>1. Lost'
      BY <2>1, <2>2, <2>3, <2>4, <2>5, AttemptsAssumption DEF Lost, IInv, TypeOK
    <3>2. GivesUpUnderContention'
      BY <2>1, <2>5 DEF GivesUpUnderContention
    <3>. QED BY <3>1, <3>2
  <2>6. CASE attempt[w] >= MAX_APPEND_ATTEMPTS - 1 /\ End(w, "exhausted")
    <3>1. /\ pc' = [pc EXCEPT ![w] = "idle"] /\ attempt' = [attempt EXCEPT ![w] = 0]
          /\ result' = [result EXCEPT ![w] = "exhausted"]
      BY <2>6 DEF End
    <3>2. Lost'
      BY <2>1, <2>2, <2>4, <3>1 DEF Lost, IInv, TypeOK
    <3>3. lastSequence(rows[client[w]]) >= began[w] + MAX_APPEND_ATTEMPTS
      BY <2>2, <2>3, <2>6, AttemptsAssumption
    <3>4. GivesUpUnderContention'
      BY <2>1, <3>1, <3>3 DEF GivesUpUnderContention, IInv, TypeOK
    <3>. QED BY <3>2, <3>4
  <2>. QED BY <1>4, <2>5, <2>6 DEF Conflict
<1>5. ASSUME NEW w \in Writers, Throw(w)
      PROVE  Lost' /\ GivesUpUnderContention'
  <2>1. /\ UNCHANGED <<rows, client, began>> /\ pc' = [pc EXCEPT ![w] = "idle"]
        /\ attempt' = [attempt EXCEPT ![w] = 0] /\ last' = [last EXCEPT ![w] = NoRow]
        /\ result' = [result EXCEPT ![w] = "error"]
    BY <1>5 DEF Throw, End
  <2>2. \A v \in Writers \ {w} : last'[v] = last[v]
    BY <2>1 DEF IInv, Shape
  <2>3. Lost'
    BY <2>1, <2>2 DEF Lost, IInv, TypeOK
  <2>4. GivesUpUnderContention'
    BY <2>1 DEF GivesUpUnderContention, IInv, TypeOK
  <2>. QED BY <2>3, <2>4
<1>6. ASSUME UNCHANGED vars
      PROVE  Lost' /\ GivesUpUnderContention'
  <2>1. Lost'
    BY <1>6 DEF vars, Lost
  <2>2. GivesUpUnderContention'
    BY <1>6 DEF vars, GivesUpUnderContention
  <2>. QED BY <2>1, <2>2
<1>7. Lost' /\ GivesUpUnderContention'
  BY <1>1, <1>2, <1>3, <1>4, <1>5, <1>6 DEF Next
<1>. QED BY <1>0, <1>7

-----------------------------------------------------------------------------
(* Theorems                                                                *)

Inv == Once /\ Contended

\* The inductive invariant, the conjunction of the three parts.
LEMMA InvInductive == Spec => []Inv
<1>1. Init => Inv
  BY InitOnce, InitContended DEF Inv
<1>2. Inv /\ [Next]_vars => Inv'
  <2>. SUFFICES ASSUME Inv, [Next]_vars PROVE Inv'
    OBVIOUS
  <2>1. Once'
    BY NextOnce DEF Inv
  <2>2. Contended'
    BY NextContended DEF Inv, Once
  <2>. QED BY <2>1, <2>2 DEF Inv
<1>. QED BY <1>1, <1>2, PTL DEF Spec

\* Type correctness of the audit log.
THEOREM TypeCorrect == Spec => []TypeOK
<1>1. Inv => TypeOK
  BY DEF Inv, Once, IInv
<1>. QED BY <1>1, InvInductive, PTL

\* verifyChain answers true in every state, for any number of overlapping
\* appends: no gap in a client's sequence and every digest covers the one
\* before it.
THEOREM ChainAlwaysIntact == Spec => []ChainIntact
<1>1. Inv => ChainIntact
  BY DEF Inv, Once, IInv
<1>. QED BY <1>1, InvInductive, PTL

\* No event is stored twice, and what append() returned is stored.
THEOREM EventsRecordedOnce == Spec => []RecordedOnce
<1>1. Inv => RecordedOnce
  BY DEF Inv, Once
<1>. QED BY <1>1, InvInductive, PTL

\* append() throws for want of a sequence number only after losing
\* MAX_APPEND_ATTEMPTS times to committed events.
THEOREM ExhaustedMeansContention == Spec => []GivesUpUnderContention
<1>1. Inv => GivesUpUnderContention
  BY DEF Inv, Contended
<1>. QED BY <1>1, InvInductive, PTL

\* An append changes no stored row.
THEOREM RowsNeverRewritten == Spec => AppendOnly
<1>. DEFINE Kept == \A c \in Clients : \A s \in DOMAIN rows[c] :
                      s \in DOMAIN rows'[c] /\ rows'[c][s] = rows[c][s]
<1>1. Inv /\ [Next]_vars => [Kept]_vars
  <2>. SUFFICES ASSUME Inv, Next PROVE Kept
    OBVIOUS
  <2>1. ASSUME NEW w \in Writers, Create(w) \/ LostReply(w)
        PROVE  Kept
    <3>1. ~Taken(w) /\ Store(w)
      BY <2>1 DEF Create, LostReply
    <3>. QED BY <3>1, StoreRows DEF Inv, Once
  <2>2. ASSUME NEW w \in Writers,
               (\E c \in Clients : Append(w, c)) \/ FindLast(w) \/ Conflict(w) \/ Throw(w)
        PROVE  Kept
    BY <2>2 DEF Append, FindLast, Conflict, Throw
  <2>. QED BY <2>1, <2>2 DEF Next
<1>. QED BY <1>1, InvInductive, PTL DEF Spec, AppendOnly

\* A verified table in which an event is altered, or a row that has a
\* successor is rewritten with its digest or removed, no longer verifies.
THEOREM TamperingDetected == Spec => []TamperEvident
<1>1. Inv => TamperEvident
  <2>. SUFFICES ASSUME IInv, NEW c \in Clients, NEW s \in DOMAIN rows[c]
                PROVE  /\ \A e \in Events \ {rows[c][s].event} :
                            /\ ~verifyChainRecords([rows[c] EXCEPT ![s].event = e])
                            /\ s + 1 \in DOMAIN rows[c] =>
                                 ~verifyChainRecords([rows[c] EXCEPT ![s] = NewRow(s, @.prevHash, e)])
                       /\ s + 1 \in DOMAIN rows[c] =>
                            ~verifyChainRecords([r \in DOMAIN rows[c] \ {s} |-> rows[c][r]])
    BY DEF Inv, Once, TamperEvident
  <2>. DEFINE t == rows[c]
  <2>1. /\ s \in Nat \ {0} /\ s + 1 # 1 /\ s + 1 # s /\ (s + 1) - 1 = s
        /\ t[s].hash = <<t[s].prevHash, s, t[s].event>>
        /\ t[s] = [event |-> t[s].event, prevHash |-> t[s].prevHash, hash |-> t[s].hash]
    BY DEF IInv, TypeOK, Shape, ChainIntact, verifyChainRecords, hashAuditEvent
  <2>2. s + 1 \in DOMAIN t => t[s + 1].prevHash = t[s].hash
    BY <2>1 DEF IInv, ChainIntact, verifyChainRecords
  <2>3. ASSUME NEW e \in Events, e # t[s].event
        PROVE  ~verifyChainRecords([t EXCEPT ![s].event = e])
    <3>. DEFINE u == [t EXCEPT ![s].event = e]
    <3>1. s \in DOMAIN u /\ u[s].event = e /\ u[s].prevHash = t[s].prevHash /\ u[s].hash = t[s].hash
      BY <2>1
    <3>2. u[s].hash # hashAuditEvent(s, u[s].event, u[s].prevHash)
      BY <2>1, <2>3, <3>1 DEF hashAuditEvent
    <3>. HIDE DEF u
    <3>3. ~verifyChainRecords(u)
      BY <3>1, <3>2 DEF verifyChainRecords
    <3>. QED BY <3>3 DEF u
  <2>4. ASSUME NEW e \in Events, e # t[s].event, s + 1 \in DOMAIN t
        PROVE  ~verifyChainRecords([t EXCEPT ![s] = NewRow(s, @.prevHash, e)])
    <3>. DEFINE u == [t EXCEPT ![s] = NewRow(s, @.prevHash, e)]
    <3>1. /\ s + 1 \in DOMAIN u /\ u[s + 1] = t[s + 1]
          /\ u[s] = NewRow(s, t[s].prevHash, e)
      BY <2>1, <2>4
    <3>2. u[s].hash = <<t[s].prevHash, s, e>>
      BY <3>1 DEF NewRow, hashAuditEvent
    <3>3. u[s + 1].prevHash # u[s].hash
      BY <2>1, <2>2, <2>4, <3>1, <3>2
    <3>. HIDE DEF u
    <3>4. ~verifyChainRecords(u)
      BY <2>1, <3>1, <3>3 DEF verifyChainRecords
    <3>. QED BY <3>4 DEF u
  <2>5. ASSUME s + 1 \in DOMAIN t
        PROVE  ~verifyChainRecords([r \in DOMAIN t \ {s} |-> t[r]])
    BY <2>1, <2>5 DEF verifyChainRecords
  <2>. QED BY <2>3, <2>4, <2>5
<1>. QED BY <1>1, InvInductive, PTL

-----------------------------------------------------------------------------
(* Refinement                                                              *)

\* A client's sequence numbers have no gap, and nobody read past the last one.
Gapless ==
  /\ \A c \in Clients : \E n \in Nat : DOMAIN rows[c] = 1 .. n
  /\ \A w \in Writers : pc[w] = "create" =>
       last[w].sequence = 0 \/ last[w].sequence \in DOMAIN rows[client[w]]

\* A number that is not taken is the next one, so an insert extends the sequence.
LEMMA StoreAtEnd ==
  ASSUME IInv, Gapless, NEW w \in Writers, pc[w] = "create", ~Taken(w),
         NEW n \in Nat, DOMAIN rows[client[w]] = 1 .. n
  PROVE  last[w].sequence = n
<1>1. last[w].sequence \in Nat /\ last[w].sequence + 1 \notin 1 .. n
  BY DEF IInv, TypeOK, Taken, sequence
<1>2. last[w].sequence = 0 \/ last[w].sequence \in 1 .. n
  BY DEF Gapless
<1>. QED BY <1>1, <1>2

LEMMA InitGapless == Init => Gapless
<1>. SUFFICES ASSUME Init, NEW c \in Clients PROVE DOMAIN rows[c] = 1 .. 0
  BY DEF Init, Gapless
<1>. QED BY DEF Init

LEMMA NextGapless ==
  ASSUME IInv, IInv', Gapless, [Next]_vars
  PROVE  Gapless'
<1>1. ASSUME NEW w \in Writers, Create(w) \/ LostReply(w)
      PROVE  Gapless'
  <2>1. /\ pc[w] = "create" /\ ~Taken(w) /\ Store(w) /\ client' = client
        /\ pc' = [pc EXCEPT ![w] = "idle"] /\ last' = [last EXCEPT ![w] = NoRow]
    BY <1>1 DEF Create, LostReply, End
  <2>2. /\ client[w] \in Clients
        /\ DOMAIN rows'[client[w]] = DOMAIN rows[client[w]] \cup {last[w].sequence + 1}
        /\ \A c \in Clients \ {client[w]} : rows'[c] = rows[c]
    BY <2>1, StoreRows
  <2>3. PICK n \in Nat : DOMAIN rows[client[w]] = 1 .. n
    BY <2>2 DEF Gapless
  <2>4. last[w].sequence = n
    BY <2>1, <2>3, StoreAtEnd
  <2>5. DOMAIN rows'[client[w]] = 1 .. n + 1 /\ n + 1 \in Nat
    BY <2>2, <2>3, <2>4
  <2>6. \A c \in Clients : \E m \in Nat : DOMAIN rows'[c] = 1 .. m
    <3>. SUFFICES ASSUME NEW c \in Clients PROVE \E m \in Nat : DOMAIN rows'[c] = 1 .. m
      OBVIOUS
    <3>1. CASE c = client[w]
      BY <2>5, <3>1
    <3>2. CASE c # client[w]
      BY <2>2, <3>2 DEF Gapless
    <3>. QED BY <3>1, <3>2
  <2>7. ASSUME NEW v \in Writers, pc'[v] = "create"
        PROVE  last'[v].sequence = 0 \/ last'[v].sequence \in DOMAIN rows'[client'[v]]
    <3>1. v # w /\ pc[v] = "create" /\ last'[v] = last[v] /\ client[v] \in Clients
      BY <2>1, <2>7 DEF IInv, TypeOK, Shape
    <3>2. DOMAIN rows[client[v]] \subseteq DOMAIN rows'[client[v]]
      BY <2>2, <3>1
    <3>. QED BY <2>1, <3>1, <3>2 DEF Gapless
  <2>. QED BY <2>6, <2>7 DEF Gapless
<1>2. ASSUME NEW w \in Writers, FindLast(w)
      PROVE  Gapless'
  <2>. DEFINE t == rows[client[w]]
              s == lastSequence(t)
  <2>1. s \in Nat /\ (s # 0 => s \in DOMAIN t)
    BY LastSequence DEF IInv, TypeOK, Bounded
  <2>2. last'[w].sequence = s /\ \A v \in Writers \ {w} : last'[v] = last[v]
    <3>. HIDE DEF s
    <3>1. last' = [last EXCEPT ![w] = IF s = 0 THEN NoRow ELSE [sequence |-> s, hash |-> t[s].hash]]
      BY <1>2 DEF FindLast, s
    <3>. QED BY <3>1 DEF IInv, Shape, NoRow
  <2>3. UNCHANGED <<rows, client>> /\ pc' = [pc EXCEPT ![w] = "create"]
    BY <1>2 DEF FindLast
  <2>. HIDE DEF s
  <2>. QED BY <2>1, <2>2, <2>3 DEF Gapless, IInv, TypeOK
<1>3. ASSUME NEW w \in Writers, (\E c \in Clients : Append(w, c)) \/ Conflict(w) \/ Throw(w)
      PROVE  Gapless'
  <2>1. /\ rows' = rows
        /\ \A v \in Writers : pc'[v] = "create" =>
             pc[v] = "create" /\ client'[v] = client[v] /\ last'[v] = last[v]
    BY <1>3 DEF Append, Conflict, Throw, End, IInv, TypeOK, Shape
  <2>. QED BY <2>1 DEF Gapless
<1>4. CASE UNCHANGED vars
  BY <1>4 DEF vars, Gapless
<1>. QED BY <1>1, <1>2, <1>3, <1>4 DEF Next

\* append() is atomic, for any number of clients, writers, attempts and appends
\* and any failed transactions and lost replies: every step of every transaction
\* is one step of the atomic log or invisible in it.
THEOREM AppendsAreAtomic == Spec => AppendIsAtomic
<1>. DEFINE log == [c \in Clients |-> [s \in DOMAIN rows[c] |-> rows[c][s].event]]
            call == [w \in Writers |->
                       IF pc[w] = "idle" THEN [op |-> "none"]
                       ELSE [op |-> "append", client |-> client[w], event |-> event[w]]]
            called == 1 .. calls
<1>1. Init => Atomic!Init
  <2>. SUFFICES ASSUME Init PROVE Atomic!Init
    OBVIOUS
  <2>1. log = [c \in Clients |-> << >>]
    BY DEF Init
  <2>2. call = [w \in Writers |-> [op |-> "none"]]
    BY DEF Init
  <2>3. called = {} /\ returned = {}
    BY DEF Init
  <2>. QED BY <2>1, <2>2, <2>3 DEF Atomic!Init, Atomic!NoCall
<1>2. Inv /\ Gapless /\ [Next]_vars => [Atomic!Next]_(Atomic!state)
  <2>. SUFFICES ASSUME Inv, Gapless, [Next]_vars PROVE Atomic!Next \/ UNCHANGED Atomic!state
    OBVIOUS
  <2>0. IInv /\ Fresh /\ TypeOK
    BY DEF Inv, Once, IInv
  <2>1. ASSUME NEW w \in Writers, NEW c \in Clients, Append(w, c)
        PROVE  Atomic!Next
    <3>1. /\ pc[w] = "idle" /\ pc' = [pc EXCEPT ![w] = "read"]
          /\ client' = [client EXCEPT ![w] = c] /\ event' = [event EXCEPT ![w] = calls + 1]
          /\ calls' = calls + 1 /\ calls < MaxAppends /\ UNCHANGED <<rows, returned>>
      BY <2>1 DEF Append
    <3>2. PICK e \in Events : calls \in Nat /\ e = calls + 1
      BY <2>0, <3>1, MaxAppendsAssumption DEF TypeOK, Events
    <3>3. call[w] = [op |-> "none"]
      BY <3>1
    <3>4. call' = [call EXCEPT ![w] = [op |-> "append", client |-> c, event |-> e]]
      BY <2>0, <3>1, <3>2 DEF TypeOK
    <3>5. called' = called \cup {e} /\ e \notin called
      BY <3>1, <3>2
    <3>6. log' = log /\ returned' = returned
      BY <3>1
    <3>. HIDE DEF log, call, called
    <3>7. Atomic!Begin(w, c, e)
      BY <3>3, <3>4, <3>5, <3>6 DEF Atomic!Begin, Atomic!NoCall, log, call, called
    <3>. QED BY <3>7 DEF Atomic!Next
  <2>2. ASSUME NEW w \in Writers, Create(w) \/ LostReply(w)
        PROVE  Atomic!Next
    <3>1. /\ pc[w] = "create" /\ ~Taken(w) /\ Store(w)
          /\ pc' = [pc EXCEPT ![w] = "idle"]
          /\ UNCHANGED <<client, calls, event>>
          /\ returned' \in {returned, returned \cup {event[w]}}
      BY <2>2 DEF Create, LostReply, End
    <3>. DEFINE c0 == client[w]
                t == rows[c0]
    <3>2. /\ c0 \in Clients
          /\ DOMAIN rows'[c0] = DOMAIN t \cup {last[w].sequence + 1}
          /\ rows'[c0][last[w].sequence + 1].event = event[w]
          /\ \A s \in DOMAIN t : rows'[c0][s] = t[s]
          /\ \A c \in Clients \ {c0} : rows'[c] = rows[c]
      BY <2>0, <3>1, StoreRows
    <3>3. PICK n \in Nat : DOMAIN t = 1 .. n
      BY <3>2 DEF Gapless
    <3>4. last[w].sequence = n
      BY <2>0, <3>1, <3>3, StoreAtEnd
    <3>5. log'[c0] = Atomic!Append(log[c0], event[w])
      <4>. DEFINE u == rows'[c0]
      <4>1. DOMAIN u = 1 .. n + 1 /\ u[n + 1].event = event[w] /\ \A s \in 1 .. n : u[s] = t[s]
        BY <3>2, <3>3, <3>4
      <4>2. log[c0] = [s \in 1 .. n |-> t[s].event] /\ log'[c0] = [s \in 1 .. n + 1 |-> u[s].event]
        BY <3>1, <3>2, <3>3, <4>1
      <4>. HIDE DEF t, u
      <4>3. [s \in 1 .. n + 1 |-> u[s].event] = Atomic!Append([s \in 1 .. n |-> t[s].event], event[w])
        BY <3>3, <4>1
      <4>. QED BY <4>2, <4>3
    <3>6. log' = [log EXCEPT ![c0] = log'[c0]]
      BY <3>1, <3>2
    <3>7. call[w] = [op |-> "append", client |-> c0, event |-> event[w]]
      BY <3>1
    <3>8. call' = [call EXCEPT ![w] = [op |-> "none"]]
      BY <2>0, <3>1 DEF TypeOK
    <3>9. call[w] # [op |-> "none"] /\ call[w].client = c0 /\ call[w].event = event[w]
      BY <3>7
    <3>10. called' = called
      BY <3>1
    <3>. HIDE DEF log, call, called, c0
    <3>11. log' = [log EXCEPT ![call[w].client] = Atomic!Append(log[call[w].client], call[w].event)]
      BY <3>5, <3>6, <3>9
    <3>12. Atomic!Commit(w)
      BY <3>1, <3>8, <3>9, <3>10, <3>11 DEF Atomic!Commit, Atomic!NoCall, log, call, called
    <3>. QED BY <3>12 DEF Atomic!Next
  <2>3. ASSUME NEW w \in Writers, Conflict(w) \/ Throw(w), pc'[w] = "idle"
        PROVE  Atomic!Next
    <3>1. /\ pc[w] # "idle" /\ pc' = [pc EXCEPT ![w] = "idle"]
          /\ UNCHANGED <<rows, client, calls, event, returned>>
      BY <2>0, <2>3 DEF Conflict, Throw, End, TypeOK
    <3>2. call[w] # [op |-> "none"]
      BY <3>1
    <3>3. call' = [call EXCEPT ![w] = [op |-> "none"]]
      BY <2>0, <3>1 DEF TypeOK
    <3>4. log' = log /\ called' = called /\ returned' = returned
      BY <3>1
    <3>. HIDE DEF log, call, called
    <3>5. Atomic!Fail(w)
      BY <3>2, <3>3, <3>4 DEF Atomic!Fail, Atomic!NoCall, log, call, called
    <3>. QED BY <3>5 DEF Atomic!Next
  <2>4. ASSUME NEW w \in Writers, FindLast(w) \/ (Conflict(w) /\ pc'[w] # "idle")
        PROVE  UNCHANGED Atomic!state
    <3>1. /\ UNCHANGED <<rows, client, calls, event, returned>>
          /\ pc[w] # "idle"
          /\ pc' = [pc EXCEPT ![w] = "create"] \/ pc' = [pc EXCEPT ![w] = "read"]
      BY <2>0, <2>4 DEF FindLast, Conflict, End, TypeOK
    <3>2. \A v \in Writers : pc'[v] = "idle" <=> pc[v] = "idle"
      BY <2>0, <3>1 DEF TypeOK
    <3>3. call' = call
      BY <3>1, <3>2
    <3>4. log' = log /\ called' = called /\ returned' = returned
      BY <3>1
    <3>. QED BY <3>3, <3>4 DEF Atomic!state
  <2>5. ASSUME NEW w \in Writers, Throw(w)
        PROVE  pc'[w] = "idle"
    BY <2>0, <2>5 DEF Throw, End, TypeOK
  <2>6. CASE UNCHANGED vars
    BY <2>6 DEF vars, Atomic!state
  <2>. QED BY <2>1, <2>2, <2>3, <2>4, <2>5, <2>6 DEF Next
<1>3. Inv /\ Gapless /\ [Next]_vars /\ Inv' => Gapless'
  BY NextGapless DEF Inv, Once
<1>. QED BY <1>1, <1>2, <1>3, InitGapless, InvInductive, PTL DEF Spec, AppendIsAtomic, Atomic!Spec
=============================================================================
