------------------------------ MODULE AuditLog ------------------------------
(***************************************************************************)
(* The append-only, hash-chained audit log of packages/state-store.        *)
(*                                                                         *)
(* Concurrent writers (handlers of the API and the worker) append events   *)
(* to the chains of their clients.  One attempt is a transaction that      *)
(* reads the last row and inserts the next one; between the read and the   *)
(* insert other writers may commit.  The table is keyed by the unique      *)
(* index (clientId, sequence), so the rows of a client are a function from *)
(* sequence numbers.  sha256 is taken to be free of collisions: a digest   *)
(* is the tuple of what it covers.  prevHash is the prefix and a field of  *)
(* the hashed payload; it appears once here.                               *)
(***************************************************************************)
EXTENDS Integers

CONSTANTS
  Clients, Writers,
  MAX_APPEND_ATTEMPTS,
  MaxAppends,          \* bound on the append calls
  Faulty               \* the database may fail a transaction

ASSUME AttemptsAssumption == MAX_APPEND_ATTEMPTS \in Nat \ {0}
ASSUME MaxAppendsAssumption == MaxAppends \in Nat
ASSUME FaultyAssumption == Faulty \in BOOLEAN

VARIABLES
  rows,       \* table AuditEvent: client -> sequence -> row
  pc,         \* writer: idle, read (about to read the last row), create
  client,     \* the client of the call in progress
  attempt,    \* attempts the call has lost
  last,       \* the row read: its sequence and hash
  calls,      \* append calls made so far
  event,      \* the event of the call in progress, named by its number
  began,      \* history: last sequence when the call began
  result,     \* how the last call ended
  returned    \* history: events append() returned to its caller

vars == <<rows, pc, client, attempt, last, calls, event, began, result, returned>>

Events == 1..MaxAppends
NoHash == <<>>
NoRow == [sequence |-> 0, hash |-> NoHash]

hashAuditEvent(sequence, e, prevHash) == <<prevHash, sequence, e>>

NewRow(sequence, prevHash, e) ==
  [event |-> e, prevHash |-> prevHash, hash |-> hashAuditEvent(sequence, e, prevHash)]

\* findFirst ordered by sequence, descending; 0 when the client has no row.
lastSequence(t) ==
  IF DOMAIN t = {} THEN 0
  ELSE CHOOSE s \in DOMAIN t : \A r \in DOMAIN t : r <= s

Insert(t, s, row) == [r \in DOMAIN t \cup {s} |-> IF r = s THEN row ELSE t[r]]

\* Mutant: the linkage is checked, the digest is not recomputed.
verifyChainRecords_LinksOnly(t) ==
  \A s \in DOMAIN t :
    /\ s = 1 \/ s - 1 \in DOMAIN t
    /\ t[s].prevHash = (IF s = 1 THEN NoHash ELSE t[s - 1].hash)

\* No gap from 1 upwards, each row linked to the one before it, and every
\* stored digest equal to the recomputed one.
verifyChainRecords(t) ==
  \A s \in DOMAIN t :
    /\ s = 1 \/ s - 1 \in DOMAIN t
    /\ t[s].prevHash = (IF s = 1 THEN NoHash ELSE t[s - 1].hash)
    /\ t[s].hash = hashAuditEvent(s, t[s].event, t[s].prevHash)

-----------------------------------------------------------------------------

Init ==
  /\ rows = [c \in Clients |-> [s \in {} |-> NewRow(s, NoHash, s)]]
  /\ pc = [w \in Writers |-> "idle"]
  /\ client \in [Writers -> Clients]
  /\ attempt = [w \in Writers |-> 0]
  /\ last = [w \in Writers |-> NoRow]
  /\ calls = 0 /\ event = [w \in Writers |-> 0]
  /\ began = [w \in Writers |-> 0]
  /\ result = [w \in Writers |-> "none"]
  /\ returned = {}

Append(w, c) ==
  /\ pc[w] = "idle" /\ calls < MaxAppends
  /\ pc' = [pc EXCEPT ![w] = "read"]
  /\ client' = [client EXCEPT ![w] = c]
  /\ calls' = calls + 1
  /\ event' = [event EXCEPT ![w] = calls + 1]
  /\ began' = [began EXCEPT ![w] = lastSequence(rows[c])]
  /\ result' = [result EXCEPT ![w] = "none"]
  /\ UNCHANGED <<rows, attempt, last, returned>>

FindLast(w) ==
  /\ pc[w] = "read"
  /\ LET t == rows[client[w]]
         s == lastSequence(t)
     IN  last' = [last EXCEPT ![w] = IF s = 0 THEN NoRow
                                     ELSE [sequence |-> s, hash |-> t[s].hash]]
  /\ pc' = [pc EXCEPT ![w] = "create"]
  /\ UNCHANGED <<rows, client, attempt, calls, event, began, result, returned>>

sequence(w) == last[w].sequence + 1
Taken(w) == sequence(w) \in DOMAIN rows[client[w]]

Store(w) ==
  rows' = [rows EXCEPT ![client[w]] =
             Insert(@, sequence(w), NewRow(sequence(w), last[w].hash, event[w]))]

\* The call ends and its local variables go with it.
End(w, outcome) ==
  /\ pc' = [pc EXCEPT ![w] = "idle"]
  /\ result' = [result EXCEPT ![w] = outcome]
  /\ attempt' = [attempt EXCEPT ![w] = 0]
  /\ last' = [last EXCEPT ![w] = NoRow]

\* Mutant: an upsert, or no unique index on (clientId, sequence).
Create_Upsert(w) ==
  /\ pc[w] = "create"
  /\ Store(w) /\ End(w, "ok")
  /\ returned' = returned \cup {event[w]}
  /\ UNCHANGED <<client, calls, event, began>>

\* The insert commits.
Create(w) ==
  /\ pc[w] = "create" /\ ~Taken(w)
  /\ Store(w) /\ End(w, "ok")
  /\ returned' = returned \cup {event[w]}
  /\ UNCHANGED <<client, calls, event, began>>

\* Mutant: the retry takes the next number but does not read the last row again.
Conflict_KeepsHash(w) ==
  /\ pc[w] = "create" /\ Taken(w)
  /\ last' = [last EXCEPT ![w].sequence = @ + 1]
  /\ UNCHANGED <<rows, pc, client, attempt, calls, event, began, result, returned>>

\* Mutant: the loop gives up one attempt early.
Conflict_OneShort(w) ==
  /\ pc[w] = "create" /\ Taken(w)
  /\ \/ /\ attempt[w] < MAX_APPEND_ATTEMPTS - 2
        /\ attempt' = [attempt EXCEPT ![w] = @ + 1]
        /\ pc' = [pc EXCEPT ![w] = "read"]
        /\ last' = [last EXCEPT ![w] = NoRow]
        /\ UNCHANGED result
     \/ /\ attempt[w] >= MAX_APPEND_ATTEMPTS - 2
        /\ End(w, "exhausted")
  /\ UNCHANGED <<rows, client, calls, event, began, returned>>

\* Another writer took the number: a unique violation (P2002), tried again
\* from the read while attempts are left.
Conflict(w) ==
  /\ pc[w] = "create" /\ Taken(w)
  /\ \/ /\ attempt[w] < MAX_APPEND_ATTEMPTS - 1
        /\ attempt' = [attempt EXCEPT ![w] = @ + 1]
        /\ pc' = [pc EXCEPT ![w] = "read"]
        /\ last' = [last EXCEPT ![w] = NoRow]
        /\ UNCHANGED result
     \/ /\ attempt[w] >= MAX_APPEND_ATTEMPTS - 1
        /\ End(w, "exhausted")
  /\ UNCHANGED <<rows, client, calls, event, began, returned>>

\* Any other error is thrown to the caller at once, the serialization failure
\* (P2034) with which Postgres may answer the same race included.
Throw(w) ==
  /\ Faulty /\ pc[w] \in {"read", "create"}
  /\ End(w, "error")
  /\ UNCHANGED <<rows, client, calls, event, began, returned>>

\* Mutant: whatever went wrong is tried again.
LostReply_Retried(w) ==
  /\ Faulty /\ pc[w] = "create" /\ ~Taken(w)
  /\ Store(w)
  /\ pc' = [pc EXCEPT ![w] = "read"]
  /\ UNCHANGED <<client, attempt, last, calls, event, began, result, returned>>

\* The transaction committed and the connection broke before the reply.
LostReply(w) ==
  /\ Faulty /\ pc[w] = "create" /\ ~Taken(w)
  /\ Store(w) /\ End(w, "error")
  /\ UNCHANGED <<client, calls, event, began, returned>>

Next ==
  \E w \in Writers :
    \/ \E c \in Clients : Append(w, c)
    \/ FindLast(w) \/ Create(w) \/ Conflict(w) \/ Throw(w) \/ LostReply(w)

Spec == Init /\ [][Next]_vars

-----------------------------------------------------------------------------
(* Properties                                                              *)

\* Every variable keeps the shape the code gives it.
TypeOK ==
  /\ \A c \in Clients : DOMAIN rows[c] \subseteq Nat \ {0}
  /\ \A c \in Clients : \A s \in DOMAIN rows[c] : rows[c][s].event \in Events
  /\ pc \in [Writers -> {"idle", "read", "create"}]
  /\ client \in [Writers -> Clients]
  /\ attempt \in [Writers -> 0..(MAX_APPEND_ATTEMPTS - 1)]
  /\ \A w \in Writers : last[w].sequence \in Nat
  /\ calls \in 0..MaxAppends /\ event \in [Writers -> 0..MaxAppends]
  /\ began \in [Writers -> Nat]
  /\ result \in [Writers -> {"none", "ok", "exhausted", "error"}]
  /\ returned \in SUBSET Events

\* verifyChain(c) answers true in every state: whatever transactions overlap,
\* the sequence of a client has no gap and every row covers the one before it.
ChainIntact == \A c \in Clients : verifyChainRecords(rows[c])

\* A stored row is never changed or removed by a later append.
AppendOnly ==
  [][\A c \in Clients : \A s \in DOMAIN rows[c] :
       s \in DOMAIN rows'[c] /\ rows'[c][s] = rows[c][s]]_vars

\* An event is stored at most once, also when a conflict made append() try
\* again or the reply got lost, and it is stored if append() returned it.
RecordedOnce ==
  /\ \A c, d \in Clients : \A s \in DOMAIN rows[c], r \in DOMAIN rows[d] :
       rows[c][s].event = rows[d][r].event => c = d /\ s = r
  /\ \A e \in returned : \E c \in Clients : \E s \in DOMAIN rows[c] : rows[c][s].event = e

\* append() gives up for want of a sequence number only after it lost
\* MAX_APPEND_ATTEMPTS times, each time to another committed event.
GivesUpUnderContention ==
  \A w \in Writers : result[w] = "exhausted" =>
    lastSequence(rows[client[w]]) >= began[w] + MAX_APPEND_ATTEMPTS

\* Altering any stored event is detected, with the row's own digest recomputed
\* too unless it is the last row, and so is the removal of any row but the last.
TamperEvident ==
  \A c \in Clients : \A s \in DOMAIN rows[c] :
    LET t == rows[c]
        followed == s + 1 \in DOMAIN t
    IN  /\ \A e \in Events \ {t[s].event} :
             /\ ~verifyChainRecords([t EXCEPT ![s].event = e])
             /\ followed => ~verifyChainRecords([t EXCEPT ![s] = NewRow(s, @.prevHash, e)])
        /\ followed => ~verifyChainRecords([r \in DOMAIN t \ {s} |-> t[r]])

\* The table without digests, and a call in progress without its attempts.
Atomic == INSTANCE AtomicLog WITH
  log <- [c \in Clients |-> [s \in DOMAIN rows[c] |-> rows[c][s].event]],
  call <- [w \in Writers |-> IF pc[w] = "idle" THEN [op |-> "none"]
                             ELSE [op |-> "append", client |-> client[w], event |-> event[w]]],
  called <- 1 .. calls,
  confirmed <- returned

\* append() is atomic: whatever transactions overlap, fail or lose their reply,
\* each call puts its event behind all others of its client in one step, once, or
\* leaves the log alone, and it returns only what it has put there (append).
AppendIsAtomic == Atomic!Spec
=============================================================================
