----------------------------- MODULE AtomicLog -----------------------------
(***************************************************************************)
(* What the audit log promises the handlers that append to it, without     *)
(* transactions, sequence numbers, digests and attempts: the log of a      *)
(* client is a sequence of events, a call puts its event at the end in one *)
(* step or leaves the log alone, and a caller that is told of success has  *)
(* its event in the log.                                                   *)
(***************************************************************************)
EXTENDS Sequences

CONSTANTS Clients, Writers, Events

VARIABLES
  log,         \* the events of each client, in order
  call,        \* the call each writer has in progress
  called,      \* events append() was called with
  confirmed    \* events append() returned

state == <<log, call, called, confirmed>>

NoCall == [op |-> "none"]

Init ==
  /\ log = [c \in Clients |-> << >>]
  /\ call = [w \in Writers |-> NoCall]
  /\ called = {} /\ confirmed = {}

Begin(w, c, e) ==
  /\ call[w] = NoCall /\ e \notin called
  /\ call' = [call EXCEPT ![w] = [op |-> "append", client |-> c, event |-> e]]
  /\ called' = called \cup {e}
  /\ UNCHANGED <<log, confirmed>>

\* The event is the last of its client; the caller may or may not learn of it.
Commit(w) ==
  /\ call[w] # NoCall
  /\ log' = [log EXCEPT ![call[w].client] = Append(@, call[w].event)]
  /\ call' = [call EXCEPT ![w] = NoCall]
  /\ confirmed' \in {confirmed, confirmed \cup {call[w].event}}
  /\ UNCHANGED called

Fail(w) ==
  /\ call[w] # NoCall
  /\ call' = [call EXCEPT ![w] = NoCall]
  /\ UNCHANGED <<log, called, confirmed>>

Next ==
  \E w \in Writers :
    \/ \E c \in Clients, e \in Events : Begin(w, c, e)
    \/ Commit(w) \/ Fail(w)

Spec == Init /\ [][Next]_state
=============================================================================
