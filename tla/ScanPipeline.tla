---------------------------- MODULE ScanPipeline ----------------------------
(***************************************************************************)
(* What the orchestrator promises of a scan, without processes, queues,    *)
(* tokens and copies of rows: layers are stored in order, an approval comes *)
(* after what it approves, pull requests come after the approval they need *)
(* and a scan is finished when every layer is stored.                      *)
(***************************************************************************)
EXTENDS Integers

CONSTANTS ApproverRequired, AutoFixEnabled

VARIABLES
  stored,      \* layers whose output is stored
  approved,    \* <<gate, role>> of the approvals
  published,   \* pull requests have been opened
  finished     \* the scan is completed

pipeline == <<stored, approved, published, finished>>

Layers == 0 .. 5
Gates == {"estimate", "fix"}

\* The last layer whose output a gate is about.
presents(gate) == IF gate = "estimate" THEN 0 ELSE 4

Init == stored = {} /\ approved = {} /\ published = FALSE /\ finished = FALSE

StoreLayer(l) ==
  /\ 0 .. l - 1 \subseteq stored
  /\ stored' = stored \cup {l}
  /\ UNCHANGED <<approved, published, finished>>

Approve(gate, role) ==
  /\ presents(gate) \in stored
  /\ gate = "fix" \/ ApproverRequired => role = "approver"
  /\ approved' = approved \cup {<<gate, role>>}
  /\ finished' = FALSE
  /\ UNCHANGED <<stored, published>>

Publish ==
  /\ 0 .. 4 \subseteq stored
  /\ AutoFixEnabled /\ (ApproverRequired => <<"fix", "approver">> \in approved)
  /\ published' = TRUE
  /\ UNCHANGED <<stored, approved, finished>>

Finish ==
  /\ Layers \subseteq stored
  /\ finished' = TRUE
  /\ UNCHANGED <<stored, approved, published>>

\* A handler that loaded the scan before it finished stores its copy.
Overwrite ==
  /\ finished /\ finished' = FALSE
  /\ UNCHANGED <<stored, approved, published>>

Next ==
  \/ \E l \in Layers : StoreLayer(l)
  \/ \E gate \in Gates, role \in {"operator", "approver"} : Approve(gate, role)
  \/ Publish \/ Finish \/ Overwrite

Spec == Init /\ [][Next]_pipeline
=============================================================================
