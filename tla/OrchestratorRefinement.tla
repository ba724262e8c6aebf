----------------------- MODULE OrchestratorRefinement -----------------------
(***************************************************************************)
(* The orchestrator implements ScanPipeline: its store, its approvals and  *)
(* the pull requests, seen without the processes that write them.          *)
(***************************************************************************)
EXTENDS Orchestrator

Pipeline == INSTANCE ScanPipeline WITH
  stored <- tiers,
  approved <- granted,
  published <- prOpen,
  finished <- row.status = "completed"

\* Whatever handlers, retries, redeliveries and crashes interleave, every step of
\* the orchestrator is one step of the pipeline or invisible to it: in particular
\* no scan is completed with a layer missing, and no gate is approved before the
\* output it presents is stored (advanceAfterLayer, approveGate, resume,
\* persistLayerOutput, finalizeComplete).
ImplementsPipeline == Pipeline!Spec
=============================================================================
