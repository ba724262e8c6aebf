-------------------------- MODULE MCOrchestrator ---------------------------
(* Instances of Orchestrator: one API process and one worker.              *)
EXTENDS OrchestratorRefinement, TLC

CONSTANTS api, w1, a1, a2, b1, b2

\* One or two calls in the API, one or two layer jobs in the worker.
HomeOne == (a1 :> api) @@ (b1 :> w1)
HomeTwin == (a1 :> api) @@ (b1 :> w1) @@ (b2 :> w1)
HomeTwo == (a1 :> api) @@ (a2 :> api) @@ (b1 :> w1)

\* The two jobs of the worker may change places.
TwinSymmetry == Permutations({b1, b2})
=============================================================================
