--------------------------- MODULE MCLlmGateway ---------------------------
(* Two overlapping runs of one scan against a small ceiling. *)
EXTENDS LlmGateway, TLC

CONSTANTS cheap, strong
PriceList == cheap :> 1 @@ strong :> 2
ModelMatrix == <<cheap, cheap, strong>>

\* Runs are interchangeable.
Symmetry == Permutations(Runs)
=============================================================================
