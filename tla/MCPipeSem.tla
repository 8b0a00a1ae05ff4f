----------------------------- MODULE MCPipeSem -----------------------------
(* PipeSem on small instances: client A with two smackers, B with one. *)
EXTENDS PipeSem, TLC

CONSTANTS A, B, a1, a2, b1

TwoClients  == {A, B}
TwoParents  == (a1 :> A) @@ (a2 :> A) @@ (b1 :> B)
OneParent   == (a1 :> A) @@ (a2 :> A) @@ (b1 :> A)
=============================================================================
