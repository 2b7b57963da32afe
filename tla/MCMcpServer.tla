----------------------------- MODULE MCMcpServer -----------------------------
(***************************************************************************)
(* A small instance of McpServer for TLC: a placeholder by name, a brain   *)
(* and a lens on it.                                                       *)
(***************************************************************************)
EXTENDS McpServer, TLC

CONSTANTS dot, own, view, i1, i2

ThreePaths == {dot, own, view}
TwoItems == {i1, i2}
View == (view :> own)

Symmetry == Permutations(TwoItems)
=============================================================================
