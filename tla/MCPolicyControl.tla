---------------------------- MODULE MCPolicyControl ----------------------------
(***************************************************************************)
(* PolicyControl for TLC: no container and no file is told from another    *)
(* (for runs without liveness properties).                                 *)
(***************************************************************************)
EXTENDS PolicyControl, TLC

Symmetry == Permutations(Containers) \cup Permutations(Paths)
================================================================================
