----------------------------- MODULE MCRpcServer -----------------------------
(* Constants for checking RpcServer with TLC. *)
EXTENDS RpcServer, TLC

Symmetry == Permutations(Thread) \cup Permutations(Uid)
=============================================================================
