------------------------------ MODULE MCServer ------------------------------
(* Constants for checking Server with TLC. *)
EXTENDS Server, TLC

Symmetry == Permutations(Thread) \cup Permutations(Uid) \cup Permutations(Pk)
=============================================================================
