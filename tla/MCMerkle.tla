------------------------------ MODULE MCMerkle ------------------------------
(* Constants for checking Merkle with TLC: labels of three bits that share
   prefixes of every length, and a short one. *)
EXTENDS Merkle

MCLabel == {<<0, 0, 0>>, <<0, 0, 1>>, <<0, 1, 0>>, <<0, 1, 1>>, <<1, 1, 0>>}
MCBadLabel == {<<0, 0>>}
=============================================================================
