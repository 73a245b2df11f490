------------------------------ MODULE MCNetffi ------------------------------
(* Constants for checking Netffi with TLC. *)
EXTENDS Netffi

MCData == {<<>>, <<0, 1>>}
=============================================================================
