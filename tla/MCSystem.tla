------------------------------ MODULE MCSystem ------------------------------
(* Constants for checking System with TLC. *)
EXTENDS System

CONSTANTS
    Carol,  \* a user that only puts
    p1, p2

MCUid == {Alice, Bob, Carol}
MCPk == {p1, p2}
MCKeys(u) == IF u = Carol THEN {p1} ELSE MCPk
MCThread == MCUid \cup {Pusher}
=============================================================================
