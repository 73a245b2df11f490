------------------------------ MODULE LabelMap ------------------------------
(***************************************************************************)
(* What the users of a Merkle tree take it for: a map from labels of one   *)
(* length to values, which Put changes at one label or, when the label has *)
(* another length, not at all.                                             *)
(***************************************************************************)
EXTENDS KeyMaps

CONSTANTS Label, Val

VARIABLE map

Init == map = EmptyMap

Put(label, val) == map' = MapPut(map, label, val)

Next == \E label \in Label, val \in Val : Put(label, val)

Spec == Init /\ [][Next]_map
=============================================================================
