------------------------------ MODULE KeyMaps ------------------------------
(***************************************************************************)
(* Key maps, their digests and signed digests, in ideal form.  Byte        *)
(* strings are abstracted to terms: a hash stands for what it was computed *)
(* from (SHA-256 is collision resistant), so that the digest of a map is   *)
(* the set of its entries, and a signature is the record of the key and    *)
(* the message.                                                            *)
(***************************************************************************)

-----------------------------------------------------------------------------
(* Key maps: merkle.Tree seen through Put, Prove, Digest and Verify. *)

EmptyMap == [label \in {} |-> label]

MapPut(keyMap, label, val) ==
    [l \in DOMAIN keyMap \cup {label} |-> IF l = label THEN val ELSE keyMap[l]]

\* The root hash: it commits to all entries and to nothing else, and does not
\* depend on the order in which they were put.
Digest(keyMap) == {<<l, keyMap[l]>> : l \in DOMAIN keyMap}

\* A Merkle proof determines the only root it verifies against.
MerkleProof(keyMap, label) == [label |-> label, root |-> Digest(keyMap)]

MerkleVerify(inTree, label, val, proof, dig) ==
    /\ proof = [label |-> label, root |-> dig]
    /\ IF inTree THEN <<label, val>> \in dig
                 ELSE \A entry \in dig : entry[1] # label

-----------------------------------------------------------------------------
(* Signed digests. *)

Sign(key, epoch, dig) == [key |-> key, epoch |-> epoch, dig |-> dig]

CheckSigDig(o, key) == o.sig = Sign(key, o.epoch, o.dig)
=============================================================================
