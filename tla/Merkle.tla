------------------------------- MODULE Merkle -------------------------------
(***************************************************************************)
(* The Merkle tree (merkle/merkle.go): Put, Get, Prove, Digest and Verify, *)
(* node by node, with the hash that each node caches.  The other modules   *)
(* take its digest for the set of its entries (KeyMaps); what they rely on *)
(* is checked here.                                                        *)
(*                                                                         *)
(* A node is known by its path, the bits that lead to it from the root:    *)
(* the pointers child0 and child1 of a node are the nodes at its path and  *)
(* one more bit, nil if there is none.  A hash is the term it was computed *)
(* from; the tags and lengths that the code hashes make these terms        *)
(* distinct.  A label is the sequence of its bits in the order of getBit.  *)
(* A proof is the record that its bytes decode to; its siblings are whole  *)
(* hashes (Verify refuses others).                                         *)
(***************************************************************************)
EXTENDS KeyMaps, Integers, Sequences

CONSTANTS
    Label,
    Val,
    LabelLen,   \* bits of a label (256 in the code)
    BadLabel,   \* labels of other lengths
    NoVal       \* nil instead of a value

ASSUME LabelAssumption ==
    /\ LabelLen \in Nat
    /\ \A label \in Label : label \in Seq({0, 1}) /\ Len(label) = LabelLen
    /\ \A label \in BadLabel : label \in Seq({0, 1}) /\ Len(label) # LabelLen
    /\ NoVal \notin Val

VARIABLE tree   \* the nodes that there are, at their paths

-----------------------------------------------------------------------------
(* Hashes. *)

EmptyHash == <<"empty">>
LeafHash(label, val) == <<"leaf", label, val>>
InnerHash(hash0, hash1) == <<"inner", hash0, hash1>>

\* The bit that takes a label left or right at a depth; 0 beyond its end.
GetBit(label, n) == IF n < Len(label) THEN label[n + 1] ELSE 0

\* The path of a label down to a depth, and the other child at its end.
Path(label, depth) == [i \in 1..depth |-> GetBit(label, i - 1)]
SibPath(label, depth) ==
    [i \in 1..depth |-> IF i = depth THEN 1 - GetBit(label, i - 1) ELSE GetBit(label, i - 1)]

-----------------------------------------------------------------------------
(* Nodes: nil, or a leaf (both children nil), or an inner node. *)

Nil == [kind |-> "nil"]

NodeAt(t, path) == IF path \in DOMAIN t THEN t[path] ELSE Nil

NodeHash(n) == IF n.kind = "nil" THEN EmptyHash ELSE n.hash

Leaf(label, val) ==
    [kind |-> "leaf", hash |-> LeafHash(label, val), label |-> label, val |-> val]

Inner(hash) == [kind |-> "inner", hash |-> hash]

\* The hashes on the way up from a node of a label's path, given those of the
\* siblings on the way: setInnerHash after put, and the loop of verifySiblings.
HashUp(label, lastHash, siblings) ==
    LET maxDepth == Len(siblings)
        up[i \in 0..maxDepth] ==
            IF i = 0 THEN lastHash
            ELSE IF GetBit(label, maxDepth - i) = 0
            THEN InnerHash(up[i - 1], siblings[i])
            ELSE InnerHash(siblings[i], up[i - 1])
    IN  up

\* Seeded fault: siblings from the root down.
SiblingsDown(t, label, depth) ==
    [i \in 1..depth |-> NodeHash(NodeAt(t, SibPath(label, i)))]

\* The cached hashes of the siblings of a label's path, from the bottom up.
Siblings(t, label, depth) ==
    [i \in 1..depth |-> NodeHash(NodeAt(t, SibPath(label, depth + 1 - i)))]

\* The depth of the leaf or nil node where a label's path ends.
EndDepth(label) ==
    CHOOSE depth \in 0..LabelLen :
        /\ NodeAt(tree, Path(label, depth)).kind # "inner"
        /\ \A d \in 0..(depth - 1) : NodeAt(tree, Path(label, d)).kind = "inner"

-----------------------------------------------------------------------------
(* put *)

\* Seeded fault: the hash of a leaf is not computed again.
ReplaceValOnly(leaf, val) == [leaf EXCEPT !.val = val]

ReplaceVal(leaf, val) == Leaf(leaf.label, val)

\* Seeded fault: the new inner node does not link to the leaf.
SplitDrops(t, from, to) == [path \in DOMAIN t \ {from} |-> t[path]]

\* The leaf becomes a child of the last of the new inner nodes.
Split(t, from, to) ==
    [path \in (DOMAIN t \ {from}) \cup {to} |-> IF path = to THEN t[from] ELSE t[path]]

\* The depth below which the paths of two labels part: a leaf is replaced with
\* inner nodes as long as put finds it again on its way.
ForkDepth(label, other, depth) ==
    CHOOSE d \in (depth + 1)..LabelLen :
        /\ GetBit(label, d - 1) # GetBit(other, d - 1)
        /\ \A i \in depth..(d - 2) : GetBit(label, i) = GetBit(other, i)

\* put: down to the bottom, where the leaf is, and up again with new hashes.
PutAt(label, val) ==
    LET depth == EndDepth(label)
        n == NodeAt(tree, Path(label, depth))
        replace == n.kind = "leaf" /\ n.label = label
        split == n.kind = "leaf" /\ n.label # label
        bottom == IF split THEN ForkDepth(label, n.label, depth) ELSE depth
        below == IF split THEN Split(tree, Path(label, depth), Path(n.label, bottom)) ELSE tree
        leaf == IF replace THEN ReplaceVal(n, val) ELSE Leaf(label, val)
        hash == HashUp(label, leaf.hash, Siblings(below, label, bottom))
        onPath == {Path(label, d) : d \in 0..bottom}
    IN  [path \in DOMAIN below \cup onPath |->
            CASE path = Path(label, bottom) -> leaf
              [] path \in onPath \ {Path(label, bottom)} -> Inner(hash[bottom - Len(path)])
              [] OTHER -> below[path]]

RightLen(label) == Len(label) = LabelLen

-----------------------------------------------------------------------------
(* find and prove *)

\* find: the leaf or nil node where a label's path ends.
Find(label) == NodeAt(tree, Path(label, EndDepth(label)))

Get(label) ==
    LET end == Find(label)
        inTree == end.kind = "leaf" /\ end.label = label
    IN  [inTree |-> inTree, val |-> IF inTree THEN end.val ELSE NoVal]

\* What Get returns, and a proof of it.
Prove(label) ==
    LET end == Find(label)
        got == Get(label)
        other == end.kind = "leaf" /\ ~got.inTree
    IN  [inTree |-> got.inTree,
         val |-> got.val,
         proof |-> [siblings |-> Siblings(tree, label, EndDepth(label)),
                    foundOtherLeaf |-> other,
                    leafLabel |-> IF other THEN end.label ELSE <<>>,
                    leafVal |-> IF other THEN end.val ELSE NoVal]]

TreeDigest == NodeHash(NodeAt(tree, <<>>))

-----------------------------------------------------------------------------
(* Verify; TRUE for success. *)

\* verifySiblings
VerifySiblings(label, lastHash, siblings, dig) ==
    HashUp(label, lastHash, siblings)[Len(siblings)] = dig

\* Seeded fault: the other leaf may be the label's own.
AnyLeaf(label, proof) == TRUE

IsOtherLeaf(label, proof) == proof.leafLabel # label

Verify(inTree, label, val, proof, dig) ==
    LET other == ~inTree /\ proof.foundOtherLeaf
        lastHash == CASE inTree -> LeafHash(label, val)
                      [] other -> LeafHash(proof.leafLabel, proof.leafVal)
                      [] OTHER -> EmptyHash
    IN  /\ other => IsOtherLeaf(label, proof)
        /\ VerifySiblings(label, lastHash, proof.siblings, dig)

-----------------------------------------------------------------------------
TreeInit == tree = [path \in {} |-> Nil]

\* Put returns an error, and does nothing, for a label of another length.
TreePut(label, val) ==
    tree' = IF RightLen(label) THEN PutAt(label, val) ELSE tree

TreeNext == \E label \in Label \cup BadLabel, val \in Val : TreePut(label, val)

TreeSpec == TreeInit /\ [][TreeNext]_tree

-----------------------------------------------------------------------------
(* Properties. *)

\* The map that Get shows.
Contents ==
    LET got == [label \in Label |-> Get(label)]
    IN  [label \in {l \in Label : got[l].inTree} |-> got[label].val]

\* The tree implements the map.
AsMap == INSTANCE LabelMap WITH map <- Contents

ImplementsMap == AsMap!Spec

\* The digest of a map, from its entries alone: empty, a leaf, or the digests
\* of the two halves.
MapDigest(entries) ==
    LET under(path) == {e \in entries : path = Path(e[1], Len(path))}
        digest[h \in 0..LabelLen] ==
            [path \in [1..(LabelLen - h) -> {0, 1}] |->
                IF under(path) = {} THEN EmptyHash
                ELSE LET entry == CHOOSE e \in under(path) : TRUE
                     IN  IF under(path) = {entry} THEN LeafHash(entry[1], entry[2])
                         ELSE InnerHash(digest[h - 1][Append(path, 0)],
                                        digest[h - 1][Append(path, 1)])]
    IN  digest[LabelLen][<<>>]

Maps == UNION {[labels -> Val] : labels \in SUBSET Label}

\* The digest depends on the entries and not on the order in which they were
\* put, replaced or split, and no two maps have the same digest: KeyMaps!Digest.
DigestIsIdeal ==
    LET map == Contents
        dig == TreeDigest
    IN  \A m \in Maps : dig = MapDigest(Digest(m)) <=> m = map

\* Every label, in the tree or not, is proved to be what it is.
ProofsComplete ==
    \A label \in Label \cup BadLabel :
        LET p == Prove(label) IN Verify(p.inTree, label, p.val, p.proof, TreeDigest)

\* Proofs made up from the hashes in the tree: no other sibling hashes to its
\* digest.
Hashes == {EmptyHash} \cup {tree[path].hash : path \in DOMAIN tree}
SiblingLists == UNION {[1..n -> Hashes] : n \in 0..LabelLen}

ForgedProofs(siblings) ==
    [siblings : {siblings}, foundOtherLeaf : {FALSE}, leafLabel : {<<>>},
     leafVal : {NoVal}] \cup
    [siblings : {siblings}, foundOtherLeaf : {TRUE}, leafLabel : Label \cup BadLabel,
     leafVal : Val]

\* No proof, wherever it comes from, shows against the digest of this tree that
\* a label has another value than its own, or that it is not in the tree when
\* it is.
ProofsSound ==
    LET map == Contents
        dig == TreeDigest
    IN  \A siblings \in SiblingLists : \A proof \in ForgedProofs(siblings) :
        \A label \in Label :
            /\ Verify(FALSE, label, NoVal, proof, dig) => label \notin DOMAIN map
            /\ \A val \in Val :
                Verify(TRUE, label, val, proof, dig) =>
                    label \in DOMAIN map /\ map[label] = val

\* Proofs decide what is in the tree, and with which value: KeyMaps!MerkleVerify.
ProofsDecide == ProofsComplete /\ ProofsSound
=============================================================================
