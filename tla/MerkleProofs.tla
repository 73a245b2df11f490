---------------------------- MODULE MerkleProofs ----------------------------
(***************************************************************************)
(* The Merkle tree, proved for labels of any length and any values.        *)
(***************************************************************************)
EXTENDS Merkle, SequenceTheorems, WellFoundedInduction, TLAPS

-----------------------------------------------------------------------------
(* Numbers and recursion. *)

\* A set of numbers that is not empty has a least one.
LEMMA LeastNumber ==
    ASSUME NEW S \in SUBSET Nat, S # {}
    PROVE  \E m \in S : \A n \in S : m <= n
<1>1. PICK R : /\ IsWellFoundedOn(R, Nat)
               /\ \A m, n \in Nat : m < n => <<m, n>> \in R
  <2> DEFINE Less == OpToRel(<, Nat)
  <2>1. IsWellFoundedOn(Less, Nat)
    BY NatLessThanWellFounded
  <2>2. \A m, n \in Nat : m < n => <<m, n>> \in Less
    BY DEF OpToRel
  <2> QED
    BY <2>1, <2>2, Zenon
<1>2. S \subseteq Nat
  OBVIOUS
<1>3. PICK m \in S : \A n \in S : ~(<<n, m>> \in R)
  <2>1. IsWellFoundedOn(R, Nat)
    BY <1>1
  <2> QED
    BY <1>2, <2>1, WFMin, Zenon
<1>4. \A n \in S : ~(n < m)
  BY <1>1, <1>2, <1>3, Zenon
<1> QED
  BY <1>2, <1>4


\* What HashUp does at a step.
UpStep(label, siblings, i, hash) ==
    IF GetBit(label, Len(siblings) - i) = 0 THEN InnerHash(hash, siblings[i])
                                            ELSE InnerHash(siblings[i], hash)

\* HashUp does it, from the first hash on: there is a function that does, since
\* a least number of steps that none can do is not 0 and not one more than
\* another.
LEMMA HashUpSteps ==
    ASSUME NEW label, NEW lastHash, NEW siblings, Len(siblings) \in Nat
    PROVE  LET up == HashUp(label, lastHash, siblings)
           IN  /\ up[0] = lastHash
               /\ \A i \in 1..Len(siblings) : up[i] = UpStep(label, siblings, i, up[i - 1])
<1> DEFINE N == Len(siblings)
           Next1(i, hash) == UpStep(label, siblings, i, hash)
           Done(g, n) == /\ g = [i \in 0..N |-> g[i]]
                         /\ g[0] = lastHash
                         /\ \A i \in 1..n : g[i] = Next1(i, g[i - 1])
           Stuck == {n \in 0..N : ~\E g : Done(g, n)}
<1>0. N \in Nat
  OBVIOUS
<1>1. Stuck = {}
  <2>1. SUFFICES ASSUME Stuck # {}
                 PROVE  FALSE
    OBVIOUS
  <2>2. Stuck \in SUBSET Nat
    BY <1>0
  <2>3. PICK n \in Stuck : \A m \in Stuck : n <= m
    <3> HIDE DEF Stuck
    <3> QED
      BY <2>1, <2>2, LeastNumber
  <2> HIDE DEF Next1
  <2>4. n # 0
    <3>1. Done([i \in 0..N |-> lastHash], 0)
      BY <1>0
    <3> HIDE DEF Done
    <3> QED
      BY <3>1
  <2>5. n - 1 \in 0..N /\ n \in 0..N /\ n - 1 \notin Stuck
    BY <1>0, <2>3, <2>4
  <2>6. PICK g : Done(g, n - 1)
    BY <2>5
  <2>7. Done([g EXCEPT ![n] = Next1(n, g[n - 1])], n)
    <3> DEFINE f == [i \in 0..N |-> IF i = n THEN Next1(n, g[n - 1]) ELSE g[i]]
    <3>1. f = [g EXCEPT ![n] = Next1(n, g[n - 1])]
      BY <2>5, <2>6
    <3>2. f = [i \in 0..N |-> f[i]] /\ f[0] = lastHash
      BY <1>0, <2>4, <2>6
    <3>3. ASSUME NEW i \in 1..n
          PROVE  f[i] = Next1(i, f[i - 1])
      <4>1. i \in 0..N /\ i - 1 \in 0..N /\ i - 1 # n
        BY <1>0, <2>5
      <4>2. f[i - 1] = g[i - 1]
        BY <4>1
      <4>3. CASE i = n
        BY <4>1, <4>2, <4>3
      <4>4. CASE i # n
        <5>1. i \in 1..(n - 1)
          BY <2>5, <4>4
        <5> QED
          BY <2>6, <4>1, <4>2, <4>4, <5>1
      <4> QED
        BY <4>3, <4>4
    <3> QED
      BY <3>1, <3>2, <3>3
  <2> QED
    BY <2>3, <2>7
<1>2. PICK g : Done(g, N)
  BY <1>0, <1>1
<1>3. g = [i \in 0..N |-> IF i = 0 THEN lastHash ELSE Next1(i, g[i - 1])]
  BY <1>0, <1>2
<1> DEFINE up == CHOOSE f : f = [i \in 0..N |-> IF i = 0 THEN lastHash ELSE Next1(i, f[i - 1])]
<1>4. HashUp(label, lastHash, siblings) = up
  BY DEF HashUp, UpStep
<1>5. up = [i \in 0..N |-> IF i = 0 THEN lastHash ELSE Next1(i, up[i - 1])]
  BY <1>3
<1> HIDE DEF up
<1> QED
  BY <1>0, <1>4, <1>5
-----------------------------------------------------------------------------
(* The invariant. *)

Bits(n) == [1..n -> {0, 1}]

Cut(path, n) == [i \in 1..n |-> path[i]]

\* The tree t holds val for label.
Holds(t, label, val) == \E n \in 0..LabelLen : NodeAt(t, Path(label, n)) = Leaf(label, val)

\* A leaf on the path of its label, and an inner node with the hash of its
\* children.
IsLeafAt(t, path, n) ==
    \E label \in Label, val \in Val :
        path \in DOMAIN t /\ t[path] = Leaf(label, val) /\ path = Path(label, n)

IsInnerAt(t, path, n) ==
    /\ n < LabelLen /\ path \in DOMAIN t
    /\ t[path] = Inner(InnerHash(NodeHash(NodeAt(t, Append(path, 0))),
                                 NodeHash(NodeAt(t, Append(path, 1)))))

NodesInv(t) ==
    \A path \in DOMAIN t : \E n \in 0..LabelLen :
        path \in Bits(n) /\ (IsLeafAt(t, path, n) \/ IsInnerAt(t, path, n))

\* All above a node are inner nodes.
AboveInv(t) ==
    \A n \in 0..LabelLen : \A path \in Bits(n) \cap DOMAIN t : \A d \in 0..(n - 1) :
        NodeAt(t, Cut(path, d)).kind = "inner"

\* Two labels or more are below an inner node.
BelowInv(t) ==
    \A n \in 0..LabelLen : \A path \in Bits(n) \cap DOMAIN t :
        t[path].kind = "inner" =>
            \E label1, label2 \in Label, val1, val2 \in Val :
                /\ Holds(t, label1, val1) /\ Holds(t, label2, val2) /\ label1 # label2
                /\ path = Path(label1, n) /\ path = Path(label2, n)

TreeInv(t) == NodesInv(t) /\ AboveInv(t) /\ BelowInv(t)

-----------------------------------------------------------------------------
(* Paths. *)

\* The bits of a label.
LEMMA BitFacts ==
    ASSUME NEW label \in Label \cup BadLabel, NEW n \in Nat
    PROVE  GetBit(label, n) \in {0, 1}
<1>1. label \in Seq({0, 1})
  BY LabelAssumption
<1> QED
  BY <1>1 DEF GetBit

\* A path and one more bit.
LEMMA AppendBit ==
    ASSUME NEW n \in Nat, NEW path \in Bits(n), NEW b \in {0, 1}
    PROVE  Append(path, b) = [i \in 1..(n + 1) |-> IF i = n + 1 THEN b ELSE path[i]]
<1>1. path \in Seq({0, 1}) /\ Len(path) = n
  BY DEF Bits
<1>2. /\ Append(path, b) \in Seq({0, 1}) /\ Len(Append(path, b)) = n + 1
      /\ \A i \in 1..n : Append(path, b)[i] = path[i]
      /\ Append(path, b)[n + 1] = b
  BY <1>1, AppendProperties
<1>3. Append(path, b) \in [1..(n + 1) -> {0, 1}]
  BY <1>2, LenProperties
<1>4. \A i \in 1..(n + 1) : i # n + 1 => i \in 1..n
  OBVIOUS
<1> QED
  BY <1>2, <1>3, <1>4

\* Sequences of bits as functions.
LEMMA BitsFacts ==
    ASSUME NEW n \in Nat, NEW path \in Bits(n)
    PROVE  /\ path \in Seq({0, 1}) /\ Len(path) = n
           /\ \A b \in {0, 1} :
                /\ Append(path, b) \in Bits(n + 1)
                /\ Append(path, b)[n + 1] = b
                /\ \A d \in 0..n : Cut(Append(path, b), d) = Cut(path, d)
           /\ \A d \in 0..n : Cut(path, d) \in Bits(d)
           /\ Cut(path, n) = path
           /\ \A d \in 0..n : \A e \in 0..d : Cut(Cut(path, d), e) = Cut(path, e)
<1>1. path \in Seq({0, 1}) /\ Len(path) = n
  BY DEF Bits
<1>2. ASSUME NEW b \in {0, 1}
      PROVE  /\ Append(path, b) \in Bits(n + 1)
             /\ Append(path, b)[n + 1] = b
             /\ \A d \in 0..n : Cut(Append(path, b), d) = Cut(path, d)
  <2>1. Append(path, b) = [i \in 1..(n + 1) |-> IF i = n + 1 THEN b ELSE path[i]]
    BY AppendBit
  <2> QED
    BY <2>1 DEF Bits, Cut
<1>3. /\ \A d \in 0..n : Cut(path, d) \in Bits(d)
      /\ Cut(path, n) = path
      /\ \A d \in 0..n : \A e \in 0..d : Cut(Cut(path, d), e) = Cut(path, e)
  BY DEF Bits, Cut
<1> QED
  BY <1>1, <1>2, <1>3

\* A path with one more bit, cut again, is the path.
LEMMA AppendCut ==
    ASSUME NEW n \in Nat, NEW path \in Bits(n), NEW b \in {0, 1}
    PROVE  Append(path, b) \in Bits(n + 1) /\ Cut(Append(path, b), n) = path
<1>1. Append(path, b) = [i \in 1..(n + 1) |-> IF i = n + 1 THEN b ELSE path[i]]
  BY AppendBit
<1>2. Append(path, b) \in Bits(n + 1)
  BY <1>1 DEF Bits
<1>3. Cut(Append(path, b), n) = [i \in 1..n |-> path[i]]
  BY <1>1 DEF Cut
<1> QED
  BY <1>2, <1>3 DEF Bits

\* The paths of a label.
LEMMA PathFacts ==
    ASSUME NEW label \in Label \cup BadLabel, NEW n \in Nat
    PROVE  /\ Path(label, n) \in Bits(n) /\ Path(label, n) \in Seq({0, 1}) /\ Len(Path(label, n)) = n
           /\ \A d \in 0..n : Cut(Path(label, n), d) = Path(label, d)
           /\ Path(label, n + 1) = Append(Path(label, n), GetBit(label, n))
           /\ SibPath(label, n + 1) = Append(Path(label, n), 1 - GetBit(label, n))
           /\ SibPath(label, n) \in Bits(n)
           /\ \A d \in 0..(n - 1) : Cut(SibPath(label, n), d) = Path(label, d)
           /\ n > 0 => SibPath(label, n) # Path(label, n)
<1>1. \A d \in Nat : GetBit(label, d) \in {0, 1}
  BY BitFacts
<1>2. Path(label, n) \in Bits(n)
  BY <1>1 DEF Bits, Path
<1>3. Path(label, n) \in Seq({0, 1}) /\ Len(Path(label, n)) = n
  BY <1>2, BitsFacts
<1>4. \A d \in 0..n : Cut(Path(label, n), d) = Path(label, d)
  BY DEF Cut, Path
<1>5. ASSUME NEW b \in {0, 1}
      PROVE  Append(Path(label, n), b) =
                [i \in 1..(n + 1) |-> IF i = n + 1 THEN b ELSE Path(label, n)[i]]
  BY <1>2, AppendBit, Zenon
<1>6. Path(label, n + 1) = Append(Path(label, n), GetBit(label, n))
  BY <1>1, <1>5 DEF Path
<1>7. SibPath(label, n + 1) = Append(Path(label, n), 1 - GetBit(label, n))
  <2>1. GetBit(label, n) \in {0, 1}
    BY <1>1
  <2>2. 1 - GetBit(label, n) \in {0, 1}
    BY <2>1
  <2> QED
    BY <1>5, <2>2 DEF SibPath, Path
<1>8. SibPath(label, n) \in Bits(n)
  BY <1>1 DEF Bits, SibPath
<1>9. \A d \in 0..(n - 1) : Cut(SibPath(label, n), d) = Path(label, d)
  BY DEF Cut, SibPath, Path
<1>10. ASSUME n > 0
       PROVE  SibPath(label, n) # Path(label, n)
  <2>1. SibPath(label, n)[n] = 1 - GetBit(label, n - 1) /\ Path(label, n)[n] = GetBit(label, n - 1)
    BY <1>10 DEF SibPath, Path
  <2>2. GetBit(label, n - 1) \in {0, 1}
    BY <1>1, <1>10
  <2> QED
    BY <2>1, <2>2
<1> QED
  BY <1>2, <1>3, <1>4, <1>6, <1>7, <1>8, <1>9, <1>10

\* The paths of two labels are the same down to a depth when their bits are.
LEMMA SamePath ==
    ASSUME NEW label1, NEW label2, NEW n \in Nat
    PROVE  /\ Path(label1, n) = Path(label2, n)
                <=> \A d \in 0..(n - 1) : GetBit(label1, d) = GetBit(label2, d)
           /\ Path(label1, n) = Path(label2, n) =>
                \A d \in 0..n : Path(label1, d) = Path(label2, d)
<1>1. ASSUME Path(label1, n) = Path(label2, n), NEW d \in 0..(n - 1)
      PROVE  GetBit(label1, d) = GetBit(label2, d)
  <2>1. d + 1 \in 1..n /\ (d + 1) - 1 = d
    OBVIOUS
  <2>2. Path(label1, n)[d + 1] = GetBit(label1, d) /\ Path(label2, n)[d + 1] = GetBit(label2, d)
    BY <2>1 DEF Path
  <2> QED
    BY <1>1, <2>2
<1>2. ASSUME \A d \in 0..(n - 1) : GetBit(label1, d) = GetBit(label2, d), NEW d \in 0..n
      PROVE  Path(label1, d) = Path(label2, d)
  <2>1. \A i \in 1..d : GetBit(label1, i - 1) = GetBit(label2, i - 1)
    BY <1>2
  <2> QED
    BY <2>1 DEF Path
<1> QED
  BY <1>1, <1>2

\* Different labels part somewhere.
LEMMA SameLabel ==
    ASSUME NEW label1 \in Label, NEW label2 \in Label,
           Path(label1, LabelLen) = Path(label2, LabelLen)
    PROVE  label1 = label2
<1>1. /\ LabelLen \in Nat
      /\ label1 \in Seq({0, 1}) /\ Len(label1) = LabelLen
      /\ label2 \in Seq({0, 1}) /\ Len(label2) = LabelLen
  BY LabelAssumption
<1>2. ASSUME NEW i \in 1..LabelLen
      PROVE  label1[i] = label2[i]
  <2>1. i - 1 \in 0..(LabelLen - 1) /\ i - 1 < LabelLen /\ (i - 1) + 1 = i
    BY <1>1
  <2>2. GetBit(label1, i - 1) = GetBit(label2, i - 1)
    BY <1>1, <2>1, SamePath
  <2> QED
    BY <1>1, <2>1, <2>2 DEF GetBit
<1> QED
  BY <1>1, <1>2

\* A path has one length.
LEMMA OneLength ==
    ASSUME NEW n \in Nat, NEW m \in Nat, NEW path \in Bits(n), path \in Bits(m)
    PROVE  n = m
<1>1. Len(path) = n /\ Len(path) = m
  BY BitsFacts
<1> QED
  BY <1>1

-----------------------------------------------------------------------------
(* Nodes. *)

\* The three kinds of nodes are told apart, and so are their hashes.
LEMMA Kinds ==
    /\ \A l, v : Leaf(l, v).kind = "leaf" /\ Leaf(l, v).hash = LeafHash(l, v)
                 /\ Leaf(l, v).label = l /\ Leaf(l, v).val = v
    /\ \A hash : Inner(hash).kind = "inner" /\ Inner(hash).hash = hash
    /\ Nil.kind = "nil"
    /\ \A l1, v1, l2, v2 :
        /\ Leaf(l1, v1) = Leaf(l2, v2) => l1 = l2 /\ v1 = v2
        /\ LeafHash(l1, v1) = LeafHash(l2, v2) => l1 = l2 /\ v1 = v2
        /\ InnerHash(l1, v1) = InnerHash(l2, v2) => l1 = l2 /\ v1 = v2
        /\ LeafHash(l1, v1) # InnerHash(l2, v2)
    /\ \A l1, v1 : LeafHash(l1, v1) # EmptyHash /\ InnerHash(l1, v1) # EmptyHash
<1>1. /\ \A l, v : Leaf(l, v).kind = "leaf" /\ Leaf(l, v).hash = LeafHash(l, v)
                   /\ Leaf(l, v).label = l /\ Leaf(l, v).val = v
      /\ \A hash : Inner(hash).kind = "inner" /\ Inner(hash).hash = hash
      /\ Nil.kind = "nil"
  BY DEF Leaf, Inner, Nil
<1>2. \A l1, v1, l2, v2 :
        /\ LeafHash(l1, v1) = LeafHash(l2, v2) => l1 = l2 /\ v1 = v2
        /\ InnerHash(l1, v1) = InnerHash(l2, v2) => l1 = l2 /\ v1 = v2
  BY DEF LeafHash, InnerHash
<1>3. \A l1, v1, l2, v2 : LeafHash(l1, v1) # InnerHash(l2, v2)
  BY DEF LeafHash, InnerHash
<1>4. \A l1, v1 : LeafHash(l1, v1) # EmptyHash /\ InnerHash(l1, v1) # EmptyHash
  BY DEF LeafHash, InnerHash, EmptyHash
<1>5. ASSUME NEW l1, NEW v1, NEW l2, NEW v2, Leaf(l1, v1) = Leaf(l2, v2)
      PROVE  l1 = l2 /\ v1 = v2
  <2>1. /\ Leaf(l1, v1).label = l1 /\ Leaf(l1, v1).val = v1
        /\ Leaf(l2, v2).label = l2 /\ Leaf(l2, v2).val = v2
    BY <1>1
  <2> QED
    BY <1>5, <2>1
<1> QED
  BY <1>1, <1>2, <1>3, <1>4, <1>5

\* What is at a path: nothing, a leaf or an inner node.
LEMMA NodeCases ==
    ASSUME NEW t, NodesInv(t), NEW n \in 0..LabelLen, NEW path \in Bits(n)
    PROVE  \/ path \notin DOMAIN t /\ NodeAt(t, path) = Nil
           \/ NodeAt(t, path) = t[path] /\ IsLeafAt(t, path, n)
           \/ NodeAt(t, path) = t[path] /\ IsInnerAt(t, path, n)
<1>1. CASE path \notin DOMAIN t
  BY <1>1 DEF NodeAt
<1>2. CASE path \in DOMAIN t
  <2>1. PICK m \in 0..LabelLen :
            path \in Bits(m) /\ (IsLeafAt(t, path, m) \/ IsInnerAt(t, path, m))
    BY <1>2 DEF NodesInv
  <2>2. m = n
    <3>1. m \in Nat /\ n \in Nat
      BY LabelAssumption
    <3> QED
      BY <2>1, <3>1, OneLength
  <2>3. NodeAt(t, path) = t[path]
    BY <1>2 DEF NodeAt
  <2>4. IsLeafAt(t, path, n) \/ IsInnerAt(t, path, n)
    BY <2>1, <2>2
  <2> QED
    BY <2>3, <2>4
<1> QED
  BY <1>1, <1>2

\* Where the path of a label ends.
LEMMA EndFacts ==
    ASSUME TreeInv(tree), NEW label \in Label \cup BadLabel
    PROVE  /\ EndDepth(label) \in 0..LabelLen
           /\ NodeAt(tree, Path(label, EndDepth(label))).kind # "inner"
           /\ \A d \in 0..(EndDepth(label) - 1) : NodeAt(tree, Path(label, d)).kind = "inner"
<1> DEFINE Ends(d) == NodeAt(tree, Path(label, d)).kind # "inner"
           S == {d \in 0..LabelLen : Ends(d)}
<1>0. LabelLen \in Nat
  BY LabelAssumption
<1>1. LabelLen \in S
  <2>1. Path(label, LabelLen) \in Bits(LabelLen) /\ LabelLen \in 0..LabelLen
    BY <1>0, PathFacts
  <2>2. ~IsInnerAt(tree, Path(label, LabelLen), LabelLen)
    BY <1>0 DEF IsInnerAt
  <2>3. NodesInv(tree)
    BY DEF TreeInv
  <2>4. CASE NodeAt(tree, Path(label, LabelLen)) = Nil
    BY <2>1, <2>4, Kinds
  <2>5. CASE /\ NodeAt(tree, Path(label, LabelLen)) = tree[Path(label, LabelLen)]
             /\ IsLeafAt(tree, Path(label, LabelLen), LabelLen)
    <3>1. PICK l, v : NodeAt(tree, Path(label, LabelLen)) = Leaf(l, v)
      BY <2>5, Zenon DEF IsLeafAt
    <3> QED
      BY <2>1, <3>1, Kinds
  <2> QED
    BY <2>1, <2>2, <2>3, <2>4, <2>5, NodeCases
<1>2. PICK m \in S : \A d \in S : m <= d
  <2>1. S \in SUBSET Nat /\ S # {}
    BY <1>0, <1>1
  <2> HIDE DEF S
  <2> QED
    BY <2>1, LeastNumber
<1>3. /\ m \in 0..LabelLen /\ NodeAt(tree, Path(label, m)).kind # "inner"
      /\ \A d \in 0..(m - 1) : NodeAt(tree, Path(label, d)).kind = "inner"
  BY <1>0, <1>2
<1> QED
  BY <1>3 DEF EndDepth

\* A leaf is where the path ends.
LEMMA EndIsLeaf ==
    ASSUME TreeInv(tree), NEW label \in Label \cup BadLabel, NEW n \in 0..LabelLen,
           NodeAt(tree, Path(label, n)).kind # "inner",
           Path(label, n) \in DOMAIN tree
    PROVE  EndDepth(label) = n
<1>0. LabelLen \in Nat
  BY LabelAssumption
<1>1. Path(label, n) \in Bits(n) /\ \A d \in 0..n : Cut(Path(label, n), d) = Path(label, d)
  BY <1>0, PathFacts
<1>2. \A d \in 0..(n - 1) : NodeAt(tree, Cut(Path(label, n), d)).kind = "inner"
  BY <1>1 DEF TreeInv, AboveInv
<1>3. \A d \in 0..(n - 1) : NodeAt(tree, Path(label, d)).kind = "inner"
  BY <1>0, <1>1, <1>2
<1>4. ~(EndDepth(label) < n)
  BY <1>0, <1>3, EndFacts
<1>5. ~(n < EndDepth(label))
  BY <1>0, EndFacts
<1> QED
  BY <1>0, <1>4, <1>5, EndFacts

\* The end of a path above which all are inner nodes.
LEMMA EndIsThere ==
    ASSUME TreeInv(tree), NEW label \in Label \cup BadLabel, NEW n \in 0..LabelLen,
           NodeAt(tree, Path(label, n)).kind # "inner",
           \A d \in 0..(n - 1) : NodeAt(tree, Path(label, d)).kind = "inner"
    PROVE  EndDepth(label) = n
<1>0. LabelLen \in Nat
  BY LabelAssumption
<1> QED
  BY <1>0, EndFacts

\* What the tree holds for a label is at the end of its path.
LEMMA HoldsAtEnd ==
    ASSUME TreeInv(tree), NEW label \in Label, NEW val
    PROVE  Holds(tree, label, val) <=> Find(label) = Leaf(label, val)
<1>1. ASSUME Holds(tree, label, val)
      PROVE  Find(label) = Leaf(label, val)
  <2>1. PICK n \in 0..LabelLen : NodeAt(tree, Path(label, n)) = Leaf(label, val)
    BY <1>1 DEF Holds
  <2>2. NodeAt(tree, Path(label, n)).kind = "leaf"
    BY <2>1, Kinds
  <2>3. Path(label, n) \in DOMAIN tree
    BY <2>2, Kinds DEF NodeAt
  <2>4. EndDepth(label) = n
    BY <2>2, <2>3, EndIsLeaf
  <2> QED
    BY <2>1, <2>4 DEF Find
<1>2. ASSUME Find(label) = Leaf(label, val)
      PROVE  Holds(tree, label, val)
  BY <1>2, EndFacts DEF Find, Holds
<1> QED
  BY <1>1, <1>2

\* The leaf or nil node at the end of a path.
LEMMA EndCases ==
    ASSUME TreeInv(tree), NEW label \in Label \cup BadLabel
    PROVE  \/ Find(label) = Nil /\ Path(label, EndDepth(label)) \notin DOMAIN tree
           \/ \E l \in Label, v \in Val :
                /\ Path(label, EndDepth(label)) \in DOMAIN tree
                /\ Find(label) = Leaf(l, v)
                /\ Path(label, EndDepth(label)) = Path(l, EndDepth(label))
<1>0. LabelLen \in Nat
  BY LabelAssumption
<1> DEFINE e == EndDepth(label)
<1>1. e \in 0..LabelLen /\ e \in Nat
  BY <1>0, EndFacts
<1>2. Path(label, e) \in Bits(e)
  BY <1>1, PathFacts
<1>3. Find(label) = NodeAt(tree, Path(label, e)) /\ Find(label).kind # "inner"
  BY EndFacts DEF Find
<1>4. NodesInv(tree)
  BY DEF TreeInv
<1> HIDE DEF e
<1>5. ~(NodeAt(tree, Path(label, e)) = tree[Path(label, e)] /\ IsInnerAt(tree, Path(label, e), e))
  BY <1>3, Kinds DEF IsInnerAt
<1>6. CASE Path(label, e) \notin DOMAIN tree /\ NodeAt(tree, Path(label, e)) = Nil
  BY <1>3, <1>6 DEF e
<1>7. CASE NodeAt(tree, Path(label, e)) = tree[Path(label, e)] /\ IsLeafAt(tree, Path(label, e), e)
  BY <1>3, <1>7, Zenon DEF IsLeafAt, e
<1> QED
  BY <1>1, <1>2, <1>4, <1>5, <1>6, <1>7, NodeCases

\* Get returns what the tree holds, and Contents is the map of it.
LEMMA GetFacts ==
    ASSUME TreeInv(tree), NEW label \in Label
    PROVE  /\ Get(label).inTree <=> \E val \in Val : Holds(tree, label, val)
           /\ \A val : Holds(tree, label, val) <=> Get(label).inTree /\ Get(label).val = val
           /\ \A val : Holds(tree, label, val) => val \in Val
<1> DEFINE end == Find(label)
           in == end.kind = "leaf" /\ end.label = label
<1>1. /\ Get(label).inTree = in
      /\ Get(label).val = IF in THEN end.val ELSE NoVal
  BY DEF Get
<1>2. \A val : Holds(tree, label, val) <=> end = Leaf(label, val)
  BY HoldsAtEnd
<1>3. \/ end = Nil
      \/ \E l \in Label, v \in Val : end = Leaf(l, v)
  BY EndCases
<1> HIDE DEF end
<1>4. CASE end = Nil
  <2>1. ~in /\ \A val : end # Leaf(label, val)
    BY <1>4, Kinds
  <2> HIDE DEF in
  <2> QED
    BY <1>1, <1>2, <2>1
<1>5. ASSUME NEW l \in Label, NEW v \in Val, end = Leaf(l, v)
      PROVE  /\ in <=> \E val \in Val : end = Leaf(label, val)
             /\ \A val : end = Leaf(label, val) <=> in /\ end.val = val
             /\ \A val : end = Leaf(label, val) => val \in Val
  <2>1. end.kind = "leaf" /\ end.label = l /\ end.val = v
    BY <1>5, Kinds
  <2>2. ASSUME NEW val
        PROVE  end = Leaf(label, val) <=> l = label /\ v = val
    <3>1. Leaf(l, v) = Leaf(label, val) => l = label /\ v = val
      BY Kinds
    <3> QED
      BY <1>5, <3>1
  <2> QED
    BY <2>1, <2>2
<1>6. CASE \E l \in Label, v \in Val : end = Leaf(l, v)
  <2>1. /\ in <=> \E val \in Val : end = Leaf(label, val)
        /\ \A val : end = Leaf(label, val) <=> in /\ end.val = val
        /\ \A val : end = Leaf(label, val) => val \in Val
    BY <1>5, <1>6
  <2> HIDE DEF in
  <2> QED
    BY <1>1, <1>2, <2>1
<1> QED
  BY <1>3, <1>4, <1>6

\* The contents are the entries that leaves of the tree hold.
LEMMA ContentsFacts ==
    ASSUME TreeInv(tree)
    PROVE  /\ Contents \in Maps
           /\ \A label \in Label :
                /\ label \in DOMAIN Contents <=> \E val \in Val : Holds(tree, label, val)
                /\ \A val : Holds(tree, label, val) <=>
                        label \in DOMAIN Contents /\ Contents[label] = val
<1> DEFINE In == {l \in Label : Get(l).inTree}
<1>1. Contents = [label \in In |-> Get(label).val]
  BY DEF Contents
<1>2. \A label \in In : Get(label).val \in Val
  BY GetFacts
<1>3. Contents \in [In -> Val] /\ In \in SUBSET Label
  BY <1>1, <1>2
<1> QED
  BY <1>1, <1>3, GetFacts DEF Maps

-----------------------------------------------------------------------------
(* Proofs. *)

\* The hash of an inner node on the path of a label.
LEMMA InnerStep ==
    ASSUME TreeInv(tree), NEW label \in Label \cup BadLabel, NEW d \in 0..LabelLen,
           NodeAt(tree, Path(label, d)).kind = "inner"
    PROVE  /\ d < LabelLen
           /\ NodeHash(NodeAt(tree, Path(label, d))) =
                LET child == NodeHash(NodeAt(tree, Path(label, d + 1)))
                    sib == NodeHash(NodeAt(tree, SibPath(label, d + 1)))
                IN  IF GetBit(label, d) = 0 THEN InnerHash(child, sib) ELSE InnerHash(sib, child)
<1>0. LabelLen \in Nat /\ d \in Nat
  BY LabelAssumption
<1> DEFINE p == Path(label, d)
           n == NodeAt(tree, p)
           hash0 == NodeHash(NodeAt(tree, Append(p, 0)))
           hash1 == NodeHash(NodeAt(tree, Append(p, 1)))
<1>1. /\ p \in Bits(d)
      /\ Path(label, d + 1) = Append(p, GetBit(label, d))
      /\ SibPath(label, d + 1) = Append(p, 1 - GetBit(label, d))
  BY <1>0, PathFacts
<1>2. GetBit(label, d) \in {0, 1}
  BY <1>0, BitFacts
<1>3. d < LabelLen /\ n = Inner(InnerHash(hash0, hash1))
  <2>1. NodesInv(tree)
    BY DEF TreeInv
  <2>2. n.kind = "inner"
    OBVIOUS
  <2>3. n # Nil /\ ~(n = tree[p] /\ IsLeafAt(tree, p, d))
    BY <2>2, Kinds DEF IsLeafAt
  <2>4. n = tree[p] /\ IsInnerAt(tree, p, d)
    BY <1>1, <2>1, <2>3, NodeCases
  <2> QED
    BY <2>4 DEF IsInnerAt
<1>4. NodeHash(n) = InnerHash(hash0, hash1)
  BY <1>3, Kinds DEF NodeHash
<1>5. CASE GetBit(label, d) = 0
  <2>1. Path(label, d + 1) = Append(p, 0)
    BY <1>1, <1>5
  <2>2. 1 - GetBit(label, d) = 1
    BY <1>5
  <2>3. SibPath(label, d + 1) = Append(p, 1)
    BY <1>1, <2>2, Zenon
  <2> QED
    BY <1>3, <1>4, <1>5, <2>1, <2>3
<1>6. CASE GetBit(label, d) = 1
  <2>1. Path(label, d + 1) = Append(p, 1)
    BY <1>1, <1>6
  <2>2. 1 - GetBit(label, d) = 0
    BY <1>6
  <2>3. SibPath(label, d + 1) = Append(p, 0)
    BY <1>1, <2>2, Zenon
  <2> QED
    BY <1>3, <1>4, <1>6, <2>1, <2>3
<1> QED
  BY <1>2, <1>5, <1>6

\* The path of no bits is the root's.
LEMMA RootPath ==
    ASSUME NEW label
    PROVE  Path(label, 0) = <<>>
BY DEF Path

\* The hashes up from the end of a path are those of its nodes.
LEMMA UpIsPath ==
    ASSUME TreeInv(tree), NEW label \in Label \cup BadLabel, NEW depth \in 0..LabelLen,
           \A d \in 0..(depth - 1) : NodeAt(tree, Path(label, d)).kind = "inner"
    PROVE  VerifySiblings(label, NodeHash(NodeAt(tree, Path(label, depth))),
                          Siblings(tree, label, depth), TreeDigest)
<1>0. LabelLen \in Nat /\ depth \in Nat
  BY LabelAssumption
<1> DEFINE lastHash == NodeHash(NodeAt(tree, Path(label, depth)))
           sibs == Siblings(tree, label, depth)
           up == HashUp(label, lastHash, sibs)
           At(d) == NodeHash(NodeAt(tree, Path(label, d)))
           Wrong == {i \in 0..depth : up[i] # At(depth - i)}
<1>1. /\ Len(sibs) = depth
      /\ \A i \in 1..depth : sibs[i] = NodeHash(NodeAt(tree, SibPath(label, depth + 1 - i)))
  BY <1>0 DEF Siblings
<1> HIDE DEF sibs
<1>2. /\ up[0] = lastHash
      /\ \A i \in 1..depth : up[i] = UpStep(label, sibs, i, up[i - 1])
  BY <1>0, <1>1, HashUpSteps
<1> HIDE DEF up
<1>3. Wrong = {}
  <2>1. SUFFICES ASSUME Wrong # {}
                 PROVE  FALSE
    OBVIOUS
  <2>2. PICK i \in Wrong : \A j \in Wrong : i <= j
    <3>1. Wrong \in SUBSET Nat
      BY <1>0
    <3> HIDE DEF Wrong
    <3> QED
      BY <2>1, <3>1, LeastNumber
  <2>3. i # 0
    BY <1>0, <1>2, <2>2
  <2>4. /\ i \in 1..depth /\ i - 1 \in 0..depth /\ depth - i \in 0..(depth - 1)
        /\ depth - i \in 0..LabelLen /\ depth - (i - 1) = (depth - i) + 1
        /\ depth + 1 - i = (depth - i) + 1
    BY <1>0, <2>2, <2>3
  <2>5. up[i - 1] = At(depth - i + 1)
    <3>1. i - 1 \notin Wrong
      BY <2>2, <2>4
    <3> QED
      BY <2>4, <3>1
  <2>6. up[i] = UpStep(label, sibs, i, up[i - 1])
    BY <1>2, <2>4
  <2>7. sibs[i] = NodeHash(NodeAt(tree, SibPath(label, depth - i + 1)))
    BY <1>1, <2>4
  <2>8. At(depth - i) = IF GetBit(label, depth - i) = 0
                        THEN InnerHash(At(depth - i + 1), sibs[i])
                        ELSE InnerHash(sibs[i], At(depth - i + 1))
    <3>1. NodeAt(tree, Path(label, depth - i)).kind = "inner"
      BY <2>4
    <3> QED
      BY <2>4, <2>7, <3>1, InnerStep
  <2>9. up[i] = At(depth - i)
    BY <1>1, <2>5, <2>6, <2>8 DEF UpStep
  <2> QED
    BY <2>2, <2>9
<1>4. up[depth] = TreeDigest
  <2>1. up[depth] = At(depth - depth) /\ depth - depth = 0
    BY <1>0, <1>3
  <2> QED
    BY <2>1, RootPath DEF TreeDigest
<1> QED
  BY <1>1, <1>4 DEF VerifySiblings, up, sibs

\* Every label, in the tree or not, is proved to be what it is.
LEMMA CompleteProofs ==
    ASSUME TreeInv(tree)
    PROVE  ProofsComplete
<1>1. SUFFICES ASSUME NEW label \in Label \cup BadLabel
               PROVE  Verify(Prove(label).inTree, label, Prove(label).val,
                             Prove(label).proof, TreeDigest)
  BY DEF ProofsComplete
<1> DEFINE depth == EndDepth(label)
           end == Find(label)
           in == end.kind = "leaf" /\ end.label = label
           other == end.kind = "leaf" /\ ~in
           sibs == Siblings(tree, label, depth)
<1>2. VerifySiblings(label, NodeHash(end), sibs, TreeDigest)
  BY EndFacts, UpIsPath DEF Find
<1>3. /\ Prove(label).inTree = in
      /\ Prove(label).val = IF in THEN end.val ELSE NoVal
      /\ Prove(label).proof = [siblings |-> sibs, foundOtherLeaf |-> other,
                               leafLabel |-> IF other THEN end.label ELSE <<>>,
                               leafVal |-> IF other THEN end.val ELSE NoVal]
  BY DEF Prove, Get
<1>4. \/ end = Nil
      \/ \E l \in Label, v \in Val : end = Leaf(l, v)
  BY EndCases
<1> HIDE DEF end, sibs
<1>5. CASE end = Nil
  <2>1. ~in /\ ~other /\ NodeHash(end) = EmptyHash
    BY <1>5, Kinds DEF NodeHash
  <2> HIDE DEF in, other
  <2> QED
    BY <1>2, <1>3, <2>1 DEF Verify
<1>6. ASSUME NEW l \in Label, NEW v \in Val, end = Leaf(l, v)
      PROVE  Verify(Prove(label).inTree, label, Prove(label).val,
                    Prove(label).proof, TreeDigest)
  <2>1. end.kind = "leaf" /\ end.label = l /\ end.val = v /\ NodeHash(end) = LeafHash(l, v)
    BY <1>6, Kinds DEF NodeHash
  <2>2. CASE l = label
    <3>1. in /\ ~other
      BY <2>1, <2>2
    <3> HIDE DEF in, other
    <3> QED
      BY <1>2, <1>3, <2>1, <2>2, <3>1 DEF Verify
  <2>3. CASE l # label
    <3>1. ~in /\ other
      BY <2>1, <2>3
    <3> HIDE DEF in, other
    <3> QED
      BY <1>2, <1>3, <2>1, <2>3, <3>1 DEF Verify, IsOtherLeaf
  <2> QED
    BY <2>2, <2>3
<1> QED
  BY <1>4, <1>5, <1>6

\* A hash of an inner node, of a leaf or of nothing is that of such a node.
LEMMA HashTellsNode ==
    ASSUME TreeInv(tree), NEW label \in Label \cup BadLabel, NEW d \in 0..LabelLen
    PROVE  LET n == NodeAt(tree, Path(label, d))
           IN  /\ \A h0, h1 : NodeHash(n) = InnerHash(h0, h1) => n.kind = "inner"
               /\ \A l, v : NodeHash(n) = LeafHash(l, v) => n = Leaf(l, v)
               /\ NodeHash(n) = EmptyHash => n = Nil
<1>0. LabelLen \in Nat /\ d \in Nat
  BY LabelAssumption
<1> DEFINE n == NodeAt(tree, Path(label, d))
<1>1. Path(label, d) \in Bits(d) /\ NodesInv(tree)
  BY <1>0, PathFacts DEF TreeInv
<1>2. \/ n = Nil
      \/ \E l, v : n = Leaf(l, v)
      \/ \E h0, h1 : n = Inner(InnerHash(h0, h1))
  BY <1>1, NodeCases DEF IsLeafAt, IsInnerAt
<1> HIDE DEF n
<1>3. CASE n = Nil
  <2>1. NodeHash(n) = EmptyHash
    BY <1>3, Kinds DEF NodeHash
  <2> QED
    BY <1>3, <2>1, Kinds DEF n
<1>4. ASSUME NEW l, NEW v, n = Leaf(l, v)
      PROVE  /\ \A h0, h1 : NodeHash(n) # InnerHash(h0, h1)
             /\ \A l2, v2 : NodeHash(n) = LeafHash(l2, v2) => n = Leaf(l2, v2)
             /\ NodeHash(n) # EmptyHash
  <2>1. NodeHash(n) = LeafHash(l, v)
    BY <1>4, Kinds DEF NodeHash
  <2> QED
    BY <1>4, <2>1, Kinds
<1>5. ASSUME NEW g0, NEW g1, n = Inner(InnerHash(g0, g1))
      PROVE  /\ n.kind = "inner"
             /\ \A l, v : NodeHash(n) # LeafHash(l, v)
             /\ NodeHash(n) # EmptyHash
  <2>1. NodeHash(n) = InnerHash(g0, g1) /\ n.kind = "inner"
    BY <1>5, Kinds DEF NodeHash
  <2> QED
    BY <2>1, Kinds
<1>6. CASE \E l, v : n = Leaf(l, v)
  BY <1>4, <1>6 DEF n
<1>7. CASE \E h0, h1 : n = Inner(InnerHash(h0, h1))
  BY <1>5, <1>7 DEF n
<1> QED
  BY <1>2, <1>3, <1>6, <1>7

\* Hashes that lead up to the digest, from one that is not of an inner node,
\* are those of the nodes on the way, whatever the siblings are.
LEMMA DownFromDigest ==
    ASSUME TreeInv(tree), NEW label \in Label \cup BadLabel, NEW lastHash, NEW siblings,
           Len(siblings) \in 0..LabelLen,
           \A h0, h1 : lastHash # InnerHash(h0, h1),
           VerifySiblings(label, lastHash, siblings, TreeDigest)
    PROVE  /\ NodeHash(NodeAt(tree, Path(label, Len(siblings)))) = lastHash
           /\ \A d \in 0..(Len(siblings) - 1) : NodeAt(tree, Path(label, d)).kind = "inner"
<1> DEFINE n == Len(siblings)
           up == HashUp(label, lastHash, siblings)
           At(d) == NodeHash(NodeAt(tree, Path(label, d)))
           Wrong == {d \in 0..n : up[n - d] # At(d)}
<1>0. LabelLen \in Nat /\ n \in Nat /\ n \in 0..LabelLen
  BY LabelAssumption
<1>1. /\ up[0] = lastHash
      /\ \A i \in 1..n : up[i] = UpStep(label, siblings, i, up[i - 1])
  BY <1>0, HashUpSteps
<1>2. up[n] = TreeDigest
  BY DEF VerifySiblings
<1> HIDE DEF up, n
<1>3. ASSUME NEW d \in 0..(n - 1), up[n - d] = At(d)
      PROVE  NodeAt(tree, Path(label, d)).kind = "inner" /\ up[n - (d + 1)] = At(d + 1)
  <2>1. /\ n - d \in 1..n /\ (n - d) - 1 = n - (d + 1) /\ n - (n - d) = d /\ d \in 0..LabelLen
        /\ n - d \in Nat
    BY <1>0
  <2>2. At(d) = IF GetBit(label, d) = 0 THEN InnerHash(up[n - (d + 1)], siblings[n - d])
                                        ELSE InnerHash(siblings[n - d], up[n - (d + 1)])
    <3>1. up[n - d] = UpStep(label, siblings, n - d, up[(n - d) - 1])
      BY <1>1, <2>1
    <3> QED
      BY <1>3, <2>1, <3>1 DEF UpStep, n
  <2>3. NodeAt(tree, Path(label, d)).kind = "inner"
    BY <2>1, <2>2, HashTellsNode
  <2>4. \E sib : At(d) = IF GetBit(label, d) = 0 THEN InnerHash(At(d + 1), sib)
                                                 ELSE InnerHash(sib, At(d + 1))
    BY <2>1, <2>3, InnerStep
  <2>5. \A x, y, z, w : (IF GetBit(label, d) = 0 THEN InnerHash(x, y) ELSE InnerHash(y, x))
                         = (IF GetBit(label, d) = 0 THEN InnerHash(z, w) ELSE InnerHash(w, z))
                         => x = z
    BY Kinds
  <2> QED
    BY <2>2, <2>3, <2>4, <2>5
<1>4. Wrong = {}
  <2>1. SUFFICES ASSUME Wrong # {}
                 PROVE  FALSE
    OBVIOUS
  <2>2. PICK d \in Wrong : \A j \in Wrong : d <= j
    <3>1. Wrong \in SUBSET Nat
      BY <1>0
    <3> HIDE DEF Wrong
    <3> QED
      BY <2>1, <3>1, LeastNumber
  <2>3. d # 0
    <3>1. up[n - 0] = At(0) /\ n - 0 = n
      BY <1>0, <1>2, RootPath DEF TreeDigest
    <3> QED
      BY <2>2, <3>1
  <2>4. d \in 1..n /\ d - 1 \in 0..(n - 1) /\ d - 1 \in 0..n /\ (d - 1) + 1 = d /\ d - 1 < d
    BY <1>0, <2>2, <2>3
  <2>5. up[n - (d - 1)] = At(d - 1)
    <3>1. d - 1 \notin Wrong
      BY <2>2, <2>4
    <3> QED
      BY <2>4, <3>1
  <2>6. up[n - ((d - 1) + 1)] = At((d - 1) + 1)
    BY <1>3, <2>4, <2>5
  <2> QED
    BY <2>2, <2>4, <2>6
<1>5. \A d \in 0..n : up[n - d] = At(d)
  BY <1>4
<1>6. At(n) = lastHash
  <2>1. n \in 0..n /\ n - n = 0
    BY <1>0
  <2> QED
    BY <1>1, <1>5, <2>1
<1>7. \A d \in 0..(n - 1) : NodeAt(tree, Path(label, d)).kind = "inner"
  BY <1>0, <1>3, <1>5
<1> QED
  BY <1>6, <1>7 DEF n

\* What a proof that verifies tells of the end of the label's path.
LEMMA VerifiedEnd ==
    ASSUME TreeInv(tree), NEW label \in Label, NEW lastHash, NEW siblings,
           Len(siblings) \in 0..LabelLen,
           VerifySiblings(label, lastHash, siblings, TreeDigest)
    PROVE  /\ lastHash = EmptyHash => Find(label) = Nil
           /\ \A l, v : lastHash = LeafHash(l, v) => Find(label) = Leaf(l, v)
<1> DEFINE n == Len(siblings)
           end == NodeAt(tree, Path(label, n))
<1>1. ASSUME \A h0, h1 : lastHash # InnerHash(h0, h1), end.kind # "inner" \/ end = Nil
      PROVE  Find(label) = end
  <2>1. \A d \in 0..(n - 1) : NodeAt(tree, Path(label, d)).kind = "inner"
    BY <1>1, DownFromDigest
  <2>2. end.kind # "inner"
    BY <1>1, Kinds
  <2>3. EndDepth(label) = n
    BY <2>1, <2>2, EndIsThere
  <2> QED
    BY <2>3 DEF Find
<1>2. ASSUME lastHash = EmptyHash
      PROVE  Find(label) = Nil
  <2>1. \A h0, h1 : lastHash # InnerHash(h0, h1)
    BY <1>2, Kinds
  <2>2. NodeHash(end) = EmptyHash
    BY <1>2, <2>1, DownFromDigest
  <2>3. end = Nil
    BY <2>2, HashTellsNode
  <2> QED
    BY <1>1, <2>1, <2>3
<1>3. ASSUME NEW l, NEW v, lastHash = LeafHash(l, v)
      PROVE  Find(label) = Leaf(l, v)
  <2>1. \A h0, h1 : lastHash # InnerHash(h0, h1)
    BY <1>3, Kinds
  <2>2. NodeHash(end) = LeafHash(l, v)
    BY <1>3, <2>1, DownFromDigest
  <2>3. end = Leaf(l, v)
    BY <2>2, HashTellsNode
  <2>4. end.kind # "inner"
    BY <2>3, Kinds
  <2> QED
    BY <1>1, <2>1, <2>3, <2>4
<1> QED
  BY <1>2, <1>3

\* No proof shows what is not so.
LEMMA SoundProofs ==
    ASSUME TreeInv(tree)
    PROVE  ProofsSound
<1>1. SUFFICES ASSUME NEW siblings \in SiblingLists, NEW proof \in ForgedProofs(siblings),
                      NEW label \in Label
               PROVE  /\ Verify(FALSE, label, NoVal, proof, TreeDigest) =>
                            label \notin DOMAIN Contents
                      /\ \A val \in Val :
                            Verify(TRUE, label, val, proof, TreeDigest) =>
                                label \in DOMAIN Contents /\ Contents[label] = val
  BY DEF ProofsSound
<1>2. Len(siblings) \in 0..LabelLen
  <2>1. PICK n \in 0..LabelLen : siblings \in [1..n -> Hashes]
    BY DEF SiblingLists
  <2>2. n \in Nat
    BY LabelAssumption
  <2> QED
    BY <2>1, <2>2
<1>3. proof.siblings = siblings /\ proof.foundOtherLeaf \in BOOLEAN
  BY DEF ForgedProofs
<1>4. ASSUME Verify(FALSE, label, NoVal, proof, TreeDigest)
      PROVE  label \notin DOMAIN Contents
  <2>1. CASE proof.foundOtherLeaf = TRUE
    <3>1. /\ proof.leafLabel # label
          /\ VerifySiblings(label, LeafHash(proof.leafLabel, proof.leafVal), siblings, TreeDigest)
      BY <1>3, <1>4, <2>1 DEF Verify, IsOtherLeaf
    <3>2. Find(label) = Leaf(proof.leafLabel, proof.leafVal)
      BY <1>2, <3>1, VerifiedEnd
    <3>3. \A val : Find(label) # Leaf(label, val)
      BY <3>1, <3>2, Kinds
    <3>4. \A val : ~Holds(tree, label, val)
      BY <3>3, HoldsAtEnd
    <3> QED
      BY <3>4, ContentsFacts
  <2>2. CASE proof.foundOtherLeaf = FALSE
    <3>1. VerifySiblings(label, EmptyHash, siblings, TreeDigest)
      BY <1>3, <1>4, <2>2 DEF Verify
    <3>2. Find(label) = Nil
      BY <1>2, <3>1, VerifiedEnd
    <3>3. \A val : Find(label) # Leaf(label, val)
      BY <3>2, Kinds
    <3>4. \A val : ~Holds(tree, label, val)
      BY <3>3, HoldsAtEnd
    <3> QED
      BY <3>4, ContentsFacts
  <2> QED
    BY <1>3, <2>1, <2>2
<1>5. ASSUME NEW val \in Val, Verify(TRUE, label, val, proof, TreeDigest)
      PROVE  label \in DOMAIN Contents /\ Contents[label] = val
  <2>1. VerifySiblings(label, LeafHash(label, val), siblings, TreeDigest)
    BY <1>3, <1>5 DEF Verify
  <2>2. Find(label) = Leaf(label, val)
    BY <1>2, <2>1, VerifiedEnd
  <2>3. Holds(tree, label, val)
    BY <2>2, HoldsAtEnd
  <2> QED
    BY <2>3, ContentsFacts
<1> QED
  BY <1>4, <1>5

-----------------------------------------------------------------------------
(* Put: the nodes on the path of the label. *)

OnPath(label, depth) == {Path(label, d) : d \in 0..depth}

\* The tree with a leaf for the label at a depth, and new hashes above it.
Fill(t, label, val, depth) ==
    [path \in DOMAIN t \cup OnPath(label, depth) |->
        CASE path = Path(label, depth) -> Leaf(label, val)
          [] path \in OnPath(label, depth) \ {Path(label, depth)} ->
                Inner(HashUp(label, LeafHash(label, val), Siblings(t, label, depth))
                        [depth - Len(path)])
          [] OTHER -> t[path]]

\* The paths of a label are as many as its depths.
LEMMA PathDepth ==
    ASSUME NEW label \in Label \cup BadLabel, NEW n \in Nat, NEW m \in Nat,
           Path(label, n) \in Bits(m)
    PROVE  n = m
BY PathFacts, OneLength

\* It differs on the path only, and there are a leaf and inner nodes.
Filled(t, b, label, val, depth) ==
    /\ DOMAIN t = DOMAIN b \cup OnPath(label, depth)
    /\ t[Path(label, depth)] = Leaf(label, val)
    /\ \A path : path \notin OnPath(label, depth) => NodeAt(t, path) = NodeAt(b, path)
    /\ \A d \in 0..(depth - 1) :
         t[Path(label, d)] = Inner(InnerHash(NodeHash(NodeAt(t, Append(Path(label, d), 0))),
                                             NodeHash(NodeAt(t, Append(Path(label, d), 1)))))

\* Hashing up from a new leaf hashes every node above it from its children.
LEMMA FillFacts ==
    ASSUME NEW b, NEW label \in Label, NEW val, NEW depth \in 0..LabelLen,
           NEW t, t = Fill(b, label, val, depth)
    PROVE  Filled(t, b, label, val, depth)
<1> DEFINE P(d) == Path(label, d)
           sibs == Siblings(b, label, depth)
           up == HashUp(label, LeafHash(label, val), sibs)
<1>0. LabelLen \in Nat /\ depth \in Nat
  BY LabelAssumption
<1>1. DOMAIN t = DOMAIN b \cup OnPath(label, depth)
  BY DEF Fill
<1>2. \A d \in 0..depth : P(d) \in OnPath(label, depth) /\ P(d) \in Bits(d) /\ Len(P(d)) = d
  BY <1>0, PathFacts DEF OnPath
<1>3. t[P(depth)] = Leaf(label, val)
  BY <1>0, <1>2 DEF Fill
<1>4. ASSUME NEW path, path \notin OnPath(label, depth)
      PROVE  NodeAt(t, path) = NodeAt(b, path)
  <2>1. path # P(depth)
    BY <1>0, <1>2, <1>4
  <2>2. path \in DOMAIN t <=> path \in DOMAIN b
    BY <1>1, <1>4
  <2>3. path \in DOMAIN b => t[path] = b[path]
    BY <1>4, <2>1 DEF Fill
  <2> QED
    BY <2>2, <2>3 DEF NodeAt
<1>5. ASSUME NEW d \in 0..(depth - 1)
      PROVE  P(d) # P(depth) /\ t[P(d)] = Inner(up[depth - d])
  <2>1. P(d) # P(depth) /\ d \in 0..depth
    BY <1>0, <1>2
  <2>2. P(d) \in OnPath(label, depth) /\ Len(P(d)) = d
    BY <1>2, <2>1
  <2>3. t[P(d)] = Inner(up[depth - Len(P(d))])
    BY <2>1, <2>2, Zenon DEF Fill
  <2> QED
    BY <2>1, <2>2, <2>3
<1>6. /\ Len(sibs) = depth
      /\ \A i \in 1..depth : sibs[i] = NodeHash(NodeAt(b, SibPath(label, depth + 1 - i)))
  BY <1>0 DEF Siblings
<1> HIDE DEF sibs
<1>7. /\ up[0] = LeafHash(label, val)
      /\ \A i \in 1..depth : up[i] = UpStep(label, sibs, i, up[i - 1])
  BY <1>0, <1>6, HashUpSteps
<1> HIDE DEF up
<1>8. ASSUME NEW d \in 0..depth
      PROVE  NodeHash(NodeAt(t, P(d))) = up[depth - d]
  <2>1. P(d) \in DOMAIN t
    BY <1>1, <1>2
  <2>2. CASE d = depth
    <3>1. depth - d = 0
      BY <1>0, <2>2
    <3>2. NodeHash(t[P(d)]) = LeafHash(label, val)
      BY <1>3, <2>2, Kinds DEF NodeHash
    <3> QED
      BY <1>7, <2>1, <3>1, <3>2 DEF NodeAt
  <2>3. CASE d # depth
    <3>1. d \in 0..(depth - 1)
      BY <1>0, <2>3
    <3>2. NodeHash(t[P(d)]) = up[depth - d]
      BY <1>5, <3>1, Kinds DEF NodeHash
    <3> QED
      BY <2>1, <3>2 DEF NodeAt
  <2> QED
    BY <2>2, <2>3
<1>9. ASSUME NEW d \in 0..(depth - 1)
      PROVE  NodeHash(NodeAt(t, SibPath(label, d + 1))) = sibs[depth - d]
  <2>1. d + 1 \in 1..depth /\ d + 1 \in Nat /\ depth - d \in 1..depth /\ depth + 1 - (depth - d) = d + 1
    BY <1>0
  <2>2. SibPath(label, d + 1) \in Bits(d + 1) /\ SibPath(label, d + 1) # P(d + 1)
    <3>1. label \in Label \cup BadLabel /\ d + 1 > 0
      BY <1>0
    <3>2. \A n \in Nat : /\ SibPath(label, n) \in Bits(n)
                         /\ n > 0 => SibPath(label, n) # Path(label, n)
      BY <3>1, PathFacts
    <3> QED
      BY <2>1, <3>1, <3>2
  <2>3. \A e \in 0..depth : SibPath(label, d + 1) # P(e)
    BY <1>0, <2>1, <2>2, PathDepth
  <2>4. SibPath(label, d + 1) \notin OnPath(label, depth)
    BY <2>3 DEF OnPath
  <2> QED
    BY <1>4, <1>6, <2>1, <2>4
<1>10. ASSUME NEW d \in 0..(depth - 1)
       PROVE  up[depth - d] = InnerHash(NodeHash(NodeAt(t, Append(P(d), 0))),
                                        NodeHash(NodeAt(t, Append(P(d), 1))))
  <2>1. /\ depth - d \in 1..depth /\ (depth - d) - 1 = depth - (d + 1) /\ depth - (depth - d) = d
        /\ d + 1 \in 0..depth /\ d \in Nat
    BY <1>0
  <2>2. up[depth - d] = IF GetBit(label, d) = 0
                        THEN InnerHash(up[depth - (d + 1)], sibs[depth - d])
                        ELSE InnerHash(sibs[depth - d], up[depth - (d + 1)])
    <3>1. up[depth - d] = UpStep(label, sibs, depth - d, up[(depth - d) - 1])
      BY <1>7, <2>1
    <3>2. Len(sibs) - (depth - d) = d
      BY <1>6, <2>1
    <3> QED
      BY <2>1, <3>1, <3>2 DEF UpStep
  <2>3. GetBit(label, d) \in {0, 1}
    BY <2>1, BitFacts
  <2>4. P(d + 1) = Append(P(d), GetBit(label, d)) /\ SibPath(label, d + 1) = Append(P(d), 1 - GetBit(label, d))
    BY <2>1, PathFacts
  <2>5. up[depth - (d + 1)] = NodeHash(NodeAt(t, P(d + 1)))
    BY <1>8, <2>1
  <2>6. sibs[depth - d] = NodeHash(NodeAt(t, SibPath(label, d + 1)))
    BY <1>9
  <2>7. CASE GetBit(label, d) = 0
    <3>1. 1 - GetBit(label, d) = 1
      BY <2>7
    <3>2. P(d + 1) = Append(P(d), 0) /\ SibPath(label, d + 1) = Append(P(d), 1)
      BY <2>4, <2>7, <3>1, Zenon
    <3> QED
      BY <2>2, <2>5, <2>6, <2>7, <3>2
  <2>8. CASE GetBit(label, d) = 1
    <3>1. 1 - GetBit(label, d) = 0
      BY <2>8
    <3>2. P(d + 1) = Append(P(d), 1) /\ SibPath(label, d + 1) = Append(P(d), 0)
      BY <2>4, <2>8, <3>1, Zenon
    <3> QED
      BY <2>2, <2>5, <2>6, <2>8, <3>2
  <2> QED
    BY <2>3, <2>7, <2>8
<1> QED
  BY <1>1, <1>3, <1>4, <1>5, <1>10 DEF Filled

\* What a tree has to be for a leaf to be put into it at a depth: what is off
\* the path of the label is as it was, and nothing is below.
Ready(b, label, depth) ==
    /\ \A q \in DOMAIN b \ OnPath(label, depth) : \E n \in 0..LabelLen :
            q \in Bits(n) /\ (IsLeafAt(b, q, n) \/ IsInnerAt(b, q, n))
    /\ \A q \in DOMAIN b \ OnPath(label, depth) :
            b[q].kind = "inner" => q \in DOMAIN tree /\ tree[q] = b[q]
    /\ \A n \in 0..LabelLen : \A q \in (DOMAIN b \cap Bits(n)) \ OnPath(label, depth) :
            \A d \in 0..(n - 1) :
                /\ Cut(q, d) # Path(label, depth)
                /\ Cut(q, d) \notin OnPath(label, depth) =>
                        NodeAt(b, Cut(q, d)).kind = "inner"
    /\ \A d \in 0..depth : \A l \in Label : \A v :
            NodeAt(b, Path(label, d)) = Leaf(l, v) => l = label
    /\ \A l \in Label \ {label} : \A v : Holds(b, l, v) <=> Holds(tree, l, v)
    /\ \A d \in 0..(depth - 1) : \E l \in Label \ {label}, v \in Val :
            Holds(tree, l, v) /\ Path(label, d) = Path(l, d)

\* After put has filled in a leaf, every node is a leaf or an inner node with its hash,
LEMMA FillNodes ==
    ASSUME NEW b, NEW label \in Label, NEW val \in Val, NEW depth \in 0..LabelLen,
           Ready(b, label, depth), NEW t, Filled(t, b, label, val, depth)
    PROVE  NodesInv(t)
<1>0. LabelLen \in Nat /\ depth \in Nat
  BY LabelAssumption
<1>1. SUFFICES ASSUME NEW q \in DOMAIN t
               PROVE  \E n \in 0..LabelLen :
                        q \in Bits(n) /\ (IsLeafAt(t, q, n) \/ IsInnerAt(t, q, n))
  BY DEF NodesInv
<1>2. CASE q \in OnPath(label, depth)
  <2>1. PICK d \in 0..depth : q = Path(label, d)
    BY <1>2 DEF OnPath
  <2>2. d \in 0..LabelLen /\ q \in Bits(d)
    BY <1>0, <2>1, PathFacts
  <2>3. CASE d = depth
    <3>1. t[q] = Leaf(label, val)
      BY <2>1, <2>3 DEF Filled
    <3>2. IsLeafAt(t, q, d)
      BY <2>1, <3>1 DEF IsLeafAt
    <3> QED
      BY <2>2, <3>2
  <2>4. CASE d # depth
    <3>1. d \in 0..(depth - 1) /\ d < LabelLen
      BY <1>0, <2>4
    <3>2. t[q] = Inner(InnerHash(NodeHash(NodeAt(t, Append(q, 0))),
                                 NodeHash(NodeAt(t, Append(q, 1)))))
      BY <2>1, <3>1 DEF Filled
    <3>3. IsInnerAt(t, q, d)
      BY <3>1, <3>2 DEF IsInnerAt
    <3> QED
      BY <2>2, <3>3
  <2> QED
    BY <2>3, <2>4
<1>3. CASE q \notin OnPath(label, depth)
  <2>1. q \in DOMAIN b
    BY <1>3 DEF Filled
  <2>2. PICK n \in 0..LabelLen : q \in Bits(n) /\ (IsLeafAt(b, q, n) \/ IsInnerAt(b, q, n))
    BY <1>3, <2>1 DEF Ready
  <2>3. t[q] = b[q]
    <3>1. NodeAt(t, q) = NodeAt(b, q)
      BY <1>3 DEF Filled
    <3> QED
      BY <2>1, <3>1 DEF NodeAt
  <2>4. ASSUME NEW bit \in {0, 1}
        PROVE  NodeAt(t, Append(q, bit)) = NodeAt(b, Append(q, bit))
    <3>0. n \in Nat /\ n + 1 \in Nat
      BY <1>0
    <3>1. Append(q, bit) \in Bits(n + 1) /\ Cut(Append(q, bit), n) = q
      BY <2>2, <3>0, AppendCut
    <3>2. ASSUME NEW m \in 0..depth, Append(q, bit) = Path(label, m)
          PROVE  FALSE
      <4>1. m = n + 1
        BY <1>0, <3>0, <3>1, <3>2, PathDepth
      <4>2. n \in 0..m /\ n \in 0..depth /\ m \in Nat
        BY <1>0, <3>0, <4>1
      <4>3. Cut(Path(label, m), n) = Path(label, n)
        BY <4>2, PathFacts
      <4>4. q \in OnPath(label, depth)
        BY <3>1, <3>2, <4>2, <4>3 DEF OnPath
      <4> QED
        BY <1>3, <4>4
    <3>3. Append(q, bit) \notin OnPath(label, depth)
      BY <3>2 DEF OnPath
    <3> QED
      BY <3>3 DEF Filled
  <2>5. CASE IsLeafAt(b, q, n)
    <3>1. IsLeafAt(t, q, n)
      BY <2>3, <2>5 DEF IsLeafAt
    <3> QED
      BY <2>2, <3>1
  <2>6. CASE IsInnerAt(b, q, n)
    <3>1. /\ NodeAt(t, Append(q, 0)) = NodeAt(b, Append(q, 0))
          /\ NodeAt(t, Append(q, 1)) = NodeAt(b, Append(q, 1))
      BY <2>4
    <3>2. IsInnerAt(t, q, n)
      BY <2>3, <2>6, <3>1 DEF IsInnerAt
    <3> QED
      BY <2>2, <3>2
  <2> QED
    BY <2>2, <2>5, <2>6
<1> QED
  BY <1>2, <1>3

\* what is above a node is an inner node,
LEMMA FillAbove ==
    ASSUME NEW b, NEW label \in Label, NEW val \in Val, NEW depth \in 0..LabelLen,
           Ready(b, label, depth), NEW t, Filled(t, b, label, val, depth)
    PROVE  AboveInv(t)
<1>0. LabelLen \in Nat /\ depth \in Nat
  BY LabelAssumption
<1>1. SUFFICES ASSUME NEW n \in 0..LabelLen, NEW q \in Bits(n) \cap DOMAIN t, NEW d \in 0..(n - 1)
               PROVE  NodeAt(t, Cut(q, d)).kind = "inner"
  BY DEF AboveInv
<1>2. ASSUME NEW m \in 0..(depth - 1)
      PROVE  NodeAt(t, Path(label, m)).kind = "inner"
  <2>1. m \in 0..depth
    BY <1>0
  <2>2. Path(label, m) \in DOMAIN t
    BY <2>1 DEF OnPath, Filled
  <2>3. \E hash : t[Path(label, m)] = Inner(hash)
    BY DEF Filled
  <2> QED
    BY <2>2, <2>3, Kinds DEF NodeAt
<1>3. CASE q \in OnPath(label, depth)
  <2>1. PICK m \in 0..depth : q = Path(label, m)
    BY <1>3 DEF OnPath
  <2>2. m = n
    BY <1>0, <2>1, PathDepth
  <2>3. Cut(q, d) = Path(label, d) /\ d \in 0..(depth - 1)
    <3>1. d \in 0..m /\ m \in Nat /\ d \in 0..(depth - 1)
      BY <1>0, <2>2
    <3> QED
      BY <2>1, <3>1, PathFacts
  <2> QED
    BY <1>2, <2>3
<1>4. CASE q \notin OnPath(label, depth)
  <2>1. q \in (DOMAIN b \cap Bits(n)) \ OnPath(label, depth)
    BY <1>4 DEF Filled
  <2>2. /\ Cut(q, d) # Path(label, depth)
        /\ Cut(q, d) \notin OnPath(label, depth) => NodeAt(b, Cut(q, d)).kind = "inner"
    BY <2>1 DEF Ready
  <2>3. CASE Cut(q, d) \in OnPath(label, depth)
    <3>1. PICK m \in 0..depth : Cut(q, d) = Path(label, m)
      BY <2>3 DEF OnPath
    <3>2. m \in 0..(depth - 1)
      BY <1>0, <2>2, <3>1
    <3> QED
      BY <1>2, <3>1, <3>2
  <2>4. CASE Cut(q, d) \notin OnPath(label, depth)
    BY <2>2, <2>4 DEF Filled
  <2> QED
    BY <2>3, <2>4
<1> QED
  BY <1>3, <1>4

\* the label has the new value, and the others what they had,
LEMMA FillHolds ==
    ASSUME NEW b, NEW label \in Label, NEW val \in Val, NEW depth \in 0..LabelLen,
           Ready(b, label, depth), NEW t, Filled(t, b, label, val, depth),
           NEW l \in Label, NEW v
    PROVE  Holds(t, l, v) <=> IF l = label THEN v = val ELSE Holds(tree, l, v)
<1>0. LabelLen \in Nat /\ depth \in Nat
  BY LabelAssumption
<1>1. /\ Path(label, depth) \in DOMAIN t
      /\ NodeAt(t, Path(label, depth)) = Leaf(label, val)
  <2>1. depth \in 0..depth
    BY <1>0
  <2>2. Path(label, depth) \in DOMAIN t
    BY <2>1 DEF OnPath, Filled
  <2> QED
    BY <2>2 DEF NodeAt, Filled
<1>2. ASSUME NEW m \in 0..(depth - 1), NEW l2, NEW v2
      PROVE  NodeAt(t, Path(label, m)) # Leaf(l2, v2)
  <2>1. m \in 0..depth
    BY <1>0
  <2>2. Path(label, m) \in DOMAIN t
    BY <2>1 DEF OnPath, Filled
  <2>3. \E hash : t[Path(label, m)] = Inner(hash)
    BY DEF Filled
  <2>4. NodeAt(t, Path(label, m)).kind = "inner"
    BY <2>2, <2>3, Kinds DEF NodeAt
  <2> QED
    BY <2>4, Kinds
<1>3. ASSUME l = label, v = val
      PROVE  Holds(t, l, v)
  BY <1>1, <1>3 DEF Holds
<1>4. ASSUME l = label, Holds(t, l, v)
      PROVE  v = val
  <2>1. PICK n \in 0..LabelLen : NodeAt(t, Path(label, n)) = Leaf(label, v)
    BY <1>4 DEF Holds
  <2>2. ~(n < depth)
    BY <1>0, <1>2, <2>1
  <2>3. CASE n = depth
    <3>1. Leaf(label, v) = Leaf(label, val)
      BY <1>1, <2>1, <2>3
    <3> QED
      BY <3>1, Kinds
  <2>4. CASE n > depth
    <3>1. \A m \in 0..depth : Path(label, n) # Path(label, m)
      <4>1. Path(label, n) \in Bits(n) /\ n \in Nat
        BY <1>0, PathFacts
      <4> QED
        BY <1>0, <2>4, <4>1, PathDepth
    <3>2. Path(label, n) \notin OnPath(label, depth)
      BY <3>1 DEF OnPath
    <3>3. NodeAt(t, Path(label, n)) # Nil
      BY <2>1, Kinds
    <3>4. Path(label, n) \in DOMAIN b
      BY <3>2, <3>3 DEF NodeAt, Filled
    <3>5. Path(label, n) \in Bits(n) /\ Cut(Path(label, n), depth) = Path(label, depth)
      <4>1. n \in Nat /\ depth \in 0..n
        BY <1>0, <2>4
      <4> QED
        BY <4>1, PathFacts
    <3>6. depth \in 0..(n - 1)
      BY <1>0, <2>4
    <3> QED
      BY <3>2, <3>4, <3>5, <3>6 DEF Ready
  <2> QED
    BY <1>0, <2>2, <2>3, <2>4
<1>5. ASSUME l # label
      PROVE  Holds(t, l, v) <=> Holds(b, l, v)
  <2>1. ASSUME NEW n \in 0..LabelLen
        PROVE  NodeAt(t, Path(l, n)) = Leaf(l, v) <=> NodeAt(b, Path(l, n)) = Leaf(l, v)
    <3>1. CASE Path(l, n) \notin OnPath(label, depth)
      BY <3>1 DEF Filled
    <3>2. CASE Path(l, n) \in OnPath(label, depth)
      <4>1. PICK m \in 0..depth : Path(l, n) = Path(label, m)
        BY <3>2 DEF OnPath
      <4>2. NodeAt(b, Path(label, m)) # Leaf(l, v)
        BY <1>5 DEF Ready
      <4>3. NodeAt(t, Path(label, m)) # Leaf(l, v)
        <5>1. CASE m = depth
          BY <1>1, <1>5, <5>1, Kinds
        <5>2. CASE m # depth
          <6>1. m \in 0..(depth - 1)
            BY <1>0, <5>2
          <6> QED
            BY <1>2, <6>1
        <5> QED
          BY <5>1, <5>2
      <4> QED
        BY <4>1, <4>2, <4>3
    <3> QED
      BY <3>1, <3>2
  <2> QED
    BY <2>1 DEF Holds
<1>6. ASSUME l # label
      PROVE  Holds(b, l, v) <=> Holds(tree, l, v)
  BY <1>6 DEF Ready
<1> QED
  BY <1>3, <1>4, <1>5, <1>6

\* and below each inner node are two labels.
LEMMA FillBelow ==
    ASSUME BelowInv(tree),
           NEW b, NEW label \in Label, NEW val \in Val, NEW depth \in 0..LabelLen,
           Ready(b, label, depth), NEW t, Filled(t, b, label, val, depth)
    PROVE  BelowInv(t)
<1>0. LabelLen \in Nat /\ depth \in Nat
  BY LabelAssumption
<1> DEFINE Two(n, q) == \E label1, label2 \in Label, val1, val2 \in Val :
                /\ Holds(t, label1, val1) /\ Holds(t, label2, val2) /\ label1 # label2
                /\ q = Path(label1, n) /\ q = Path(label2, n)
<1>1. SUFFICES ASSUME NEW n \in 0..LabelLen, NEW q \in Bits(n) \cap DOMAIN t, t[q].kind = "inner"
               PROVE  Two(n, q)
  BY DEF BelowInv
<1>2. \A l \in Label, v \in Val : Holds(t, l, v) <=> IF l = label THEN v = val ELSE Holds(tree, l, v)
  BY FillHolds
<1>3. CASE q \in OnPath(label, depth)
  <2>1. PICK m \in 0..depth : q = Path(label, m)
    BY <1>3 DEF OnPath
  <2>2. m = n
    BY <1>0, <2>1, PathDepth
  <2>3. m # depth
    <3>1. ASSUME m = depth
          PROVE  FALSE
      <4>1. t[q] = Leaf(label, val)
        BY <2>1, <3>1 DEF Filled
      <4> QED
        BY <1>1, <4>1, Kinds
    <3> QED
      BY <3>1
  <2>4. m \in 0..(depth - 1)
    BY <1>0, <2>3
  <2>5. PICK l \in Label \ {label}, v \in Val : Holds(tree, l, v) /\ Path(label, m) = Path(l, m)
    BY <2>4 DEF Ready
  <2>6. Holds(t, l, v) /\ Holds(t, label, val) /\ l # label
    BY <1>2, <2>5
  <2> QED
    BY <2>1, <2>2, <2>5, <2>6
<1>4. CASE q \notin OnPath(label, depth)
  <2>1. q \in DOMAIN b /\ t[q] = b[q]
    <3>1. q \in DOMAIN b
      BY <1>4 DEF Filled
    <3>2. NodeAt(t, q) = NodeAt(b, q)
      BY <1>4 DEF Filled
    <3> QED
      BY <3>1, <3>2 DEF NodeAt
  <2>2. q \in DOMAIN tree /\ tree[q] = b[q]
    BY <1>1, <1>4, <2>1 DEF Ready
  <2>3. PICK label1, label2 \in Label, val1, val2 \in Val :
                /\ Holds(tree, label1, val1) /\ Holds(tree, label2, val2) /\ label1 # label2
                /\ q = Path(label1, n) /\ q = Path(label2, n)
    BY <1>1, <2>1, <2>2 DEF BelowInv
  <2>4. /\ \E v1 \in Val : Holds(t, label1, v1)
        /\ \E v2 \in Val : Holds(t, label2, v2)
    BY <1>2, <2>3
  <2> QED
    BY <2>3, <2>4
<1> QED
  BY <1>3, <1>4

\* Nothing is replaced with an inner node: put ends at a nil node or at the
\* label's leaf.
LEMMA StayReady ==
    ASSUME TreeInv(tree), NEW label \in Label,
           Find(label) = Nil \/ \E v : Find(label) = Leaf(label, v)
    PROVE  Ready(tree, label, EndDepth(label))
<1> DEFINE depth == EndDepth(label)
<1>0. LabelLen \in Nat /\ depth \in 0..LabelLen /\ depth \in Nat
  BY LabelAssumption, EndFacts
<1>1. /\ NodeAt(tree, Path(label, depth)).kind # "inner"
      /\ \A d \in 0..(depth - 1) : NodeAt(tree, Path(label, d)).kind = "inner"
  BY EndFacts
<1>2. NodeAt(tree, Path(label, depth)) = Find(label)
  BY DEF Find
<1> HIDE DEF depth
<1>3. \A q \in DOMAIN tree \ OnPath(label, depth) : \E n \in 0..LabelLen :
        q \in Bits(n) /\ (IsLeafAt(tree, q, n) \/ IsInnerAt(tree, q, n))
  BY DEF TreeInv, NodesInv
<1>4. ASSUME NEW n \in 0..LabelLen, NEW q \in (DOMAIN tree \cap Bits(n)) \ OnPath(label, depth),
             NEW d \in 0..(n - 1)
      PROVE  /\ Cut(q, d) # Path(label, depth)
             /\ NodeAt(tree, Cut(q, d)).kind = "inner"
  <2>1. NodeAt(tree, Cut(q, d)).kind = "inner"
    BY DEF TreeInv, AboveInv
  <2> QED
    BY <1>1, <2>1
<1>5. ASSUME NEW d \in 0..depth, NEW l \in Label, NEW v, NodeAt(tree, Path(label, d)) = Leaf(l, v)
      PROVE  l = label
  <2>1. NodeAt(tree, Path(label, d)).kind = "leaf"
    BY <1>5, Kinds
  <2>2. d = depth
    BY <1>0, <1>1, <2>1
  <2>3. Find(label) = Leaf(l, v)
    BY <1>2, <1>5, <2>2
  <2>4. Find(label) # Nil
    BY <2>3, Kinds
  <2>5. PICK w : Find(label) = Leaf(label, w)
    BY <2>4
  <2>6. Leaf(l, v) = Leaf(label, w)
    BY <2>3, <2>5
  <2> QED
    BY <2>6, Kinds
<1>6. ASSUME NEW d \in 0..(depth - 1)
      PROVE  \E l \in Label \ {label}, v \in Val : Holds(tree, l, v) /\ Path(label, d) = Path(l, d)
  <2>1. NodeAt(tree, Path(label, d)).kind = "inner" /\ d \in 0..LabelLen /\ Path(label, d) \in Bits(d)
    <3>1. d \in Nat /\ d \in 0..LabelLen
      BY <1>0
    <3> QED
      BY <1>1, <3>1, PathFacts
  <2>2. Path(label, d) \in DOMAIN tree /\ tree[Path(label, d)].kind = "inner"
    BY <2>1, Kinds DEF NodeAt
  <2>3. PICK label1, label2 \in Label, val1, val2 \in Val :
            /\ Holds(tree, label1, val1) /\ Holds(tree, label2, val2) /\ label1 # label2
            /\ Path(label, d) = Path(label1, d) /\ Path(label, d) = Path(label2, d)
    BY <2>1, <2>2 DEF TreeInv, BelowInv
  <2> QED
    BY <2>3
<1>7. /\ \A q \in DOMAIN tree \ OnPath(label, depth) :
            tree[q].kind = "inner" => q \in DOMAIN tree /\ tree[q] = tree[q]
      /\ \A l \in Label \ {label} : \A v : Holds(tree, l, v) <=> Holds(tree, l, v)
  OBVIOUS
<1>8. Ready(tree, label, depth)
  BY <1>3, <1>4, <1>5, <1>6, <1>7 DEF Ready
<1> QED
  BY <1>8 DEF depth

\* Where the paths of two labels part.
LEMMA ForkFacts ==
    ASSUME NEW label \in Label, NEW other \in Label, label # other,
           NEW depth \in 0..LabelLen, Path(label, depth) = Path(other, depth)
    PROVE  LET fork == ForkDepth(label, other, depth)
           IN  /\ fork \in (depth + 1)..LabelLen
               /\ Path(label, fork) # Path(other, fork)
               /\ \A d \in 0..(fork - 1) : Path(label, d) = Path(other, d)
<1>0. LabelLen \in Nat /\ depth \in Nat
  BY LabelAssumption
<1> DEFINE Fork(d) == /\ GetBit(label, d - 1) # GetBit(other, d - 1)
                      /\ \A i \in depth..(d - 2) : GetBit(label, i) = GetBit(other, i)
           S == {d \in Nat : d < LabelLen /\ GetBit(label, d) # GetBit(other, d)}
           fork == ForkDepth(label, other, depth)
<1>1. \E d \in (depth + 1)..LabelLen : Fork(d)
  <2>1. S # {}
    <3>1. SUFFICES ASSUME S = {}
                   PROVE  FALSE
      OBVIOUS
    <3>2. \A d \in 0..(LabelLen - 1) : GetBit(label, d) = GetBit(other, d)
      BY <1>0, <3>1
    <3>3. Path(label, LabelLen) = Path(other, LabelLen)
      BY <1>0, <3>2, SamePath
    <3> QED
      BY <3>3, SameLabel
  <2>2. PICK m \in S : \A d \in S : m <= d
    <3>1. S \in SUBSET Nat
      OBVIOUS
    <3> HIDE DEF S
    <3> QED
      BY <2>1, <3>1, LeastNumber
  <2>3. \A d \in 0..(depth - 1) : GetBit(label, d) = GetBit(other, d)
    BY <1>0, SamePath
  <2>4. m + 1 \in (depth + 1)..LabelLen /\ (m + 1) - 1 = m /\ (m + 1) - 2 = m - 1
    BY <1>0, <2>2, <2>3
  <2>5. \A i \in depth..(m - 1) : GetBit(label, i) = GetBit(other, i)
    BY <1>0, <2>2
  <2> QED
    BY <2>2, <2>4, <2>5
<1>2. fork \in (depth + 1)..LabelLen /\ Fork(fork)
  BY <1>1, Zenon DEF ForkDepth
<1> HIDE DEF fork
<1>3. \A i \in 0..(depth - 1) : GetBit(label, i) = GetBit(other, i)
  BY <1>0, SamePath
<1>4. \A i \in 0..(fork - 2) : GetBit(label, i) = GetBit(other, i)
  BY <1>0, <1>2, <1>3
<1>5. fork - 1 \in Nat /\ (fork - 1) - 1 = fork - 2 /\ fork \in Nat /\ fork - 1 \in 0..(fork - 1)
  BY <1>0, <1>2
<1>6. Path(label, fork - 1) = Path(other, fork - 1)
  BY <1>4, <1>5, SamePath
<1>7. \A d \in 0..(fork - 1) : Path(label, d) = Path(other, d)
  BY <1>5, <1>6, SamePath
<1>8. Path(label, fork) # Path(other, fork)
  BY <1>2, <1>5, SamePath
<1> QED
  BY <1>2, <1>7, <1>8 DEF fork

\* A leaf of another label is replaced with inner nodes.
LEMMA SplitReady ==
    ASSUME TreeInv(tree), NEW label \in Label, NEW other \in Label, label # other,
           NEW old \in Val, Find(label) = Leaf(other, old),
           NEW depth, depth = EndDepth(label), NEW fork, fork = ForkDepth(label, other, depth),
           NEW b, b = Split(tree, Path(label, depth), Path(other, fork))
    PROVE  fork \in 0..LabelLen /\ Ready(b, label, fork)
<1> DEFINE P(d) == Path(label, d)
           from == Path(label, depth)
           to == Path(other, fork)
<1>0. LabelLen \in Nat /\ depth \in 0..LabelLen /\ depth \in Nat
  BY LabelAssumption, EndFacts
<1>1. /\ NodeAt(tree, from) = Leaf(other, old)
      /\ \A d \in 0..(depth - 1) : NodeAt(tree, P(d)).kind = "inner"
  BY EndFacts DEF Find
<1>2. from \in DOMAIN tree /\ tree[from] = Leaf(other, old)
  <2>1. NodeAt(tree, from) # Nil
    BY <1>1, Kinds
  <2> QED
    BY <1>1, <2>1 DEF NodeAt
<1>3. from = Path(other, depth)
  <2>1. PICK l \in Label, v \in Val : Find(label) = Leaf(l, v) /\ from = Path(l, depth)
    <3>1. Find(label) # Nil
      BY Kinds
    <3> QED
      BY <3>1, EndCases
  <2>2. l = other
    <3>1. Leaf(l, v) = Leaf(other, old)
      BY <2>1
    <3> QED
      BY <3>1, Kinds
  <2> QED
    BY <2>1, <2>2
<1>4. /\ fork \in (depth + 1)..LabelLen /\ P(fork) # to
      /\ \A d \in 0..(fork - 1) : P(d) = Path(other, d)
  BY <1>0, <1>3, ForkFacts
<1>5. fork \in Nat /\ fork \in 0..LabelLen /\ fork - 1 \in Nat /\ depth < fork /\ depth \in 0..fork
  BY <1>0, <1>4
<1>6. to \in Bits(fork) /\ (\A d \in 0..(fork - 1) : Cut(to, d) = P(d)) /\ P(fork) \in Bits(fork)
  <2>1. to \in Bits(fork) /\ \A d \in 0..fork : Cut(to, d) = Path(other, d)
    BY <1>5, PathFacts
  <2>2. \A d \in 0..(fork - 1) : d \in 0..fork
    BY <1>5
  <2>3. P(fork) \in Bits(fork)
    BY <1>5, PathFacts
  <2> QED
    BY <1>4, <2>1, <2>2, <2>3
\* Nothing is below the leaf.
<1>7. ASSUME NEW n \in 0..LabelLen, NEW q \in Bits(n) \cap DOMAIN tree, depth < n
      PROVE  Cut(q, depth) # from
  <2>1. depth \in 0..(n - 1)
    BY <1>0, <1>7
  <2>2. NodeAt(tree, Cut(q, depth)).kind = "inner"
    BY <2>1 DEF TreeInv, AboveInv
  <2> QED
    BY <1>1, <2>2, Kinds
<1>8. ASSUME NEW d \in (depth + 1)..fork
      PROVE  P(d) \notin DOMAIN tree
  <2>1. d \in 0..LabelLen /\ depth < d /\ depth \in 0..d /\ d \in Nat
    BY <1>0, <1>4
  <2>2. P(d) \in Bits(d) /\ Cut(P(d), depth) = from
    BY <2>1, PathFacts
  <2> QED
    BY <1>7, <2>1, <2>2
<1>9. to \notin DOMAIN tree
  <2>1. Cut(to, depth) = from
    <3>1. depth \in 0..(fork - 1)
      BY <1>0, <1>4
    <3> QED
      BY <1>6, <3>1
  <2> QED
    BY <1>5, <1>6, <1>7, <2>1
<1>10. to \notin OnPath(label, fork)
  <2>1. ASSUME NEW m \in 0..fork, to = P(m)
        PROVE  FALSE
    <3>1. m = fork
      BY <1>5, <1>6, <2>1, PathDepth
    <3> QED
      BY <1>4, <2>1, <3>1
  <2> QED
    BY <2>1 DEF OnPath
<1>11. from \in OnPath(label, fork)
  BY <1>5 DEF OnPath
<1>12. /\ DOMAIN b = (DOMAIN tree \ {from}) \cup {to}
       /\ b[to] = Leaf(other, old)
       /\ \A q \in DOMAIN tree \ {from} : b[q] = tree[q]
  BY <1>2, <1>9 DEF Split
<1> HIDE DEF from, to
<1>13. \A q : q # from /\ q # to => NodeAt(b, q) = NodeAt(tree, q)
  BY <1>12 DEF NodeAt
<1>14. \A d \in 0..(depth - 1) : P(d) # from /\ P(d) # to /\ NodeAt(b, P(d)).kind = "inner"
  <2>1. ASSUME NEW d \in 0..(depth - 1)
        PROVE  P(d) # from /\ P(d) # to
    <3>1. d \in Nat /\ d \in 0..fork /\ d # depth
      BY <1>0, <1>5
    <3>2. P(d) \in OnPath(label, fork)
      BY <3>1 DEF OnPath
    <3>3. P(d) # from
      <4>1. P(d) \in Bits(d)
        BY <3>1, PathFacts
      <4>2. P(depth) \in Bits(d) => depth = d
        BY <1>0, <3>1, PathDepth
      <4> QED
        BY <3>1, <4>1, <4>2 DEF from
    <3> QED
      BY <1>10, <3>2, <3>3
  <2> QED
    BY <1>1, <1>13, <2>1
<1>15. \A d \in 0..fork : d \notin 0..(depth - 1) => NodeAt(b, P(d)) = Nil
  <2>1. ASSUME NEW d \in 0..fork, d \notin 0..(depth - 1)
        PROVE  P(d) \notin DOMAIN b
    <3>1. P(d) # to
      BY <1>10 DEF OnPath
    <3>2. d = depth \/ d \in (depth + 1)..fork
      BY <1>0, <1>5, <2>1
    <3>3. CASE d = depth
      BY <1>12, <3>1, <3>3 DEF from
    <3>4. CASE d \in (depth + 1)..fork
      BY <1>8, <1>12, <3>1, <3>4
    <3> QED
      BY <3>2, <3>3, <3>4
  <2> QED
    BY <2>1 DEF NodeAt
<1>16. ASSUME NEW q \in DOMAIN b \ OnPath(label, fork)
       PROVE  \E n \in 0..LabelLen : q \in Bits(n) /\ (IsLeafAt(b, q, n) \/ IsInnerAt(b, q, n))
  <2>1. CASE q = to
    <3>1. IsLeafAt(b, q, fork)
      BY <1>12, <2>1 DEF IsLeafAt, to
    <3> QED
      BY <1>5, <1>6, <2>1, <3>1
  <2>2. CASE q # to
    <3>1. q \in DOMAIN tree /\ q # from /\ b[q] = tree[q]
      BY <1>11, <1>12, <2>2
    <3>2. PICK n \in 0..LabelLen :
            q \in Bits(n) /\ (IsLeafAt(tree, q, n) \/ IsInnerAt(tree, q, n))
      BY <3>1 DEF TreeInv, NodesInv
    <3>3. CASE IsLeafAt(tree, q, n)
      <4>1. IsLeafAt(b, q, n)
        BY <3>1, <3>3 DEF IsLeafAt
      <4> QED
        BY <3>2, <4>1
    <3>4. CASE IsInnerAt(tree, q, n)
      <4>1. ASSUME NEW bit \in {0, 1}
            PROVE  NodeAt(b, Append(q, bit)) = NodeAt(tree, Append(q, bit))
        <5>0. n \in Nat /\ n + 1 \in Nat
          BY <1>0
        <5>1. Append(q, bit) \in Bits(n + 1) /\ Cut(Append(q, bit), n) = q
          BY <3>2, <5>0, AppendCut
        <5>2. ASSUME Append(q, bit) = from
              PROVE  FALSE
          <6>1. depth = n + 1
            BY <1>0, <5>0, <5>1, <5>2, PathDepth DEF from
          <6>2. n \in 0..depth /\ n \in 0..fork
            BY <1>5, <5>0, <6>1
          <6>3. q = P(n)
            BY <1>0, <5>1, <5>2, <6>2, PathFacts DEF from
          <6> QED
            BY <6>2, <6>3 DEF OnPath
        <5>3. ASSUME Append(q, bit) = to
              PROVE  FALSE
          <6>1. fork = n + 1
            BY <1>5, <1>6, <5>0, <5>1, <5>3, OneLength
          <6>2. n \in 0..(fork - 1) /\ n \in 0..fork
            BY <5>0, <6>1
          <6>3. q = P(n)
            BY <1>6, <5>1, <5>3, <6>2
          <6> QED
            BY <6>2, <6>3 DEF OnPath
        <5> QED
          BY <1>13, <5>2, <5>3
      <4>2. /\ NodeAt(b, Append(q, 0)) = NodeAt(tree, Append(q, 0))
            /\ NodeAt(b, Append(q, 1)) = NodeAt(tree, Append(q, 1))
        BY <4>1
      <4>3. IsInnerAt(b, q, n)
        BY <3>1, <3>4, <4>2 DEF IsInnerAt
      <4> QED
        BY <3>2, <4>3
    <3> QED
      BY <3>2, <3>3, <3>4
  <2> QED
    BY <2>1, <2>2
<1>17. ASSUME NEW q \in DOMAIN b \ OnPath(label, fork), b[q].kind = "inner"
       PROVE  q \in DOMAIN tree /\ tree[q] = b[q]
  <2>1. q # to
    BY <1>12, <1>17, Kinds
  <2> QED
    BY <1>11, <1>12, <2>1
<1>18. ASSUME NEW n \in 0..LabelLen, NEW q \in (DOMAIN b \cap Bits(n)) \ OnPath(label, fork),
              NEW d \in 0..(n - 1)
       PROVE  /\ Cut(q, d) # P(fork)
              /\ Cut(q, d) \notin OnPath(label, fork) => NodeAt(b, Cut(q, d)).kind = "inner"
  <2>0. n \in Nat /\ d \in Nat /\ d < n /\ d \in 0..n
    BY <1>0
  <2>1. CASE q = to
    <3>1. n = fork
      BY <1>5, <1>6, <2>0, <2>1, OneLength
    <3>2. d \in 0..(fork - 1) /\ d \in 0..fork /\ d # fork
      BY <1>5, <3>1
    <3>3. Cut(q, d) = P(d)
      BY <1>6, <2>1, <3>2
    <3>4. P(d) # P(fork)
      BY <1>5, <1>6, <2>0, <3>2, PathDepth
    <3> QED
      BY <3>2, <3>3, <3>4 DEF OnPath
  <2>2. CASE q # to
    <3>1. q \in Bits(n) \cap DOMAIN tree
      BY <1>12, <2>2
    <3>2. NodeAt(tree, Cut(q, d)).kind = "inner"
      BY <3>1 DEF TreeInv, AboveInv
    <3>3. Cut(q, d) \in DOMAIN tree
      BY <3>2, Kinds DEF NodeAt
    <3>4. Cut(q, d) # P(fork)
      <4>1. fork \in (depth + 1)..fork
        BY <1>4, <1>5
      <4> QED
        BY <1>8, <3>3, <4>1
    <3>5. Cut(q, d) # to
      BY <1>9, <3>3
    <3> QED
      BY <1>11, <1>13, <3>2, <3>4, <3>5
  <2> QED
    BY <2>1, <2>2
<1>19. ASSUME NEW d \in 0..fork, NEW l \in Label, NEW v, NodeAt(b, P(d)) = Leaf(l, v)
       PROVE  l = label
  <2>1. NodeAt(b, P(d)).kind = "leaf" /\ NodeAt(b, P(d)) # Nil
    BY <1>19, Kinds
  <2> QED
    BY <1>14, <1>15, <2>1
<1>20. ASSUME NEW l \in Label \ {label}, NEW v
       PROVE  Holds(b, l, v) <=> Holds(tree, l, v)
  <2>1. ASSUME Holds(tree, l, v)
        PROVE  Holds(b, l, v)
    <3>1. PICK n \in 0..LabelLen : NodeAt(tree, Path(l, n)) = Leaf(l, v)
      BY <2>1 DEF Holds
    <3>2. Path(l, n) \in DOMAIN tree
      BY <3>1, Kinds DEF NodeAt
    <3>3. CASE Path(l, n) = from
      <4>1. Leaf(l, v) = Leaf(other, old)
        BY <1>1, <3>1, <3>3
      <4>2. l = other /\ v = old
        BY <4>1, Kinds
      <4>3. NodeAt(b, Path(l, fork)) = Leaf(l, v)
        BY <1>12, <4>2 DEF NodeAt, to
      <4> QED
        BY <1>5, <4>3 DEF Holds
    <3>4. CASE Path(l, n) # from
      <4>1. NodeAt(b, Path(l, n)) = Leaf(l, v)
        BY <1>9, <1>13, <3>1, <3>2, <3>4
      <4> QED
        BY <4>1 DEF Holds
    <3> QED
      BY <3>3, <3>4
  <2>2. ASSUME Holds(b, l, v)
        PROVE  Holds(tree, l, v)
    <3>1. PICK n \in 0..LabelLen : NodeAt(b, Path(l, n)) = Leaf(l, v)
      BY <2>2 DEF Holds
    <3>2. CASE Path(l, n) = to
      <4>1. NodeAt(b, to) = Leaf(other, old)
        BY <1>12 DEF NodeAt
      <4>2. Leaf(l, v) = Leaf(other, old)
        BY <3>1, <3>2, <4>1
      <4>3. l = other /\ v = old
        BY <4>2, Kinds
      <4>4. NodeAt(tree, Path(other, depth)) = Leaf(other, old)
        BY <1>1, <1>3
      <4> QED
        BY <1>0, <4>3, <4>4 DEF Holds
    <3>3. CASE Path(l, n) # to
      <4>1. Path(l, n) \in DOMAIN b
        BY <3>1, Kinds DEF NodeAt
      <4>2. Path(l, n) # from
        BY <1>9, <1>2, <1>12, <3>3, <4>1
      <4>3. NodeAt(tree, Path(l, n)) = Leaf(l, v)
        BY <1>13, <3>1, <3>3, <4>2
      <4> QED
        BY <4>3 DEF Holds
    <3> QED
      BY <3>2, <3>3
  <2> QED
    BY <2>1, <2>2
<1>21. ASSUME NEW d \in 0..(fork - 1)
       PROVE  \E l \in Label \ {label}, v \in Val : Holds(tree, l, v) /\ P(d) = Path(l, d)
  <2>1. NodeAt(tree, Path(other, depth)) = Leaf(other, old)
    BY <1>1, <1>3
  <2>2. Holds(tree, other, old)
    BY <1>0, <2>1 DEF Holds
  <2> QED
    BY <1>4, <2>2
<1>22. Ready(b, label, fork)
  BY <1>16, <1>17, <1>18, <1>19, <1>20, <1>21 DEF Ready
<1> QED
  BY <1>5, <1>22

\* put fills such a tree.
LEMMA PutFills ==
    ASSUME TreeInv(tree), NEW label \in Label, NEW val \in Val
    PROVE  \E b : \E depth \in 0..LabelLen :
                Ready(b, label, depth) /\ PutAt(label, val) = Fill(b, label, val, depth)
<1> DEFINE depth == EndDepth(label)
           n == NodeAt(tree, Path(label, depth))
           replace == n.kind = "leaf" /\ n.label = label
           split == n.kind = "leaf" /\ n.label # label
           bottom == IF split THEN ForkDepth(label, n.label, depth) ELSE depth
           below == IF split THEN Split(tree, Path(label, depth), Path(n.label, bottom)) ELSE tree
           leaf == IF replace THEN ReplaceVal(n, val) ELSE Leaf(label, val)
<1>1. n = Find(label)
  BY DEF Find
<1>2. leaf = Leaf(label, val) /\ leaf.hash = LeafHash(label, val)
  <2> HIDE DEF n
  <2>1. leaf = Leaf(label, val)
    BY DEF ReplaceVal
  <2> QED
    BY <2>1, Kinds
<1>3. PutAt(label, val) = Fill(below, label, val, bottom)
  <2> DEFINE onPath == {Path(label, d) : d \in 0..bottom}
             hash == HashUp(label, leaf.hash, Siblings(below, label, bottom))
  <2>1. PutAt(label, val) =
            [path \in DOMAIN below \cup onPath |->
                CASE path = Path(label, bottom) -> leaf
                  [] path \in onPath \ {Path(label, bottom)} -> Inner(hash[bottom - Len(path)])
                  [] OTHER -> below[path]]
    BY DEF PutAt
  <2>2. onPath = OnPath(label, bottom)
    BY DEF OnPath
  <2>3. hash = HashUp(label, LeafHash(label, val), Siblings(below, label, bottom))
    BY <1>2
  <2> HIDE DEF bottom, below, leaf, hash, onPath
  <2> QED
    BY <1>2, <2>1, <2>2, <2>3 DEF Fill
<1>4. CASE Find(label) = Nil \/ \E v : Find(label) = Leaf(label, v)
  <2>1. ~split
    <3>1. CASE Find(label) = Nil
      BY <1>1, <3>1, Kinds
    <3>2. CASE \E v : Find(label) = Leaf(label, v)
      BY <1>1, <3>2, Kinds
    <3> QED
      BY <1>4, <3>1, <3>2
  <2> HIDE DEF n
  <2>2. bottom = depth /\ below = tree
    BY <2>1
  <2>3. depth \in 0..LabelLen /\ Ready(tree, label, depth)
    BY <1>4, StayReady, EndFacts
  <2> HIDE DEF bottom, below, depth
  <2> QED
    BY <1>3, <2>2, <2>3
<1>5. ASSUME NEW other \in Label, NEW old \in Val, Find(label) = Leaf(other, old), other # label
      PROVE  \E b : \E d \in 0..LabelLen :
                Ready(b, label, d) /\ PutAt(label, val) = Fill(b, label, val, d)
  <2>1. n.kind = "leaf" /\ n.label = other
    BY <1>1, <1>5, Kinds
  <2>2. split
    BY <1>5, <2>1
  <2> HIDE DEF n
  <2>3. /\ bottom = ForkDepth(label, other, depth)
        /\ below = Split(tree, Path(label, depth), Path(other, bottom))
    BY <2>1, <2>2
  <2> HIDE DEF bottom, below
  <2>4. bottom \in 0..LabelLen /\ Ready(below, label, bottom)
    BY <1>5, <2>3, SplitReady
  <2> QED
    BY <1>3, <2>4
<1> QED
  BY <1>4, <1>5, EndCases

\* Put keeps the invariant, and changes what the tree holds at one label.
LEMMA PutKeeps ==
    ASSUME TreeInv(tree), NEW label \in Label, NEW val \in Val
    PROVE  /\ TreeInv(PutAt(label, val))
           /\ \A l \in Label : \A v :
                Holds(PutAt(label, val), l, v) <=>
                    IF l = label THEN v = val ELSE Holds(tree, l, v)
<1>0. PICK b : \E depth \in 0..LabelLen :
            Ready(b, label, depth) /\ PutAt(label, val) = Fill(b, label, val, depth)
  BY PutFills
<1>1. PICK depth \in 0..LabelLen :
            Ready(b, label, depth) /\ PutAt(label, val) = Fill(b, label, val, depth)
  BY <1>0
<1>2. PICK t : t = PutAt(label, val)
  OBVIOUS
<1>3. Filled(t, b, label, val, depth)
  BY <1>1, <1>2, FillFacts
<1>4. NodesInv(t) /\ AboveInv(t) /\ BelowInv(t)
  BY <1>1, <1>3, FillNodes, FillAbove, FillBelow DEF TreeInv
<1>5. \A l \in Label : \A v : Holds(t, l, v) <=> IF l = label THEN v = val ELSE Holds(tree, l, v)
  BY <1>1, <1>3, FillHolds
<1> QED
  BY <1>2, <1>4, <1>5 DEF TreeInv

-----------------------------------------------------------------------------
(* The invariant, and the map that the tree implements. *)

\* TreeInv(tree) is an invariant of the tree.
LEMMA TreeStep ==
    ASSUME TreeInv(tree), [TreeNext]_tree
    PROVE  TreeInv(tree')
<1>1. CASE tree' = tree
  BY <1>1
<1>2. ASSUME NEW label \in Label \cup BadLabel, NEW val \in Val, TreePut(label, val)
      PROVE  TreeInv(tree')
  <2>1. CASE RightLen(label)
    <3>1. label \in Label
      BY <2>1, LabelAssumption DEF RightLen
    <3> QED
      BY <1>2, <2>1, <3>1, PutKeeps DEF TreePut
  <2>2. CASE ~RightLen(label)
    BY <1>2, <2>2 DEF TreePut
  <2> QED
    BY <2>1, <2>2
<1> QED
  BY <1>1, <1>2 DEF TreeNext

\* All nodes are where they belong, with the hashes that belong to them.
THEOREM TreeInvariant == TreeSpec => [](TreeInv(tree))
<1>1. TreeInit => TreeInv(tree)
  BY DEF TreeInit, TreeInv, NodesInv, AboveInv, BelowInv
<1>2. TreeInv(tree) /\ [TreeNext]_tree => TreeInv(tree)'
  BY TreeStep
<1> QED
  BY <1>1, <1>2, PTL DEF TreeSpec

\* Contents is what the tree holds.
ContentsRight ==
    /\ Contents \in Maps
    /\ \A label \in Label :
            /\ label \in DOMAIN Contents <=> \E val \in Val : Holds(tree, label, val)
            /\ \A val : Holds(tree, label, val) <=>
                    label \in DOMAIN Contents /\ Contents[label] = val

\* A Put of the tree is a Put of the map, or changes nothing.
LEMMA ContentsPut ==
    ASSUME TreeInv(tree), ContentsRight, ContentsRight', [TreeNext]_tree
    PROVE  [AsMap!Next]_Contents
<1>1. CASE tree' = tree
  BY <1>1 DEF Contents, Get, Find, EndDepth
<1>2. ASSUME NEW label \in Label \cup BadLabel, NEW val \in Val, TreePut(label, val)
      PROVE  [AsMap!Next]_Contents
  <2>1. CASE RightLen(label)
    <3>1. label \in Label
      BY <2>1, LabelAssumption DEF RightLen
    <3>2. \A l \in Label : \A v :
            Holds(tree', l, v) <=> IF l = label THEN v = val ELSE Holds(tree, l, v)
      BY <1>2, <2>1, <3>1, PutKeeps DEF TreePut
    <3>3. PICK S \in SUBSET Label : Contents \in [S -> Val]
      BY DEF ContentsRight, Maps
    <3>4. PICK S2 \in SUBSET Label : Contents' \in [S2 -> Val]
      BY DEF ContentsRight, Maps
    <3>5. \A l \in Label : /\ l \in S <=> \E v \in Val : Holds(tree, l, v)
                           /\ l \in S => Holds(tree, l, Contents[l])
      BY <3>3 DEF ContentsRight
    <3>6. \A l \in Label : /\ l \in S2 <=> \E v \in Val : Holds(tree', l, v)
                           /\ \A v : Holds(tree', l, v) => Contents'[l] = v
      BY <3>4 DEF ContentsRight
    <3>7. S2 = S \cup {label}
      BY <3>1, <3>2, <3>5, <3>6
    <3>8. \A l \in S2 : Contents'[l] = IF l = label THEN val ELSE Contents[l]
      BY <3>2, <3>5, <3>6, <3>7
    <3>9. Contents' = MapPut(Contents, label, val)
      BY <3>3, <3>4, <3>7, <3>8 DEF MapPut
    <3> QED
      BY <3>1, <3>9 DEF AsMap!Next, AsMap!Put, AsMap!MapPut, MapPut
  <2>2. CASE ~RightLen(label)
    BY <1>1, <1>2, <2>2 DEF TreePut
  <2> QED
    BY <2>1, <2>2
<1> QED
  BY <1>1, <1>2 DEF TreeNext

\* The tree implements the map: Put of a label of the right length changes the
\* map that Get shows at this label only, and otherwise nothing changes.
THEOREM TreeImplementsMap == TreeSpec => ImplementsMap
<1>1. TreeInv(tree) => ContentsRight
  BY ContentsFacts DEF ContentsRight
<1>2. TreeInit => Contents = AsMap!EmptyMap
  <2>1. ASSUME TreeInit
        PROVE  Contents = EmptyMap
    <3>1. TreeInv(tree)
      BY <2>1 DEF TreeInit, TreeInv, NodesInv, AboveInv, BelowInv
    <3>2. \A label \in Label : \A val : ~Holds(tree, label, val)
      BY <2>1, Kinds DEF TreeInit, Holds, NodeAt
    <3>3. Contents \in Maps /\ \A label \in Label : label \notin DOMAIN Contents
      BY <3>1, <3>2, ContentsFacts
    <3> QED
      BY <3>3 DEF Maps, EmptyMap
  <2> QED
    BY <2>1 DEF AsMap!EmptyMap, EmptyMap
<1>3. TreeInv(tree) /\ ContentsRight /\ ContentsRight' /\ [TreeNext]_tree => [AsMap!Next]_Contents
  BY ContentsPut
<1> QED
  BY <1>1, <1>2, <1>3, TreeInvariant, PTL DEF TreeSpec, ImplementsMap, AsMap!Spec, AsMap!Init

\* Every label is proved to be what it is, and no proof, whatever siblings it
\* has, shows anything else.
THEOREM ProofsAlwaysDecide == TreeSpec => []ProofsDecide
<1>1. TreeInv(tree) => ProofsDecide
  BY CompleteProofs, SoundProofs DEF ProofsDecide
<1> QED
  BY <1>1, TreeInvariant, PTL

-----------------------------------------------------------------------------
(* The digest of a map. *)

\* The entries below a path, and what MapDigest does there.
Under(entries, path) == {e \in entries : path = Path(e[1], Len(path))}

DigestStep(entries, lower, path) ==
    IF Under(entries, path) = {} THEN EmptyHash
    ELSE LET entry == CHOOSE e \in Under(entries, path) : TRUE
         IN  IF Under(entries, path) = {entry} THEN LeafHash(entry[1], entry[2])
             ELSE InnerHash(lower[Append(path, 0)], lower[Append(path, 1)])

\* The entries of a map: one for a label.
AreEntries(entries) ==
    /\ \A e \in entries : \E l \in Label, v \in Val : e = <<l, v>>
    /\ \A e, f \in entries : e[1] = f[1] => e = f

\* The digest of a map lists its entries.
LEMMA MapEntries ==
    ASSUME NEW m \in Maps
    PROVE  /\ AreEntries(Digest(m))
           /\ \A l \in Label : \A v : <<l, v>> \in Digest(m) <=> l \in DOMAIN m /\ m[l] = v
<1>1. PICK S \in SUBSET Label : m \in [S -> Val]
  BY DEF Maps
<1>2. \A e \in Digest(m) : \E l \in S : e = <<l, m[l]>>
  BY <1>1 DEF Digest
<1>3. \A e, f \in Digest(m) : e[1] = f[1] => e = f
  BY <1>2
<1>4. \A e \in Digest(m) : \E l \in Label, v \in Val : e = <<l, v>>
  BY <1>1, <1>2
<1>5. \A l \in Label : \A v : <<l, v>> \in Digest(m) <=> l \in DOMAIN m /\ m[l] = v
  BY <1>1 DEF Digest
<1> QED
  BY <1>3, <1>4, <1>5 DEF AreEntries

\* Below a full path there is one at most.
LEMMA OneUnder ==
    ASSUME NEW entries, AreEntries(entries), NEW path \in Bits(LabelLen),
           NEW e \in Under(entries, path), NEW f \in Under(entries, path)
    PROVE  e = f
<1>0. LabelLen \in Nat
  BY LabelAssumption
<1>1. Len(path) = LabelLen
  BY <1>0, BitsFacts
<1>2. PICK l1 \in Label, v1 \in Val : e = <<l1, v1>>
  BY DEF AreEntries, Under
<1>3. PICK l2 \in Label, v2 \in Val : f = <<l2, v2>>
  BY DEF AreEntries, Under
<1>4. Path(l1, LabelLen) = Path(l2, LabelLen)
  BY <1>1, <1>2, <1>3 DEF Under
<1>5. l1 = l2
  BY <1>4, SameLabel
<1>6. e[1] = f[1]
  BY <1>2, <1>3, <1>5
<1> QED
  BY <1>6 DEF AreEntries, Under

\* None, one or more are below a path.
LEMMA StepCases ==
    ASSUME NEW entries, AreEntries(entries), NEW lower, NEW path
    PROVE  \/ /\ Under(entries, path) = {}
              /\ DigestStep(entries, lower, path) = EmptyHash
           \/ \E l \in Label, v \in Val :
                /\ Under(entries, path) = {<<l, v>>}
                /\ DigestStep(entries, lower, path) = LeafHash(l, v)
           \/ /\ \E e, f \in Under(entries, path) : e # f
              /\ DigestStep(entries, lower, path) =
                    InnerHash(lower[Append(path, 0)], lower[Append(path, 1)])
<1> DEFINE U == Under(entries, path)
           entry == CHOOSE e \in U : TRUE
<1>1. CASE U = {}
  BY <1>1 DEF DigestStep
<1>2. CASE U # {}
  <2>1. entry \in U
    BY <1>2
  <2>2. PICK l \in Label, v \in Val : entry = <<l, v>>
    BY <2>1 DEF AreEntries, Under
  <2>3. DigestStep(entries, lower, path) =
            IF U = {entry} THEN LeafHash(entry[1], entry[2])
            ELSE InnerHash(lower[Append(path, 0)], lower[Append(path, 1)])
    BY <1>2 DEF DigestStep
  <2> HIDE DEF U, entry
  <2>4. CASE U = {entry}
    BY <2>2, <2>3, <2>4 DEF U
  <2>5. CASE U # {entry}
    <3>1. \E f \in U : f # entry
      BY <2>1, <2>5
    <3> QED
      BY <2>1, <2>3, <2>5, <3>1 DEF U
  <2> QED
    BY <2>4, <2>5
<1> QED
  BY <1>1, <1>2

\* MapDigest does it at every path.
IsDigest(dg, entries) ==
    \A h \in 0..LabelLen : \A path \in Bits(LabelLen - h) :
        dg[h][path] = DigestStep(entries, dg[h - 1], path)

\* MapDigest is the last row of a table that is hashed from the leaves up.
LEMMA MapDigestSteps ==
    ASSUME NEW entries, AreEntries(entries)
    PROVE  \E dg : IsDigest(dg, entries) /\ MapDigest(entries) = dg[LabelLen][<<>>]
<1> DEFINE N == LabelLen
           Lower(g, h) == IF h = 0 THEN <<>> ELSE g[h - 1]
           Row(h, lower) == [path \in Bits(N - h) |-> DigestStep(entries, lower, path)]
           Done(g, n) == /\ g = [h \in 0..N |-> g[h]]
                         /\ \A h \in 0..n : g[h] = Row(h, Lower(g, h))
           Stuck == {n \in 0..N : ~\E g : Done(g, n)}
<1>0. N \in Nat
  BY LabelAssumption
<1>1. \A x, y : Row(0, x) = Row(0, y)
  <2>1. ASSUME NEW x, NEW y, NEW path \in Bits(N)
        PROVE  DigestStep(entries, x, path) = DigestStep(entries, y, path)
    <3>1. \A e, f \in Under(entries, path) : e = f
      BY <2>1, OneUnder
    <3> DEFINE U == Under(entries, path)
               entry == CHOOSE e \in U : TRUE
    <3>2. U # {} => U = {entry}
      BY <3>1
    <3> HIDE DEF U, entry
    <3> QED
      BY <3>2 DEF DigestStep, U, entry
  <2>2. N - 0 = N
    BY <1>0
  <2> QED
    BY <2>1, <2>2
<1>2. Stuck = {}
  <2>1. SUFFICES ASSUME Stuck # {}
                 PROVE  FALSE
    OBVIOUS
  <2>2. Stuck \in SUBSET Nat
    BY <1>0
  <2>3. PICK n \in Stuck : \A m \in Stuck : n <= m
    <3> HIDE DEF Stuck
    <3> QED
      BY <2>1, <2>2, LeastNumber
  <2> HIDE DEF Row
  <2>4. n # 0
    <3> DEFINE g == [h \in 0..N |-> Row(0, <<>>)]
    <3>1. g = [h \in 0..N |-> g[h]] /\ g[0] = Row(0, <<>>)
      BY <1>0
    <3>2. \A h \in 0..0 : g[h] = Row(h, Lower(g, h))
      BY <3>1
    <3>3. Done(g, 0)
      BY <3>1, <3>2
    <3> HIDE DEF Done, g
    <3> QED
      BY <3>3
  <2>5. n - 1 \in 0..N /\ n \in 0..N /\ n - 1 \notin Stuck
    BY <1>0, <2>3, <2>4
  <2>6. PICK g : Done(g, n - 1)
    BY <2>5
  <2> DEFINE f == [h \in 0..N |-> IF h = n THEN Row(n, g[n - 1]) ELSE g[h]]
  <2>7. f = [h \in 0..N |-> f[h]]
    OBVIOUS
  <2>8. ASSUME NEW h \in 0..n
        PROVE  f[h] = Row(h, Lower(f, h))
    <3>1. h \in 0..N
      BY <1>0, <2>5
    <3>2. CASE h = 0
      <4>1. f[h] = g[h]
        BY <2>4, <3>1, <3>2
      <4>2. h \in 0..(n - 1)
        BY <2>4, <2>5, <3>2
      <4>3. g[h] = Row(h, Lower(g, h))
        BY <2>6, <4>2
      <4>4. Lower(g, h) = Lower(f, h)
        BY <3>2
      <4> QED
        BY <4>1, <4>3, <4>4
    <3>3. CASE h # 0
      <4>1. h - 1 \in 0..N /\ h - 1 # n
        BY <1>0, <2>5, <3>1, <3>3
      <4>2. f[h - 1] = g[h - 1]
        BY <4>1
      <4>3. CASE h = n
        BY <2>5, <3>3, <4>2, <4>3
      <4>4. CASE h # n
        <5>1. h \in 0..(n - 1)
          BY <2>5, <4>4
        <5>2. g[h] = Row(h, g[h - 1])
          BY <2>6, <3>3, <5>1
        <5> QED
          BY <3>1, <3>3, <4>2, <4>4, <5>2
      <4> QED
        BY <4>3, <4>4
    <3> QED
      BY <3>2, <3>3
  <2>9. Done(f, n)
    BY <2>7, <2>8
  <2> HIDE DEF Done, f
  <2> QED
    BY <2>3, <2>9
<1>3. PICK g : Done(g, N)
  <2>1. N \in 0..N
    BY <1>0
  <2> HIDE DEF Done
  <2> QED
    BY <1>2, <2>1
<1>4. \A f, h : h \in 0..N => Row(h, f[h - 1]) = Row(h, Lower(f, h))
  <2> HIDE DEF Row
  <2> QED
    BY <1>0, <1>1
<1>5. g = [h \in 0..N |-> Row(h, g[h - 1])]
  <2> HIDE DEF Row
  <2>1. \A h \in 0..N : g[h] = Row(h, g[h - 1])
    BY <1>0, <1>3, <1>4
  <2> QED
    BY <1>3, <2>1
<1> DEFINE dg == CHOOSE f : f = [h \in 0..N |-> Row(h, f[h - 1])]
<1>6. MapDigest(entries) = dg[N][<<>>]
  BY DEF MapDigest, DigestStep, Under, Bits
<1>7. dg = [h \in 0..N |-> Row(h, dg[h - 1])]
  <2> HIDE DEF Row
  <2> QED
    BY <1>5
<1> HIDE DEF dg
<1>8. \A h \in 0..N : \A path \in Bits(N - h) : dg[h][path] = DigestStep(entries, dg[h - 1], path)
  <2>1. \A h \in 0..N : dg[h] = Row(h, dg[h - 1])
    <3> HIDE DEF Row
    <3> QED
      BY <1>7
  <2> QED
    BY <2>1
<1> QED
  BY <1>6, <1>8 DEF IsDigest

\* Entries below a path are below one of its children.
LEMMA UnderChild ==
    ASSUME NEW entries, AreEntries(entries), NEW n \in Nat, NEW path \in Bits(n),
           NEW e \in Under(entries, path)
    PROVE  \E bit \in {0, 1} : e \in Under(entries, Append(path, bit))
<1>1. PICK l \in Label, v \in Val : e = <<l, v>> /\ e \in entries
  BY DEF AreEntries, Under
<1>2. path = Path(l, n) /\ Len(path) = n
  BY <1>1, BitsFacts DEF Under
<1>3. GetBit(l, n) \in {0, 1}
  BY BitFacts
<1>4. Path(l, n + 1) = Append(path, GetBit(l, n)) /\ Len(Path(l, n + 1)) = n + 1
  <2>1. Path(l, n + 1) = Append(Path(l, n), GetBit(l, n))
    BY PathFacts
  <2>2. n + 1 \in Nat
    OBVIOUS
  <2>3. Len(Path(l, n + 1)) = n + 1
    BY <2>2, PathFacts
  <2> QED
    BY <1>2, <2>1, <2>3
<1>5. e \in Under(entries, Append(path, GetBit(l, n)))
  BY <1>1, <1>4 DEF Under
<1> QED
  BY <1>3, <1>5

\* Maps that have the same digest are the same.
LEMMA DigestTellsMap ==
    ASSUME NEW m1 \in Maps, NEW m2 \in Maps, MapDigest(Digest(m1)) = MapDigest(Digest(m2))
    PROVE  m1 = m2
<1>0. LabelLen \in Nat
  BY LabelAssumption
<1>1. PICK E1, E2 : E1 = Digest(m1) /\ E2 = Digest(m2)
  OBVIOUS
<1>2. AreEntries(E1) /\ AreEntries(E2)
  BY <1>1, MapEntries
<1>3. PICK d1 : IsDigest(d1, E1) /\ MapDigest(E1) = d1[LabelLen][<<>>]
  BY <1>2, MapDigestSteps
<1>4. PICK d2 : IsDigest(d2, E2) /\ MapDigest(E2) = d2[LabelLen][<<>>]
  BY <1>2, MapDigestSteps
<1> DEFINE Tells(h) == \A path \in Bits(LabelLen - h) :
                            d1[h][path] = d2[h][path] => Under(E1, path) = Under(E2, path)
           Wrong == {h \in 0..LabelLen : ~Tells(h)}
<1>5. ASSUME NEW h \in 0..LabelLen, h > 0 => Tells(h - 1)
      PROVE  Tells(h)
  <2>1. SUFFICES ASSUME NEW path \in Bits(LabelLen - h), d1[h][path] = d2[h][path]
                 PROVE  Under(E1, path) = Under(E2, path)
    OBVIOUS
  <2>2. d1[h][path] = DigestStep(E1, d1[h - 1], path) /\ d2[h][path] = DigestStep(E2, d2[h - 1], path)
    BY <1>3, <1>4 DEF IsDigest
  <2> DEFINE a0 == d1[h - 1][Append(path, 0)]
             a1 == d1[h - 1][Append(path, 1)]
             b0 == d2[h - 1][Append(path, 0)]
             b1 == d2[h - 1][Append(path, 1)]
             U1 == Under(E1, path)
             U2 == Under(E2, path)
             hash == d1[h][path]
  <2>3. \/ U1 = {} /\ hash = EmptyHash
        \/ \E l \in Label, v \in Val : U1 = {<<l, v>>} /\ hash = LeafHash(l, v)
        \/ (\E e, f \in U1 : e # f) /\ hash = InnerHash(a0, a1)
    BY <1>2, <2>2, StepCases
  <2>4. \/ U2 = {} /\ hash = EmptyHash
        \/ \E l \in Label, v \in Val : U2 = {<<l, v>>} /\ hash = LeafHash(l, v)
        \/ (\E e, f \in U2 : e # f) /\ hash = InnerHash(b0, b1)
    <3>1. hash = DigestStep(E2, d2[h - 1], path)
      BY <2>1, <2>2
    <3> HIDE DEF hash
    <3> QED
      BY <1>2, <3>1, StepCases
  <2> HIDE DEF U1, U2, hash
  <2>5. CASE hash = EmptyHash
    <3>0. (\A l, v : hash # LeafHash(l, v)) /\ \A h0, h1 : hash # InnerHash(h0, h1)
      BY <2>5, Kinds
    <3>1. U1 = {}
      <4> HIDE DEF a0, a1
      <4> QED
        BY <2>3, <3>0
    <3>2. U2 = {}
      <4> HIDE DEF b0, b1
      <4> QED
        BY <2>4, <3>0
    <3> QED
      BY <3>1, <3>2 DEF U1, U2
  <2>6. ASSUME NEW l \in Label, NEW v \in Val, hash = LeafHash(l, v)
        PROVE  U1 = U2
    <3>1. ASSUME NEW l2, NEW v2, hash = LeafHash(l2, v2)
          PROVE  l2 = l /\ v2 = v
      <4>1. LeafHash(l2, v2) = LeafHash(l, v)
        BY <2>6, <3>1
      <4> QED
        BY <4>1, Kinds
    <3>2. hash # EmptyHash /\ hash # InnerHash(a0, a1) /\ hash # InnerHash(b0, b1)
      BY <2>6, Kinds
    <3>3. U1 = {<<l, v>>}
      BY <2>3, <3>1, <3>2
    <3>4. U2 = {<<l, v>>}
      BY <2>4, <3>1, <3>2
    <3> QED
      BY <3>3, <3>4
  <2>7. CASE hash = InnerHash(a0, a1) /\ \E e, f \in U1 : e # f
    <3>1. hash = InnerHash(b0, b1)
      <4>1. hash # EmptyHash /\ \A l, v : hash # LeafHash(l, v)
        BY <2>7, Kinds
      <4> QED
        BY <2>4, <4>1
    <3>2. a0 = b0 /\ a1 = b1
      <4>1. InnerHash(a0, a1) = InnerHash(b0, b1)
        BY <2>7, <3>1
      <4> HIDE DEF a0, a1, b0, b1
      <4> QED
        BY <4>1, Kinds
    <3>3. h > 0
      <4>1. ASSUME h = 0
            PROVE  FALSE
        <5>1. path \in Bits(LabelLen)
          BY <1>0, <4>1
        <5>2. \A e, f \in U1 : e = f
          BY <1>2, <5>1, OneUnder DEF U1
        <5> QED
          BY <2>7, <5>2
      <4> QED
        BY <4>1
    <3>4. LabelLen - h \in Nat /\ LabelLen - (h - 1) = LabelLen - h + 1
      BY <1>0
    <3>5. Append(path, 0) \in Bits(LabelLen - (h - 1)) /\ Append(path, 1) \in Bits(LabelLen - (h - 1))
      BY <3>4, AppendCut
    <3>6. /\ Under(E1, Append(path, 0)) = Under(E2, Append(path, 0))
          /\ Under(E1, Append(path, 1)) = Under(E2, Append(path, 1))
      BY <1>5, <3>2, <3>3, <3>5
    <3>7. ASSUME NEW e \in U1
          PROVE  e \in U2
      <4>1. \E bit \in {0, 1} : e \in Under(E1, Append(path, bit))
        BY <1>2, <3>4, UnderChild DEF U1
      <4>2. e \in E2
        BY <3>6, <4>1 DEF Under
      <4> QED
        BY <4>2 DEF U1, U2, Under
    <3>8. ASSUME NEW e \in U2
          PROVE  e \in U1
      <4>1. \E bit \in {0, 1} : e \in Under(E2, Append(path, bit))
        BY <1>2, <3>4, UnderChild DEF U2
      <4>2. e \in E1
        BY <3>6, <4>1 DEF Under
      <4> QED
        BY <4>2 DEF U1, U2, Under
    <3> QED
      BY <3>7, <3>8 DEF U1, U2
  <2> QED
    BY <2>3, <2>5, <2>6, <2>7 DEF U1, U2
<1>6. Wrong = {}
  <2>1. SUFFICES ASSUME Wrong # {}
                 PROVE  FALSE
    OBVIOUS
  <2> HIDE DEF Tells
  <2>2. PICK h \in Wrong : \A j \in Wrong : h <= j
    <3>1. Wrong \in SUBSET Nat
      BY <1>0
    <3> HIDE DEF Wrong
    <3> QED
      BY <2>1, <3>1, LeastNumber
  <2>3. h \in 0..LabelLen /\ (h > 0 => h - 1 \in 0..LabelLen /\ h - 1 \notin Wrong)
    BY <1>0, <2>2
  <2>4. h > 0 => Tells(h - 1)
    BY <2>3
  <2>5. Tells(h)
    BY <1>5, <2>3, <2>4
  <2> QED
    BY <2>2, <2>5
<1>7. Tells(LabelLen)
  <2>1. LabelLen \in 0..LabelLen
    BY <1>0
  <2> HIDE DEF Tells
  <2> QED
    BY <1>6, <2>1
<1>8. <<>> \in Bits(LabelLen - LabelLen) /\ Len(<<>>) = 0
  <2>1. LabelLen - LabelLen = 0
    BY <1>0
  <2>2. <<>> \in Bits(0)
    BY DEF Bits
  <2> QED
    BY <2>1, <2>2
<1>9. Under(E1, <<>>) = Under(E2, <<>>)
  BY <1>1, <1>3, <1>4, <1>7, <1>8
<1>10. E1 = E2
  <2>1. \A l : Path(l, 0) = <<>>
    BY RootPath
  <2> QED
    BY <1>8, <1>9, <2>1 DEF Under
<1>11. PICK S1 \in SUBSET Label, S2 \in SUBSET Label : m1 \in [S1 -> Val] /\ m2 \in [S2 -> Val]
  BY DEF Maps
<1>12. \A l \in Label : \A v : l \in S1 /\ m1[l] = v <=> l \in S2 /\ m2[l] = v
  BY <1>1, <1>10, <1>11, MapEntries
<1>13. S1 = S2 /\ \A l \in S1 : m1[l] = m2[l]
  BY <1>11, <1>12
<1> QED
  BY <1>11, <1>13

-----------------------------------------------------------------------------
(* The digest of the tree. *)

\* All above a path are inner nodes.
Reached(path, n) == \A d \in 0..(n - 1) : NodeAt(tree, Cut(path, d)).kind = "inner"

\* The entries below a path that put can reach are those of its node.
LEMMA UnderReached ==
    ASSUME TreeInv(tree), NEW n \in 0..LabelLen, NEW path \in Bits(n), Reached(path, n),
           NEW entries, AreEntries(entries),
           \A l \in Label : \A v : <<l, v>> \in entries <=> Holds(tree, l, v)
    PROVE  LET node == NodeAt(tree, path)
           IN  /\ node = Nil => Under(entries, path) = {}
               /\ \A l \in Label, v \in Val :
                    node = Leaf(l, v) /\ path = Path(l, n) => Under(entries, path) = {<<l, v>>}
               /\ node.kind = "inner" => \E e, f \in Under(entries, path) : e # f
<1>0. LabelLen \in Nat /\ n \in Nat
  BY LabelAssumption
<1> DEFINE node == NodeAt(tree, path)
<1>1. Len(path) = n
  BY <1>0, BitsFacts
\* An entry below the path is the leaf at it, or an inner node is there.
<1>2. ASSUME NEW l \in Label, NEW v \in Val, <<l, v>> \in Under(entries, path)
      PROVE  node.kind = "inner" \/ node = Leaf(l, v)
  <2>1. path = Path(l, n) /\ Holds(tree, l, v)
    BY <1>1, <1>2 DEF Under
  <2>2. PICK k \in 0..LabelLen : NodeAt(tree, Path(l, k)) = Leaf(l, v)
    BY <2>1 DEF Holds
  <2>3. NodeAt(tree, Path(l, k)).kind = "leaf" /\ Path(l, k) \in DOMAIN tree
    BY <2>2, Kinds DEF NodeAt
  <2>4. CASE k < n
    <3>1. k \in 0..n /\ k \in 0..(n - 1)
      BY <1>0, <2>4
    <3>2. Cut(path, k) = Path(l, k)
      BY <1>0, <2>1, <3>1, PathFacts
    <3> QED
      BY <2>3, <3>1, <3>2 DEF Reached
  <2>5. CASE k = n
    BY <2>1, <2>2, <2>5
  <2>6. CASE k > n
    <3>1. n \in 0..k /\ n \in 0..(k - 1) /\ k \in Nat
      BY <1>0, <2>6
    <3>2. Cut(Path(l, k), n) = path /\ Path(l, k) \in Bits(k)
      BY <2>1, <3>1, PathFacts
    <3> QED
      BY <2>3, <3>1, <3>2 DEF TreeInv, AboveInv
  <2> QED
    BY <1>0, <2>4, <2>5, <2>6
<1>3. \A e \in Under(entries, path) : \E l \in Label, v \in Val : e = <<l, v>>
  BY DEF AreEntries, Under
<1> HIDE DEF node
<1>4. ASSUME node = Nil
      PROVE  Under(entries, path) = {}
  <2>1. node.kind # "inner" /\ \A l, v : node # Leaf(l, v)
    BY <1>4, Kinds
  <2> QED
    BY <1>2, <1>3, <2>1
<1>5. ASSUME NEW l \in Label, NEW v \in Val, node = Leaf(l, v), path = Path(l, n)
      PROVE  Under(entries, path) = {<<l, v>>}
  <2>1. Holds(tree, l, v)
    BY <1>5 DEF Holds, node
  <2>2. <<l, v>> \in Under(entries, path)
    BY <1>1, <1>5, <2>1 DEF Under
  <2>3. node.kind # "inner"
    BY <1>5, Kinds
  <2>4. ASSUME NEW e \in Under(entries, path)
        PROVE  e = <<l, v>>
    <3>1. PICK l2 \in Label, v2 \in Val : e = <<l2, v2>>
      BY <1>3
    <3>2. node = Leaf(l2, v2)
      BY <1>2, <2>3, <3>1
    <3>3. Leaf(l, v) = Leaf(l2, v2)
      BY <1>5, <3>2
    <3> QED
      BY <3>1, <3>3, Kinds
  <2> QED
    BY <2>2, <2>4
<1>6. ASSUME node.kind = "inner"
      PROVE  \E e, f \in Under(entries, path) : e # f
  <2>1. path \in DOMAIN tree /\ tree[path].kind = "inner"
    BY <1>6, Kinds DEF node, NodeAt
  <2>2. PICK label1, label2 \in Label, val1, val2 \in Val :
            /\ Holds(tree, label1, val1) /\ Holds(tree, label2, val2) /\ label1 # label2
            /\ path = Path(label1, n) /\ path = Path(label2, n)
    BY <2>1 DEF TreeInv, BelowInv
  <2>3. <<label1, val1>> \in Under(entries, path) /\ <<label2, val2>> \in Under(entries, path)
    BY <1>1, <2>2 DEF Under
  <2> QED
    BY <2>2, <2>3
<1> QED
  BY <1>4, <1>5, <1>6 DEF node

\* The digest of the tree is that of the map that it holds.
LEMMA DigestRoot ==
    ASSUME TreeInv(tree)
    PROVE  TreeDigest = MapDigest(Digest(Contents))
<1>0. LabelLen \in Nat
  BY LabelAssumption
<1>1. PICK E : E = Digest(Contents)
  OBVIOUS
<1>2. /\ AreEntries(E)
      /\ \A l \in Label : \A v : <<l, v>> \in E <=> Holds(tree, l, v)
  BY <1>1, MapEntries, ContentsFacts
<1>3. PICK dg : IsDigest(dg, E) /\ MapDigest(E) = dg[LabelLen][<<>>]
  BY <1>2, MapDigestSteps
<1> DEFINE Right(h) == \A path \in Bits(LabelLen - h) :
                Reached(path, LabelLen - h) => dg[h][path] = NodeHash(NodeAt(tree, path))
           Wrong == {h \in 0..LabelLen : ~Right(h)}
<1>4. ASSUME NEW h \in 0..LabelLen, h > 0 => Right(h - 1)
      PROVE  Right(h)
  <2>1. SUFFICES ASSUME NEW path \in Bits(LabelLen - h), Reached(path, LabelLen - h)
                 PROVE  dg[h][path] = NodeHash(NodeAt(tree, path))
    OBVIOUS
  <2>2. PICK n \in 0..LabelLen : n = LabelLen - h /\ n \in Nat
    BY <1>0
  <2>3. path \in Bits(n) /\ Reached(path, n)
    BY <2>1, <2>2
  <2> DEFINE node == NodeAt(tree, path)
             h0 == dg[h - 1][Append(path, 0)]
             h1 == dg[h - 1][Append(path, 1)]
             U == Under(E, path)
  <2>4. \/ U = {} /\ dg[h][path] = EmptyHash
        \/ \E l \in Label, v \in Val : U = {<<l, v>>} /\ dg[h][path] = LeafHash(l, v)
        \/ (\E e, f \in U : e # f) /\ dg[h][path] = InnerHash(h0, h1)
    <3>1. dg[h][path] = DigestStep(E, dg[h - 1], path)
      BY <1>3 DEF IsDigest
    <3> QED
      BY <1>2, <3>1, StepCases
  <2>5. /\ node = Nil => U = {}
        /\ \A l \in Label, v \in Val : node = Leaf(l, v) /\ path = Path(l, n) => U = {<<l, v>>}
        /\ node.kind = "inner" => \E e, f \in U : e # f
    BY <1>2, <2>3, UnderReached
  <2>6. \/ node = Nil
        \/ \E l \in Label, v \in Val : node = Leaf(l, v) /\ path = Path(l, n)
        \/ IsInnerAt(tree, path, n) /\ node = tree[path]
    BY <2>3, NodeCases DEF TreeInv, IsLeafAt
  <2> HIDE DEF U, node
  <2>7. CASE node = Nil
    <3>1. dg[h][path] = EmptyHash
      <4>1. U = {}
        BY <2>5, <2>7
      <4> HIDE DEF h0, h1
      <4> QED
        BY <2>4, <4>1
    <3> QED
      BY <2>7, <3>1, Kinds DEF NodeHash, node
  <2>8. ASSUME NEW l \in Label, NEW v \in Val, node = Leaf(l, v), path = Path(l, n)
        PROVE  dg[h][path] = NodeHash(NodeAt(tree, path))
    <3>1. U = {<<l, v>>}
      BY <2>5, <2>8
    <3>2. dg[h][path] = LeafHash(l, v)
      <4>1. ASSUME NEW l2, NEW v2, U = {<<l2, v2>>}
            PROVE  l2 = l /\ v2 = v
        <5>1. <<l2, v2>> = <<l, v>>
          BY <3>1, <4>1
        <5> QED
          BY <5>1
      <4>2. U # {} /\ ~\E e, f \in U : e # f
        BY <3>1
      <4>3. PICK l2 \in Label, v2 \in Val : U = {<<l2, v2>>} /\ dg[h][path] = LeafHash(l2, v2)
        <5> HIDE DEF h0, h1
        <5> QED
          BY <2>4, <4>2
      <4> QED
        BY <4>1, <4>3
    <3> QED
      BY <2>8, <3>2, Kinds DEF NodeHash, node
  <2>9. CASE IsInnerAt(tree, path, n) /\ node = tree[path]
    <3>1. /\ n < LabelLen
          /\ node = Inner(InnerHash(NodeHash(NodeAt(tree, Append(path, 0))),
                                    NodeHash(NodeAt(tree, Append(path, 1)))))
      BY <2>9 DEF IsInnerAt
    <3>2. node.kind = "inner"
      BY <3>1, Kinds
    <3>3. dg[h][path] = InnerHash(h0, h1)
      <4>1. \E e, f \in U : e # f
        BY <2>5, <3>2
      <4> HIDE DEF h0, h1
      <4> QED
        BY <2>4, <4>1
    <3>4. h > 0 /\ LabelLen - (h - 1) = n + 1
      BY <1>0, <2>2, <3>1
    <3>5. ASSUME NEW bit \in {0, 1}
          PROVE  dg[h - 1][Append(path, bit)] = NodeHash(NodeAt(tree, Append(path, bit)))
      <4>1. Append(path, bit) \in Bits(n + 1) /\ Cut(Append(path, bit), n) = path
        BY <2>2, <2>3, AppendCut
      <4>2. ASSUME NEW d \in 0..((n + 1) - 1)
            PROVE  NodeAt(tree, Cut(Append(path, bit), d)).kind = "inner"
        <5>1. CASE d = n
          BY <3>2, <4>1, <5>1 DEF node
        <5>2. CASE d # n
          <6>1. d \in 0..(n - 1) /\ d \in 0..n /\ n \in 0..(n + 1) /\ n + 1 \in Nat
            BY <2>2, <5>2
          <6>2. Cut(Cut(Append(path, bit), n), d) = Cut(Append(path, bit), d)
            BY <4>1, <6>1, BitsFacts
          <6> QED
            BY <2>3, <4>1, <6>1, <6>2 DEF Reached
        <5> QED
          BY <5>1, <5>2
      <4>3. Reached(Append(path, bit), n + 1)
        BY <4>2 DEF Reached
      <4> QED
        BY <1>4, <3>4, <4>1, <4>3
    <3>6. NodeHash(node) = InnerHash(h0, h1)
      <4>1. /\ h0 = NodeHash(NodeAt(tree, Append(path, 0)))
            /\ h1 = NodeHash(NodeAt(tree, Append(path, 1)))
        BY <3>5
      <4> HIDE DEF h0, h1
      <4> QED
        BY <3>1, <4>1, Kinds DEF NodeHash
    <3> QED
      BY <3>3, <3>6 DEF node
  <2> QED
    BY <2>6, <2>7, <2>8, <2>9
<1>5. Wrong = {}
  <2>1. SUFFICES ASSUME Wrong # {}
                 PROVE  FALSE
    OBVIOUS
  <2> HIDE DEF Right
  <2>2. PICK h \in Wrong : \A j \in Wrong : h <= j
    <3>1. Wrong \in SUBSET Nat
      BY <1>0
    <3> HIDE DEF Wrong
    <3> QED
      BY <2>1, <3>1, LeastNumber
  <2>3. h \in 0..LabelLen /\ (h > 0 => h - 1 \in 0..LabelLen /\ h - 1 \notin Wrong)
    BY <1>0, <2>2
  <2>4. h > 0 => Right(h - 1)
    BY <2>3
  <2>5. Right(h)
    BY <1>4, <2>3, <2>4
  <2> QED
    BY <2>2, <2>5
<1>6. Right(LabelLen)
  <2>1. LabelLen \in 0..LabelLen
    BY <1>0
  <2> HIDE DEF Right
  <2> QED
    BY <1>5, <2>1
<1>7. <<>> \in Bits(LabelLen - LabelLen) /\ Reached(<<>>, LabelLen - LabelLen)
  <2>1. LabelLen - LabelLen = 0
    BY <1>0
  <2>2. <<>> \in Bits(0) /\ Reached(<<>>, 0)
    BY DEF Bits, Reached
  <2> QED
    BY <2>1, <2>2
<1> QED
  BY <1>1, <1>3, <1>6, <1>7 DEF TreeDigest

\* The digest of the tree is that of one map, the one it holds.
THEOREM DigestAlwaysIdeal == TreeSpec => []DigestIsIdeal
<1>1. ASSUME TreeInv(tree)
      PROVE  DigestIsIdeal
  <2>1. Contents \in Maps /\ TreeDigest = MapDigest(Digest(Contents))
    BY <1>1, ContentsFacts, DigestRoot
  <2>2. ASSUME NEW m \in Maps, TreeDigest = MapDigest(Digest(m))
        PROVE  m = Contents
    BY <2>1, <2>2, DigestTellsMap
  <2> QED
    BY <2>1, <2>2 DEF DigestIsIdeal
<1>2. TreeInv(tree) => DigestIsIdeal
  BY <1>1
<1> QED
  BY <1>2, TreeInvariant, PTL
=============================================================================
