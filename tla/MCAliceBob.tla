------------------------------ MODULE MCAliceBob ------------------------------
(* Constants for checking AliceBob with TLC: the digests an untrusted server
   may sign and the proofs it may send, over two versions of Alice's key. *)
EXTENDS AliceBob, FiniteSets, TLC

CONSTANTS a, b, p1, p2

MCUid == {a, b}
MCPk == {p1, p2}

LabelOf(ver) == CompMapLabel(a, ver)
ValOf(ver, epoch, pk) == CompMapVal(epoch, CompCommitOpen(LabelOf(ver), pk))

\* Key maps with a few values for each of two versions.
Values(ver) ==
    IF ver = 0 THEN {ValOf(0, 0, p1), ValOf(0, 1, p1), ValOf(0, 1, p2)}
               ELSE {ValOf(1, 0, p1), ValOf(1, 1, p1), ValOf(1, 2, p2)}
Maps == UNION {{[l \in {LabelOf(v) : v \in vers} |-> f[l.ver]] :
                  f \in {g \in [vers -> Values(0) \cup Values(1)] :
                            \A v \in vers : g[v] \in Values(v)}} :
                vers \in SUBSET {0, 1}}

Signed(epoch, map) ==
    [epoch |-> epoch, dig |-> Digest(map), sig |-> Sign(ServKey, epoch, Digest(map))]
Proof(map, ver) == MerkleProof(map, LabelOf(ver))
Latest(map, ver, epochAdded, pk) ==
    Memb(LabelOf(ver), epochAdded, CompCommitOpen(LabelOf(ver), pk), Proof(map, ver))
Bound(map, ver) == NonMemb(LabelOf(ver), Proof(map, ver))
Hist(map, n) ==
    [i \in 1..n |-> MembHide(LabelOf(i - 1),
                             IF LabelOf(i - 1) \in DOMAIN map THEN map[LabelOf(i - 1)]
                                                              ELSE NoPk,
                             Proof(map, i - 1))]

Failed == [err |-> TRUE]
Epochs == 0..MaxUint

MCPutReply ==
    {Failed} \cup
    {[err |-> FALSE, dig |-> Signed(e, m), latest |-> Latest(m, v, e, pk),
      bound |-> Bound(m, v + 1)] :
        e \in Epochs, m \in Maps, v \in 0..1, pk \in MCPk}

MCGetReply ==
    {Failed} \cup
    {[err |-> FALSE, dig |-> Signed(e, m), hist |-> Hist(m, n), isReg |-> n + r > 0,
      latest |-> Latest(m, n, ea, pk), bound |-> Bound(m, n + r)] :
        e \in Epochs, m \in Maps, n \in 0..1, r \in 0..1, ea \in 0..2, pk \in MCPk}

MCSelfMonReply ==
    {Failed} \cup
    {[err |-> FALSE, dig |-> Signed(e, m), bound |-> Bound(m, v)] :
        e \in Epochs, m \in Maps, v \in 0..2}

MCWellFormed(label, val) == TRUE
=============================================================================
