------------------------------- MODULE MCWire -------------------------------
(* Constants for checking Wire with TLC: a few values of every message type. *)
EXTENDS Wire

Numbers == {0, 1, 5}
Strings == {<<>>, <<1>>, <<2, 0>>}
Few == {<<>>, <<2, 1>>}

SigDigs == [Epoch : {4}, Dig : Few, Sig : {<<1>>}]
Membs == [LabelProof : Few, EpochAdded : {3}, PkOpen : [Val : Few, Rand : {<<0>>}],
          MerkleProof : {<<1>>}]
MembHides == [LabelProof : Few, MapVal : {<<0>>}, MerkleProof : {<<>>}]
NonMembs == [LabelProof : {<<2>>}, MerkleProof : Few]
MCUpdates == UNION {[keys -> Few] : keys \in SUBSET {<<>>, <<0>>, <<1, 0>>}}
UpdateProofs == [Updates : MCUpdates, Sig : Few]
EpochInfos == [Dig : Few, ServSig : {<<1>>}, AdtrSig : Few]
Proofs ==
    [Siblings : Strings, FoundOtherLeaf : {TRUE}, LeafLabel : Strings, LeafVal : Strings]
    \cup [Siblings : Strings, FoundOtherLeaf : {FALSE}, LeafLabel : {<<>>}, LeafVal : {<<>>}]
Hashes == {<<0, 1>>, <<2, 0>>}

Of(type, vals) == {[type |-> type, val |-> v] : v \in vals}

MCMessages ==
    Of("PreSigDig", [Epoch : Numbers, Dig : Strings])
    \cup Of("SigDig", [Epoch : Numbers, Dig : Strings, Sig : Strings])
    \cup Of("MapLabelPre", [Uid : Numbers, Ver : Numbers])
    \cup Of("CommitOpen", [Val : Strings, Rand : Strings])
    \cup Of("MapValPre", [Epoch : Numbers, PkCommit : Strings])
    \cup Of("Memb", Membs) \cup Of("MembHide", MembHides) \cup Of("NonMemb", NonMembs)
    \cup Of("ServerPutArg", [Uid : Numbers, Pk : Strings])
    \cup Of("ServerPutReply", [Dig : SigDigs, Latest : Membs, Bound : NonMembs,
                               Err : BOOLEAN])
    \cup Of("ServerGetArg", [Uid : Numbers])
    \cup Of("ServerGetReply", [Dig : SigDigs, Hist : UNION {[1..n -> MembHides] : n \in 0..2},
                               IsReg : BOOLEAN, Latest : Membs, Bound : NonMembs])
    \cup Of("ServerSelfMonArg", [Uid : Numbers])
    \cup Of("ServerSelfMonReply", [Dig : SigDigs, Bound : NonMembs])
    \cup Of("ServerAuditArg", [Epoch : Numbers])
    \cup Of("UpdateProof", UpdateProofs)
    \cup Of("ServerAuditReply", [P : UpdateProofs, Err : BOOLEAN])
    \cup Of("AdtrUpdateArg", [P : UpdateProofs])
    \cup Of("AdtrUpdateReply", [Err : BOOLEAN])
    \cup Of("AdtrGetArg", [Epoch : Numbers])
    \cup Of("AdtrEpochInfo", EpochInfos)
    \cup Of("AdtrGetReply", [X : EpochInfos, Err : BOOLEAN])
    \cup Of("MerkleProof", Proofs) \cup Of("Prove", Proofs)
    \cup Of("Types", [a1 : {TRUE}, a2 : {2}, a3 : {4}, a4 : Few,
                      a5 : {<<>>, << <<1>>, <<2, 0>> >>}, a6 : {<<>>, << <<>>, << <<1>> >> >>}])
    \cup Of("Node", {[tag |-> "empty"]}
                    \cup [tag : {"leaf"}, label : Strings, val : Strings]
                    \cup [tag : {"inner"}, hash0 : Hashes, hash1 : Hashes])
=============================================================================
