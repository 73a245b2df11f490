-------------------------------- MODULE Wire --------------------------------
(***************************************************************************)
(* The messages of the service as bytes (kt/serde.go, serde.out.go,        *)
(* serde_misc.go, merkle): the values, the encoder and the decoder of each *)
(* type.  A decoder is the list of the fields that it reads, in the order  *)
(* in which it reads them, each with the decoder of its type; it stops at  *)
(* the first that fails.  Byte strings between the two may be cut,         *)
(* extended or altered on the way.                                         *)
(***************************************************************************)
EXTENDS Marshal

CONSTANTS
    HashLen,    \* 32 in the code
    Updates,    \* maps of entries that are sent
    Messages    \* [type, val] that are sent, a node's to the hash function

VARIABLES
    msg,        \* the message sent
    bytes,      \* what has become of its encoding
    change      \* what happened to it on the way

wireVars == <<msg, bytes, change>>

-----------------------------------------------------------------------------
(* Types. *)

\* A node's tag is a byte.
ASSUME NodeAssumption == HashLen \in Nat /\ Base > 2

\* Go's maps are finite.
ASSUME UpdatesAssumption ==
    \A updates \in Updates :
        /\ updates \in [DOMAIN updates -> Slbyte] /\ DOMAIN updates \subseteq Slbyte
        /\ IsFiniteSet(DOMAIN updates) /\ Cardinality(DOMAIN updates) \in Uint64

SliceOf(values) == {s \in Seq(values) : Len(s) \in Uint64}

PreSigDig == [Epoch : Uint64, Dig : Slbyte]
SigDig == [Epoch : Uint64, Dig : Slbyte, Sig : Slbyte]
MapLabelPre == [Uid : Uint64, Ver : Uint64]
CommitOpen == [Val : Slbyte, Rand : Slbyte]
MapValPre == [Epoch : Uint64, PkCommit : Slbyte]
Memb ==
    [LabelProof : Slbyte, EpochAdded : Uint64, PkOpen : CommitOpen, MerkleProof : Slbyte]
MembHide == [LabelProof : Slbyte, MapVal : Slbyte, MerkleProof : Slbyte]
NonMemb == [LabelProof : Slbyte, MerkleProof : Slbyte]
ServerPutArg == [Uid : Uint64, Pk : Slbyte]
ServerPutReply == [Dig : SigDig, Latest : Memb, Bound : NonMemb, Err : BOOLEAN]
ServerGetArg == [Uid : Uint64]
ServerGetReply ==
    [Dig : SigDig, Hist : SliceOf(MembHide), IsReg : BOOLEAN, Latest : Memb, Bound : NonMemb]
ServerSelfMonArg == [Uid : Uint64]
ServerSelfMonReply == [Dig : SigDig, Bound : NonMemb]
ServerAuditArg == [Epoch : Uint64]
UpdateProof == [Updates : Updates, Sig : Slbyte]
ServerAuditReply == [P : UpdateProof, Err : BOOLEAN]
AdtrUpdateArg == [P : UpdateProof]
AdtrUpdateReply == [Err : BOOLEAN]
AdtrGetArg == [Epoch : Uint64]
AdtrEpochInfo == [Dig : Slbyte, ServSig : Slbyte, AdtrSig : Slbyte]
AdtrGetReply == [X : AdtrEpochInfo, Err : BOOLEAN]
MerkleProof ==
    [Siblings : Slbyte, FoundOtherLeaf : BOOLEAN, LeafLabel : Slbyte, LeafVal : Slbyte]

\* Tree.prove leaves the leaf of other proofs empty.
Proved == {o \in MerkleProof : o.FoundOtherLeaf \/ (o.LeafLabel = <<>> /\ o.LeafVal = <<>>)}

\* The test type of the compiler that has every kind of field.
Args ==
    [a1 : BOOLEAN, a2 : Byte, a3 : Uint64, a4 : Slbyte, a5 : SliceOf(Slbyte),
     a6 : SliceOf(SliceOf(Slbyte))]

\* Nodes of the Merkle tree.
HashBytes == {hash \in Bytes : Len(hash) = HashLen}
Node ==
    [tag : {"empty"}] \cup [tag : {"leaf"}, label : Slbyte, val : Slbyte]
    \cup [tag : {"inner"}, hash0 : HashBytes, hash1 : HashBytes]

ValuesOf ==
    [PreSigDig |-> PreSigDig, SigDig |-> SigDig, MapLabelPre |-> MapLabelPre,
     CommitOpen |-> CommitOpen, MapValPre |-> MapValPre, Memb |-> Memb,
     MembHide |-> MembHide, NonMemb |-> NonMemb, ServerPutArg |-> ServerPutArg,
     ServerPutReply |-> ServerPutReply, ServerGetArg |-> ServerGetArg,
     ServerGetReply |-> ServerGetReply, ServerSelfMonArg |-> ServerSelfMonArg,
     ServerSelfMonReply |-> ServerSelfMonReply, ServerAuditArg |-> ServerAuditArg,
     UpdateProof |-> UpdateProof, ServerAuditReply |-> ServerAuditReply,
     AdtrUpdateArg |-> AdtrUpdateArg, AdtrUpdateReply |-> AdtrUpdateReply,
     AdtrGetArg |-> AdtrGetArg, AdtrEpochInfo |-> AdtrEpochInfo,
     AdtrGetReply |-> AdtrGetReply, MerkleProof |-> MerkleProof, Prove |-> Proved,
     Types |-> Args, Node |-> Node]

ASSUME MessagesAssumption ==
    \A m \in Messages :
        /\ m = [type |-> m.type, val |-> m.val]
        /\ m.type \in DOMAIN ValuesOf /\ m.val \in ValuesOf[m.type]

-----------------------------------------------------------------------------
(* Encoders. *)

PreSigDigEncode(o) == WriteInt(o.Epoch) \o WriteSlice1D(o.Dig)
SigDigEncode(o) == WriteInt(o.Epoch) \o WriteSlice1D(o.Dig) \o WriteSlice1D(o.Sig)
MapLabelPreEncode(o) == WriteInt(o.Uid) \o WriteInt(o.Ver)
CommitOpenEncode(o) == WriteSlice1D(o.Val) \o WriteSlice1D(o.Rand)
MapValPreEncode(o) == WriteInt(o.Epoch) \o WriteSlice1D(o.PkCommit)

MembEncode(o) ==
    WriteSlice1D(o.LabelProof) \o WriteInt(o.EpochAdded)
        \o CommitOpenEncode(o.PkOpen) \o WriteSlice1D(o.MerkleProof)
MembHideEncode(o) ==
    WriteSlice1D(o.LabelProof) \o WriteSlice1D(o.MapVal) \o WriteSlice1D(o.MerkleProof)
NonMembEncode(o) == WriteSlice1D(o.LabelProof) \o WriteSlice1D(o.MerkleProof)

ServerPutArgEncode(o) == WriteInt(o.Uid) \o WriteSlice1D(o.Pk)
ServerPutReplyEncode(o) ==
    SigDigEncode(o.Dig) \o MembEncode(o.Latest) \o NonMembEncode(o.Bound)
        \o WriteBool(o.Err)
ServerGetArgEncode(o) == WriteInt(o.Uid)
MembHideSlice1DEncode(o) == WriteSlices([i \in DOMAIN o |-> MembHideEncode(o[i])])
ServerGetReplyEncode(o) ==
    SigDigEncode(o.Dig) \o MembHideSlice1DEncode(o.Hist) \o WriteBool(o.IsReg)
        \o MembEncode(o.Latest) \o NonMembEncode(o.Bound)
ServerSelfMonArgEncode(o) == WriteInt(o.Uid)
ServerSelfMonReplyEncode(o) == SigDigEncode(o.Dig) \o NonMembEncode(o.Bound)
ServerAuditArgEncode(o) == WriteInt(o.Epoch)

\* The entries of a map are written in the order in which Go iterates over it.
MapstringSlbyteEncode(o, order) ==
    LET entry(key) == WriteSlice1D(key) \o WriteSlice1D(o[key])
    IN  WriteSlices([i \in DOMAIN order |-> entry(order[i])])

UpdateProofEncode(o, order) ==
    MapstringSlbyteEncode(o.Updates, order) \o WriteSlice1D(o.Sig)
ServerAuditReplyEncode(o, order) == UpdateProofEncode(o.P, order) \o WriteBool(o.Err)
AdtrUpdateArgEncode(o, order) == UpdateProofEncode(o.P, order)
AdtrUpdateReplyEncode(o) == WriteBool(o.Err)
AdtrGetArgEncode(o) == WriteInt(o.Epoch)
AdtrEpochInfoEncode(o) ==
    WriteSlice1D(o.Dig) \o WriteSlice1D(o.ServSig) \o WriteSlice1D(o.AdtrSig)
AdtrGetReplyEncode(o) == AdtrEpochInfoEncode(o.X) \o WriteBool(o.Err)

MerkleProofEncode(o) ==
    WriteSlice1D(o.Siblings) \o WriteBool(o.FoundOtherLeaf)
        \o WriteSlice1D(o.LeafLabel) \o WriteSlice1D(o.LeafVal)

\* Tree.prove writes a proof by hand: find leaves room for the length of the
\* siblings, which is filled in when they are there.
ProveBytes(o) ==
    LET found == [i \in 1..IntLen |-> 0] \o o.Siblings
        sibs == WriteInt(Len(found) - IntLen) \o SubSeq(found, IntLen + 1, Len(found))
    IN  IF o.FoundOtherLeaf
        THEN sibs \o WriteBool(TRUE)
                \o WriteInt(Len(o.LeafLabel)) \o o.LeafLabel
                \o WriteInt(Len(o.LeafVal)) \o o.LeafVal
        ELSE sibs \o WriteBool(FALSE) \o WriteInt(0) \o WriteInt(0)

\* The test type of the compiler that has every kind of field.
TypesEncode(o) ==
    WriteBool(o.a1) \o WriteByte(o.a2) \o WriteInt(o.a3)
        \o WriteSlice1D(o.a4) \o WriteSlice2D(o.a5) \o WriteSlice3D(o.a6)

-----------------------------------------------------------------------------
(* What the Merkle tree hashes. *)

\* Seeded fault: label and value without their lengths.
LeafBytesOnly(label, val) == WriteByte(1) \o label \o val

LeafBytes(label, val) ==
    WriteByte(1) \o WriteInt(Len(label)) \o label \o WriteInt(Len(val)) \o val
InnerBytes(hash0, hash1) == WriteByte(2) \o hash0 \o hash1
EmptyBytes == WriteByte(0)

NodeEncode(o) ==
    CASE o.tag = "empty" -> EmptyBytes
      [] o.tag = "leaf"  -> LeafBytes(o.label, o.val)
      [] o.tag = "inner" -> InnerBytes(o.hash0, o.hash1)

-----------------------------------------------------------------------------
(* Decoders, as functions of the bytes. *)

IntDecode == [b \in Bytes |-> ReadInt(b)]
BoolDecode == [b \in Bytes |-> ReadBool(b)]
ByteDecode == [b \in Bytes |-> ReadByte(b)]
Slice1DDecode == [b \in Bytes |-> ReadSlice1D(b)]
Slice2DDecode == [b \in Bytes |-> ReadSlice2D(b)]
Slice3DDecode == [b \in Bytes |-> ReadSlice3D(b)]

\* A struct's: its fields and their decoders, in the order in which it reads them.
StructDecode(fields) ==
    LET names == {fields[i][1] : i \in DOMAIN fields}
        place(name) == CHOOSE i \in DOMAIN fields : fields[i][1] = name
    IN  [b \in Bytes |->
            LET r == ReadParts([i \in DOMAIN fields |-> fields[i][2]], b)
            IN  IF r.err THEN Failed
                ELSE Ok([name \in names |-> r.val[place(name)]], r.rest)]

PreSigDigDecode == StructDecode(<< <<"Epoch", IntDecode>>, <<"Dig", Slice1DDecode>> >>)

\* Seeded fault: two fields change places.
SigDigSwapped ==
    StructDecode(<< <<"Epoch", IntDecode>>, <<"Sig", Slice1DDecode>>,
                    <<"Dig", Slice1DDecode>> >>)

SigDigDecode ==
    StructDecode(<< <<"Epoch", IntDecode>>, <<"Dig", Slice1DDecode>>,
                    <<"Sig", Slice1DDecode>> >>)
MapLabelPreDecode == StructDecode(<< <<"Uid", IntDecode>>, <<"Ver", IntDecode>> >>)
CommitOpenDecode ==
    StructDecode(<< <<"Val", Slice1DDecode>>, <<"Rand", Slice1DDecode>> >>)
MapValPreDecode ==
    StructDecode(<< <<"Epoch", IntDecode>>, <<"PkCommit", Slice1DDecode>> >>)
MembDecode ==
    StructDecode(<< <<"LabelProof", Slice1DDecode>>, <<"EpochAdded", IntDecode>>,
                    <<"PkOpen", CommitOpenDecode>>, <<"MerkleProof", Slice1DDecode>> >>)
MembHideDecode ==
    StructDecode(<< <<"LabelProof", Slice1DDecode>>, <<"MapVal", Slice1DDecode>>,
                    <<"MerkleProof", Slice1DDecode>> >>)
NonMembDecode ==
    StructDecode(<< <<"LabelProof", Slice1DDecode>>,
                    <<"MerkleProof", Slice1DDecode>> >>)

ServerPutArgDecode == StructDecode(<< <<"Uid", IntDecode>>, <<"Pk", Slice1DDecode>> >>)
ServerPutReplyDecode ==
    StructDecode(<< <<"Dig", SigDigDecode>>, <<"Latest", MembDecode>>,
                    <<"Bound", NonMembDecode>>, <<"Err", BoolDecode>> >>)
ServerGetArgDecode == StructDecode(<< <<"Uid", IntDecode>> >>)
MembHideSlice1DDecode == [b \in Bytes |-> ReadSlices(MembHideDecode, b)]
ServerGetReplyDecode ==
    StructDecode(<< <<"Dig", SigDigDecode>>, <<"Hist", MembHideSlice1DDecode>>,
                    <<"IsReg", BoolDecode>>, <<"Latest", MembDecode>>,
                    <<"Bound", NonMembDecode>> >>)
ServerSelfMonArgDecode == StructDecode(<< <<"Uid", IntDecode>> >>)
ServerSelfMonReplyDecode ==
    StructDecode(<< <<"Dig", SigDigDecode>>, <<"Bound", NonMembDecode>> >>)
ServerAuditArgDecode == StructDecode(<< <<"Epoch", IntDecode>> >>)

\* The map of a list of entries: a later one replaces an earlier one.
MapOf(entries) ==
    LET last(key) == CHOOSE i \in DOMAIN entries :
            /\ entries[i].key = key
            /\ \A j \in DOMAIN entries : entries[j].key = key => j <= i
    IN  [key \in {entries[i].key : i \in DOMAIN entries} |-> entries[last(key)].val]

EntryDecode == StructDecode(<< <<"key", Slice1DDecode>>, <<"val", Slice1DDecode>> >>)
MapstringSlbyteDecode ==
    [b \in Bytes |->
        LET entries == ReadSlices(EntryDecode, b)
        IN  IF entries.err THEN Failed ELSE Ok(MapOf(entries.val), entries.rest)]

UpdateProofDecode ==
    StructDecode(<< <<"Updates", MapstringSlbyteDecode>>, <<"Sig", Slice1DDecode>> >>)
ServerAuditReplyDecode ==
    StructDecode(<< <<"P", UpdateProofDecode>>, <<"Err", BoolDecode>> >>)
AdtrUpdateArgDecode == StructDecode(<< <<"P", UpdateProofDecode>> >>)
AdtrUpdateReplyDecode == StructDecode(<< <<"Err", BoolDecode>> >>)
AdtrGetArgDecode == StructDecode(<< <<"Epoch", IntDecode>> >>)
AdtrEpochInfoDecode ==
    StructDecode(<< <<"Dig", Slice1DDecode>>, <<"ServSig", Slice1DDecode>>,
                    <<"AdtrSig", Slice1DDecode>> >>)
AdtrGetReplyDecode ==
    StructDecode(<< <<"X", AdtrEpochInfoDecode>>, <<"Err", BoolDecode>> >>)
MerkleProofDecode ==
    StructDecode(<< <<"Siblings", Slice1DDecode>>, <<"FoundOtherLeaf", BoolDecode>>,
                    <<"LeafLabel", Slice1DDecode>>, <<"LeafVal", Slice1DDecode>> >>)
TypesDecode ==
    StructDecode(<< <<"a1", BoolDecode>>, <<"a2", ByteDecode>>, <<"a3", IntDecode>>,
                    <<"a4", Slice1DDecode>>, <<"a5", Slice2DDecode>>,
                    <<"a6", Slice3DDecode>> >>)

Decoder ==
    [PreSigDig |-> PreSigDigDecode, SigDig |-> SigDigDecode,
     MapLabelPre |-> MapLabelPreDecode, CommitOpen |-> CommitOpenDecode,
     MapValPre |-> MapValPreDecode, Memb |-> MembDecode, MembHide |-> MembHideDecode,
     NonMemb |-> NonMembDecode, ServerPutArg |-> ServerPutArgDecode,
     ServerPutReply |-> ServerPutReplyDecode, ServerGetArg |-> ServerGetArgDecode,
     ServerGetReply |-> ServerGetReplyDecode,
     ServerSelfMonArg |-> ServerSelfMonArgDecode,
     ServerSelfMonReply |-> ServerSelfMonReplyDecode,
     ServerAuditArg |-> ServerAuditArgDecode, UpdateProof |-> UpdateProofDecode,
     ServerAuditReply |-> ServerAuditReplyDecode,
     AdtrUpdateArg |-> AdtrUpdateArgDecode, AdtrUpdateReply |-> AdtrUpdateReplyDecode,
     AdtrGetArg |-> AdtrGetArgDecode, AdtrEpochInfo |-> AdtrEpochInfoDecode,
     AdtrGetReply |-> AdtrGetReplyDecode, MerkleProof |-> MerkleProofDecode,
     Prove |-> MerkleProofDecode, Types |-> TypesDecode]

Decode(type, b) == Decoder[type][b]

-----------------------------------------------------------------------------
(* A message on its way. *)

\* The orders in which the entries of a message's map may be written.
Orders(m) ==
    CASE m.type = "UpdateProof" -> SetToSeqs(DOMAIN m.val.Updates)
      [] m.type \in {"ServerAuditReply", "AdtrUpdateArg"} -> SetToSeqs(DOMAIN m.val.P.Updates)
      [] OTHER -> {<<>>}

Encode(m, order) ==
    LET o == m.val IN
    CASE m.type = "PreSigDig"        -> PreSigDigEncode(o)
      [] m.type = "SigDig"           -> SigDigEncode(o)
      [] m.type = "MapLabelPre"      -> MapLabelPreEncode(o)
      [] m.type = "CommitOpen"       -> CommitOpenEncode(o)
      [] m.type = "MapValPre"        -> MapValPreEncode(o)
      [] m.type = "Memb"             -> MembEncode(o)
      [] m.type = "MembHide"         -> MembHideEncode(o)
      [] m.type = "NonMemb"          -> NonMembEncode(o)
      [] m.type = "ServerPutArg"     -> ServerPutArgEncode(o)
      [] m.type = "ServerPutReply"   -> ServerPutReplyEncode(o)
      [] m.type = "ServerGetArg"     -> ServerGetArgEncode(o)
      [] m.type = "ServerGetReply"   -> ServerGetReplyEncode(o)
      [] m.type = "ServerSelfMonArg" -> ServerSelfMonArgEncode(o)
      [] m.type = "ServerSelfMonReply" -> ServerSelfMonReplyEncode(o)
      [] m.type = "ServerAuditArg"   -> ServerAuditArgEncode(o)
      [] m.type = "UpdateProof"      -> UpdateProofEncode(o, order)
      [] m.type = "ServerAuditReply" -> ServerAuditReplyEncode(o, order)
      [] m.type = "AdtrUpdateArg"    -> AdtrUpdateArgEncode(o, order)
      [] m.type = "AdtrUpdateReply"  -> AdtrUpdateReplyEncode(o)
      [] m.type = "AdtrGetArg"       -> AdtrGetArgEncode(o)
      [] m.type = "AdtrEpochInfo"    -> AdtrEpochInfoEncode(o)
      [] m.type = "AdtrGetReply"     -> AdtrGetReplyEncode(o)
      [] m.type = "MerkleProof"      -> MerkleProofEncode(o)
      [] m.type = "Prove"            -> ProveBytes(o)
      [] m.type = "Types"            -> TypesEncode(o)
      [] m.type = "Node"             -> NodeEncode(o)

WireInit ==
    /\ msg \in Messages
    /\ \E order \in Orders(msg) : bytes = Encode(msg, order)
    /\ change = "none"

Cut ==
    /\ change = "none"
    /\ \E n \in 0..(Len(bytes) - 1) : bytes' = SubSeq(bytes, 1, n)
    /\ change' = "cut"
    /\ UNCHANGED msg

Extend ==
    /\ change = "none"
    /\ \E byte \in Byte : bytes' = Append(bytes, byte)
    /\ change' = "extended"
    /\ UNCHANGED msg

Alter ==
    /\ change = "none"
    /\ \E i \in DOMAIN bytes, byte \in Byte :
        /\ byte # bytes[i]
        /\ bytes' = [bytes EXCEPT ![i] = byte]
    /\ change' = "altered"
    /\ UNCHANGED msg

WireNext == Cut \/ Extend \/ Alter

WireSpec == WireInit /\ [][WireNext]_wireVars

-----------------------------------------------------------------------------
(* Properties. *)

Decoded == Decode(msg.type, bytes)
IsMessage == msg.type # "Node"

\* What is decoded is what was encoded, whatever follows, and what follows is
\* left alone; a map, in whatever order its entries were written.  A message
\* that is cut anywhere is refused: no decoder takes a part for the whole, or
\* reads beyond the end.
RoundTrip ==
    /\ IsMessage /\ change \in {"none", "extended"} =>
        /\ ~Decoded.err
        /\ Decoded.val = msg.val
        /\ Len(Decoded.rest) = IF change = "none" THEN 0 ELSE 1
    /\ IsMessage /\ change = "cut" => Decoded.err

\* Bytes are the encoding of what they decode to, for all types without maps
\* and flags: nothing else passes for a signed digest's preimage, and an
\* auditor that accepts a value ("val bytes exactly encode MapVal") has the
\* bytes that the server committed to.
HasFlags ==
    msg.type \in {"ServerPutReply", "ServerGetReply", "UpdateProof", "ServerAuditReply",
                  "AdtrUpdateArg", "AdtrUpdateReply", "AdtrGetReply", "MerkleProof", "Prove",
                  "Types"}
ExactlyEncodes ==
    IsMessage /\ ~HasFlags /\ ~Decoded.err =>
        bytes = Encode([type |-> msg.type, val |-> Decoded.val], <<>>) \o Decoded.rest

\* Two nodes that differ are hashed from different bytes: Merkle's hashes.
Nodes == {m.val : m \in {n \in Messages : n.type = "Node"}}
HashInputsDistinct ==
    ~IsMessage => \A o \in Nodes : NodeEncode(o) = bytes /\ change = "none" => o = msg.val
=============================================================================
