------------------------------- MODULE KtData -------------------------------
(***************************************************************************)
(* The labels, commitments and proofs that the server and its clients      *)
(* exchange, and the client's checks of them, in ideal form: the VRF is    *)
(* deterministic and unique, commitments bind.  Booleans of the checking   *)
(* functions are TRUE for success; the Go functions return TRUE for an     *)
(* error.                                                                  *)
(***************************************************************************)
EXTENDS KeyMaps, Integers, Sequences

CONSTANTS
    Uid,    \* user identifiers (uint64 in the code)
    Pk,     \* public keys users register
    NoPk    \* the nil plaintext key of a user with no registered version

ASSUME NoPkAssumption == NoPk \notin Pk

\* The server's signing key; its public half verifies what it signs.
ServKey == "serv"

-----------------------------------------------------------------------------
(* Labels, commitments and values of the key map. *)

\* The VRF output for (uid, ver).  The proof that comes with it convinces a
\* verifier of exactly this output, so that one term stands for both.
CompMapLabel(uid, ver) == [uid |-> uid, ver |-> ver]

\* The opening of a commitment; its randomness is a hash of the server's
\* secret and the label, hence one value per label.
CompCommitOpen(label, pk) == [val |-> pk, rand |-> label]

\* epoch || Hash(opening): the commitment binds the opening.
CompMapVal(epoch, open) == [epoch |-> epoch, commit |-> open]

MapLabel == [uid : Uid, ver : Nat]
CommitOpen == [val : Pk, rand : MapLabel]
MapVal == [epoch : Nat, commit : CommitOpen]

-----------------------------------------------------------------------------
(* The proofs in a reply, and the client's checks of them. *)

Memb(label, epochAdded, open, proof) ==
    [labelProof |-> label, epochAdded |-> epochAdded, pkOpen |-> open,
     merkleProof |-> proof]

MembHide(label, val, proof) ==
    [labelProof |-> label, mapVal |-> val, merkleProof |-> proof]

NonMemb(label, proof) == [labelProof |-> label, merkleProof |-> proof]

CheckLabel(uid, ver, labelProof) == labelProof = CompMapLabel(uid, ver)

CheckMemb(uid, ver, dig, memb) ==
    /\ CheckLabel(uid, ver, memb.labelProof)
    /\ MerkleVerify(TRUE, CompMapLabel(uid, ver),
                    CompMapVal(memb.epochAdded, memb.pkOpen),
                    memb.merkleProof, dig)

CheckMembHide(uid, ver, dig, memb) ==
    /\ CheckLabel(uid, ver, memb.labelProof)
    /\ MerkleVerify(TRUE, CompMapLabel(uid, ver), memb.mapVal,
                    memb.merkleProof, dig)

CheckHist(uid, dig, membs) ==
    \A i \in DOMAIN membs : CheckMembHide(uid, i - 1, dig, membs[i])

CheckNonMemb(uid, ver, dig, nonMemb) ==
    /\ CheckLabel(uid, ver, nonMemb.labelProof)
    /\ MerkleVerify(FALSE, CompMapLabel(uid, ver), NoPk,
                    nonMemb.merkleProof, dig)
=============================================================================
