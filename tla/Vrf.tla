--------------------------------- MODULE Vrf ---------------------------------
(***************************************************************************)
(* The verifiable random function (cryptoffi/vrf): labels of the directory *)
(* are its outputs.  The curve is a cyclic group of order Cofactor * Order *)
(* with Order prime, here the integers modulo that product; scalars are    *)
(* integers below Order, reduced before they multiply a point, and the     *)
(* base point generates the subgroup of order Order.                       *)
(*                                                                         *)
(* Hashes are ideal.  The hash of points is a challenge about which nobody *)
(* knows anything before the points are fixed; the hash that ends in an    *)
(* output has no collisions, so that an output is the point it hashes.     *)
(***************************************************************************)
EXTENDS Integers, Sequences, FiniteSets

CONSTANTS
    Order,      \* about 2^252 in the code
    Cofactor,   \* 8 in the code
    NumChallenges,  \* 2^128 in the code, by the 16 bytes of a challenge
    MaxTries    \* 256 in the code

ASSUME GroupAssumption ==
    /\ Order \in Nat /\ Cofactor \in Nat \ {0}
    /\ \A n \in 2..(Order - 1) : Order % n # 0
    /\ Cofactor % Order # 0
    /\ NumChallenges \in 1..Order
    /\ MaxTries \in Nat

VARIABLES
    y,          \* a public key that the client has taken
    h,          \* the point of a message, or nothing yet
    proof,      \* a proof, or the points from which a proof is being made
    phase

vars == <<y, h, proof, phase>>

Point == 0..(Cofactor * Order - 1)
Scalar == 0..(Order - 1)
Challenge == 0..(NumChallenges - 1)
Identity == 0
NotAPoint == -1     \* bytes that SetBytes refuses

Subtract(p, q) == (p - q) % (Cofactor * Order)
ScalarMult(s, p) == (s * p) % (Cofactor * Order)
MultByCofactor(p) == (Cofactor * p) % (Cofactor * Order)
ScalarBaseMult(s) == ScalarMult(s, Cofactor)

-----------------------------------------------------------------------------
\* Seeded fault: any point is a public key.
AnyKey(p) == TRUE

\* NewPublicKey refuses the points of small order.
ValidKey(p) == MultByCofactor(p) # Identity

\* hashToCurveTAI: of the points that a message hashes to one after the other,
\* the first that is one and not the identity, cleared of its small-order part.
HashToCurve(points) ==
    LET good == {i \in DOMAIN points : points[i] \notin {NotAPoint, Identity}}
        first == CHOOSE i \in good : \A j \in good : i <= j
    IN  IF good = {} THEN NotAPoint ELSE MultByCofactor(points[first])

\* Seeded fault: the point as it is in the proof.
ProofToPoint(gamma) == gamma

ProofToHash(gamma) == MultByCofactor(gamma)

\* Seeded fault: the sign of the challenge.
MinusCX(k, c, x) == (k - c * x) % Order

Response(k, c, x) == (k + c * x) % Order

\* Verify, for a proof whose c is the hash of h, gamma, u and v.
Verify(key, p) ==
    /\ p.u = Subtract(ScalarBaseMult(p.s), ScalarMult(p.c, key))
    /\ p.v = Subtract(ScalarMult(p.s, h), ScalarMult(p.c, p.gamma))

-----------------------------------------------------------------------------
Init ==
    /\ y \in {p \in Point : ValidKey(p)}
    /\ h = NotAPoint
    /\ proof = <<>>
    /\ phase = "start"

\* A message is hashed, by the prover and by the verifier alike.
Hash ==
    /\ phase = "start"
    /\ \E points \in [1..MaxTries -> Point \cup {NotAPoint}] : h' = HashToCurve(points)
    /\ phase' = IF h' = NotAPoint THEN "error" ELSE "hashed"
    /\ UNCHANGED <<y, proof>>

\* GenerateKey and Prove.  The nonce is any scalar.
Prove ==
    /\ phase = "hashed"
    /\ \E x, k \in Scalar, c \in Challenge :
        /\ y = ScalarBaseMult(x)
        /\ proof' = [gamma |-> ScalarMult(x, h), u |-> ScalarBaseMult(k),
                     v |-> ScalarMult(k, h), c |-> c, s |-> Response(k, c, x)]
    /\ phase' = "proved"
    /\ UNCHANGED <<y, h>>

\* A server that does not follow Prove fixes the points of a proof; the hash
\* then gives it a challenge that it has to answer.
Commit ==
    /\ phase = "hashed"
    /\ proof' \in [gamma : Point, u : Point, v : Point]
    /\ phase' = "committed"
    /\ UNCHANGED <<y, h>>

Next == Hash \/ Prove \/ Commit

Spec == Init /\ [][Next]_vars

-----------------------------------------------------------------------------
(* Properties. *)

\* The output for the key y of a message whose point is hp.
Exponent(key) ==
    CHOOSE x \in Scalar : MultByCofactor(ScalarBaseMult(x)) = MultByCofactor(key)
Output(key, hp) == ProofToHash(ScalarMult(Exponent(key), hp))

\* What Prove makes is verified, and both sides get the same output.
ProofsVerify ==
    phase = "proved" =>
        /\ Verify(y, proof)
        /\ ProofToHash(proof.gamma) = Output(y, h)

\* Full uniqueness, the property that pav requires of the function: for a key
\* that was not made honestly, too, whoever can answer more than one challenge
\* proves the one output of the message.  With another output there is at most
\* one challenge out of NumChallenges that can be answered.
Answerable ==
    {c \in Challenge : \E s \in Scalar :
        Verify(y, [gamma |-> proof.gamma, u |-> proof.u, v |-> proof.v, c |-> c, s |-> s])}
FullUniqueness ==
    phase = "committed" =>
        \/ Cardinality(Answerable) <= 1
        \/ ProofToHash(proof.gamma) = Output(y, h)

\* A proof shows one output, the one that Prove gives.
OneOutput == ProofsVerify /\ FullUniqueness

\* Messages with different points have different outputs, whatever the key: no
\* two versions of a user can share a label.
LabelsDistinct ==
    phase = "hashed" =>
        \A hp \in {MultByCofactor(p) : p \in Point} : Output(y, hp) = Output(y, h) => hp = h
=============================================================================
