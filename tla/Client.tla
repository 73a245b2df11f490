------------------------------- MODULE Client -------------------------------
(***************************************************************************)
(* The client library (kt/client.go, kt/evidence.go): what a client keeps  *)
(* of its earlier calls, and how it checks a reply against it.  Each       *)
(* method is a pair of operators on the client's state: the ClientErr of   *)
(* the call, and the new state of a call that succeeds; a call that fails  *)
(* leaves the state alone.                                                 *)
(*                                                                         *)
(* Replies come from an untrusted server over an untrusted network: they   *)
(* are arbitrary, and everything a client believes comes from the checks.  *)
(* err is TRUE in a reply that says so or does not decode.                 *)
(***************************************************************************)
EXTENDS KtData

CONSTANT MaxUint    \* the largest uint64

ASSUME MaxUintAssumption == MaxUint \in Nat

\* The auditor's signing key.
AdtrKey == "adtr"

NewClient(uid) ==
    [uid |-> uid, nextVer |-> 0, seenDigs |-> EmptyMap, nextEpoch |-> 0]

-----------------------------------------------------------------------------
(* Errors, some with evidence that the server signed two digests. *)

NoErr == [err |-> FALSE, evid |-> <<>>]
StdErr == [err |-> TRUE, evid |-> <<>>]
EvidErr(sigDig0, sigDig1) == [err |-> TRUE, evid |-> <<sigDig0, sigDig1>>]

\* Evid.Check; TRUE if the evidence stands.
EvidCheck(evid) ==
    /\ CheckSigDig(evid[1], ServKey)
    /\ CheckSigDig(evid[2], ServKey)
    /\ evid[1].epoch = evid[2].epoch
    /\ evid[1].dig # evid[2].dig

-----------------------------------------------------------------------------
(* Digests. *)

SumNoOverflow(x, y) == x + y <= MaxUint

\* Seeded fault: the next epoch may wrap around.
CheckDigWrap(c, dig) ==
    IF ~CheckSigDig(dig, ServKey)
    THEN StdErr
    ELSE IF dig.epoch \in DOMAIN c.seenDigs /\ c.seenDigs[dig.epoch].dig # dig.dig
    THEN EvidErr(dig, c.seenDigs[dig.epoch])
    ELSE NoErr

CheckDig(c, dig) ==
    IF ~CheckSigDig(dig, ServKey) \/ ~SumNoOverflow(dig.epoch, 1)
    THEN StdErr
    ELSE IF dig.epoch \in DOMAIN c.seenDigs /\ c.seenDigs[dig.epoch].dig # dig.dig
    THEN EvidErr(dig, c.seenDigs[dig.epoch])
    ELSE NoErr

\* Record a digest that passed all checks.
See(c, dig) ==
    [c EXCEPT !.seenDigs = MapPut(@, dig.epoch, dig),
              !.nextEpoch = (dig.epoch + 1) % (MaxUint + 1)]

\* The error of a call: a reply that is an error, a bad digest, a failed check.
Verdict(c, reply, checked) ==
    IF reply.err THEN StdErr
    ELSE IF CheckDig(c, reply.dig).err THEN CheckDig(c, reply.dig)
    ELSE IF checked THEN NoErr ELSE StdErr

-----------------------------------------------------------------------------
(* Put, Get, SelfMon. *)

\* Seeded fault: an older epoch is good enough.
PutErrAnyEpoch(c, pk, reply) ==
    Verdict(c, reply,
        /\ CheckMemb(c.uid, c.nextVer, reply.dig.dig, reply.latest)
        /\ reply.dig.epoch = reply.latest.epochAdded
        /\ pk = reply.latest.pkOpen.val
        /\ CheckNonMemb(c.uid, c.nextVer + 1, reply.dig.dig, reply.bound))

PutErr(c, pk, reply) ==
    Verdict(c, reply,
        /\ reply.dig.epoch >= c.nextEpoch
        /\ CheckMemb(c.uid, c.nextVer, reply.dig.dig, reply.latest)
        /\ reply.dig.epoch = reply.latest.epochAdded
        /\ pk = reply.latest.pkOpen.val
        /\ CheckNonMemb(c.uid, c.nextVer + 1, reply.dig.dig, reply.bound))

\* Seeded fault: the version is not counted.
AfterPutSameVer(c, reply) == See(c, reply.dig)

AfterPut(c, reply) == [See(c, reply.dig) EXCEPT !.nextVer = @ + 1]

\* Seeded fault: the latest version is not shown to be the latest.
GetErrNoBound(c, uid, reply) ==
    LET numHist == Len(reply.hist) IN
    Verdict(c, reply,
        /\ reply.dig.epoch + 1 >= c.nextEpoch
        /\ CheckHist(uid, reply.dig.dig, reply.hist)
        /\ numHist > 0 => reply.isReg
        /\ reply.isReg => CheckMemb(uid, numHist, reply.dig.dig, reply.latest))

GetErr(c, uid, reply) ==
    LET numHist == Len(reply.hist)
        boundVer == IF reply.isReg THEN numHist + 1 ELSE 0
    IN
    Verdict(c, reply,
        /\ reply.dig.epoch + 1 >= c.nextEpoch
        /\ CheckHist(uid, reply.dig.dig, reply.hist)
        /\ numHist > 0 => reply.isReg
        /\ reply.isReg => CheckMemb(uid, numHist, reply.dig.dig, reply.latest)
        /\ CheckNonMemb(uid, boundVer, reply.dig.dig, reply.bound))

AfterGet(c, reply) == See(c, reply.dig)

SelfMonErr(c, reply) ==
    Verdict(c, reply,
        /\ reply.dig.epoch + 1 >= c.nextEpoch
        /\ CheckNonMemb(c.uid, c.nextVer, reply.dig.dig, reply.bound))

AfterSelfMon(c, reply) == See(c, reply.dig)

-----------------------------------------------------------------------------
(* Audit. *)

\* Seeded fault: the server's signature in the auditor's reply is not checked.
AuditEpochErrNoServSig(seenDig, info) ==
    LET servDig == [epoch |-> seenDig.epoch, dig |-> info.dig, sig |-> info.servSig]
        adtrDig == [epoch |-> seenDig.epoch, dig |-> info.dig, sig |-> info.adtrSig]
    IN
    IF ~CheckSigDig(adtrDig, AdtrKey) THEN StdErr
    ELSE IF info.dig # seenDig.dig THEN EvidErr(servDig, seenDig) ELSE NoErr

\* One digest the client has seen against what the auditor says of its epoch.
AuditEpochErr(seenDig, info) ==
    LET servDig == [epoch |-> seenDig.epoch, dig |-> info.dig, sig |-> info.servSig]
        adtrDig == [epoch |-> seenDig.epoch, dig |-> info.dig, sig |-> info.adtrSig]
    IN
    IF ~CheckSigDig(servDig, ServKey) \/ ~CheckSigDig(adtrDig, AdtrKey)
    THEN StdErr
    ELSE IF info.dig # seenDig.dig
    THEN EvidErr(servDig, seenDig)
    ELSE NoErr
=============================================================================
