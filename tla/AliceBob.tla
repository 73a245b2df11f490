------------------------------- MODULE AliceBob -------------------------------
(***************************************************************************)
(* The end-to-end promise (alicebob, testSecurity): Alice puts keys, Bob   *)
(* looks her up, Alice self-monitors, both audit what they saw with an     *)
(* honest auditor; if no call fails, Bob got the key that Alice's own      *)
(* history has for that epoch.  The server is not trusted, and neither is  *)
(* the network: replies are arbitrary members of the sets of replies, in   *)
(* which the server's signatures may be on anything, and the auditor's     *)
(* only on what it signed.                                                 *)
(*                                                                         *)
(* The auditor is the log of AuditLog, which Auditor implements; any       *)
(* updates may reach it.  A failed primitive.Assume stops the program, a   *)
(* failed std.Assert is recorded.                                          *)
(***************************************************************************)
EXTENDS Client, KeyHistory

CONSTANTS
    AliceUid, BobUid,
    NumPuts,        \* Alice's Puts (20 in the code)
    MaxEpochs,      \* no update is sent to the auditor beyond this epoch
    Updates,        \* sets of entries sent to the auditor: label -> value
    PutReply,       \* what a call of the server may return
    GetReply,
    SelfMonReply,
    WellFormed(_, _)    \* as in AuditLog

ASSUME NumPutsAssumption == NumPuts \in Nat
ASSUME MaxEpochsAssumption == MaxEpochs \in Nat
\* What decodes: a uint64, a slice, a boolean.
ASSUME ReplyAssumption ==
    /\ \A reply \in PutReply \cup GetReply \cup SelfMonReply :
            reply.err \/ reply.dig.epoch \in 0..MaxUint
    /\ \A reply \in GetReply : reply.err \/
            /\ reply.isReg \in BOOLEAN
            /\ Len(reply.hist) \in Nat /\ DOMAIN reply.hist = 1..Len(reply.hist)

VARIABLES
    alice,      \* Alice's client
    hist,       \* alice.hist: what she knows of her key at each epoch
    puts,       \* history variable: the epoch and key of each of her Puts
    selfMonEp,  \* the epoch of her SelfMon, or -1
    bob,        \* Bob's client
    got,        \* the result of his Get
    log,        \* the auditor (AuditLog)
    toAudit,    \* the clients that have not audited yet
    phase,      \* where testAliceBob is
    lastErr,    \* the last ClientErr
    stopped,    \* a primitive.Assume failed
    panicked    \* an std.Assert failed

cliVars == <<alice, hist, puts, selfMonEp, bob, got>>
endVars == <<lastErr, stopped, panicked>>
vars == <<alice, hist, puts, selfMonEp, bob, got, log, toAudit, phase,
          lastErr, stopped, panicked>>

NotGot == [done |-> FALSE]

Init ==
    /\ alice = NewClient(AliceUid)
    /\ hist = <<>>
    /\ puts = <<>>
    /\ selfMonEp = -1
    /\ bob = NewClient(BobUid)
    /\ got = NotGot
    /\ log = <<>>
    /\ toAudit = {"alice", "bob"}
    /\ phase = "run"
    /\ lastErr = NoErr
    /\ stopped = FALSE
    /\ panicked = FALSE

\* checkCliErr: evidence must stand, and an error ends the run.
CheckCliErr(err) ==
    /\ lastErr' = err
    /\ stopped' = err.err

AlicePut ==
    /\ phase = "run"
    /\ Len(puts) < NumPuts
    /\ \E pk \in Pk, reply \in PutReply :
        LET err == PutErr(alice, pk, reply) IN
        /\ CheckCliErr(err)
        /\ IF err.err
           THEN UNCHANGED <<alice, hist, puts, panicked>>
           ELSE /\ alice' = AfterPut(alice, reply)
                /\ panicked' = ~CanExtend(hist, reply.dig.epoch)
                /\ hist' = Append(ExtendHist(hist, reply.dig.epoch), Entry(pk))
                /\ puts' = Append(puts, [epoch |-> reply.dig.epoch, pk |-> pk])
    /\ UNCHANGED <<selfMonEp, bob, got, log, toAudit, phase>>

BobGet ==
    /\ phase = "run"
    /\ ~got.done
    /\ \E reply \in GetReply :
        LET err == GetErr(bob, AliceUid, reply) IN
        /\ CheckCliErr(err)
        /\ IF err.err
           THEN UNCHANGED <<bob, got>>
           ELSE /\ bob' = AfterGet(bob, reply)
                /\ got' = [done |-> TRUE, epoch |-> reply.dig.epoch,
                           isReg |-> reply.isReg, pk |-> reply.latest.pkOpen.val]
    /\ UNCHANGED <<alice, hist, puts, selfMonEp, log, toAudit, phase, panicked>>

\* After wg.Wait: self-monitor; then everything both have seen is to be audited.
AliceSelfMon ==
    /\ phase = "run"
    /\ Len(puts) = NumPuts
    /\ got.done
    /\ \E reply \in SelfMonReply :
        LET err == SelfMonErr(alice, reply) IN
        /\ CheckCliErr(err)
        /\ IF err.err
           THEN UNCHANGED <<alice, hist, selfMonEp, phase, panicked>>
           ELSE /\ alice' = AfterSelfMon(alice, reply)
                /\ selfMonEp' = reply.dig.epoch
                /\ panicked' = ~CanExtend(hist, reply.dig.epoch + 1)
                /\ hist' = ExtendHist(hist, reply.dig.epoch + 1)
                /\ phase' = "audit"
    /\ UNCHANGED <<puts, bob, got, log, toAudit>>

\* An update reaches the auditor: AuditLog's Update.  updAdtrsAll comes after
\* SelfMon; the clients do not talk to the auditor before.
Auditor == INSTANCE AuditLog WITH
    Thread <- {}, Request <- {}, op <- <<>>, sigs <- <<>>

AdtrUpdate ==
    /\ phase = "audit"
    /\ Len(log) < MaxEpochs
    /\ \E updates \in Updates :
        /\ Auditor!Extends(updates)
        /\ log' = Append(log, Auditor!Latest \cup Digest(updates))
    /\ UNCHANGED <<cliVars, toAudit, phase, endVars>>

\* What a Get of the auditor may return over the untrusted network: anything,
\* but with a signature of the auditor's only on what it signed.
AdtrReply ==
    {[dig |-> log[i], adtrSig |-> Sign(AdtrKey, i - 1, log[i]),
      servSig |-> IF signed THEN Sign(ServKey, i - 1, log[i]) ELSE <<>>] :
        i \in DOMAIN log, signed \in BOOLEAN}

\* Client.Audit: each seen digest against a reply for its epoch, which
\* CallAdtrGet asks for until the auditor has it.  Any of the errors may be
\* the one returned: Go's map order is arbitrary.
Audit(who) ==
    LET seenDigs == IF who = "alice" THEN alice.seenDigs ELSE bob.seenDigs IN
    /\ phase = "audit"
    /\ who \in toAudit
    /\ \A epoch \in DOMAIN seenDigs : epoch < Len(log)
    /\ \/ /\ \A epoch \in DOMAIN seenDigs : \E info \in AdtrReply :
                AuditEpochErr(seenDigs[epoch], info) = NoErr
          /\ CheckCliErr(NoErr)
       \/ \E epoch \in DOMAIN seenDigs, info \in AdtrReply :
            LET err == AuditEpochErr(seenDigs[epoch], info) IN
            /\ err.err
            /\ CheckCliErr(err)
    /\ toAudit' = toAudit \ {who}
    /\ UNCHANGED <<cliVars, log, phase, panicked>>

Finish ==
    /\ phase = "audit"
    /\ toAudit = {}
    /\ phase' = "done"
    /\ UNCHANGED <<cliVars, log, toAudit, endVars>>

Next ==
    /\ ~stopped
    /\ \/ AlicePut
       \/ BobGet
       \/ AliceSelfMon
       \/ AdtrUpdate
       \/ \E who \in {"alice", "bob"} : Audit(who)
       \/ Finish

Spec == Init /\ [][Next]_vars

-----------------------------------------------------------------------------
(* Properties. *)

\* extendHist never meets a history longer than the epoch it extends to.
NoPanic == ~panicked

\* Evidence that a client returns convicts the server: it signed two digests
\* for one epoch.
EvidenceStands == lastErr.evid # <<>> => EvidCheck(lastErr.evid)

\* A client never gives up or replaces a digest it relied on, nor accepts an
\* older epoch than it has seen.
NeverRollsBack ==
    [][/\ alice'.nextEpoch >= alice.nextEpoch
       /\ bob'.nextEpoch >= bob.nextEpoch
       /\ \A epoch \in DOMAIN alice.seenDigs :
            alice'.seenDigs[epoch].dig = alice.seenDigs[epoch].dig]_vars

\* Bob got the right key: the final check of testAliceBob.
BobGotAliceKey ==
    phase = "done" /\ ~stopped /\ got.epoch <= selfMonEp =>
        SameKey(hist, got.epoch, got.isReg, got.pk)
=============================================================================
