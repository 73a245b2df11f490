------------------------------- MODULE System -------------------------------
(***************************************************************************)
(* The whole service with honest parts (alicebob): Alice puts keys while   *)
(* Bob looks her up and other users put theirs, Alice self-monitors, the   *)
(* auditors are synchronised (updAdtrsAll), Alice and Bob audit.  The      *)
(* server is the one of Server, at the same grain; the clients check every *)
(* reply as in Client; an auditor is AuditLog, which Auditor implements.   *)
(* Calls reach the server and their replies come back: what a connection   *)
(* can do to them is the subject of Rpc.                                   *)
(*                                                                         *)
(* A user has one client, which calls in a thread of the user's name.      *)
(***************************************************************************)
EXTENDS Server, Client, KeyHistory

CONSTANTS
    Alice, Bob,
    Pusher,     \* the thread of updAdtrsAll
    NumPuts,    \* Puts by Alice (20 in the code), and by each other user
    NumAdtrs,   \* auditors (2 in the code)
    Keys(_)     \* the keys among which a user chooses

ASSUME ThreadAssumption ==
    {Alice, Bob} \subseteq Uid /\ Alice # Bob /\ Pusher \notin Uid /\ Thread = Uid \cup {Pusher}
ASSUME NumsAssumption == NumPuts \in Nat /\ NumAdtrs \in Nat \ {0}
\* The epochs of a run are fewer than the 2^64 that a uint64 has.
ASSUME EpochsFitAssumption == MaxEpochs < MaxUint

VARIABLES
    cli,        \* each user's client
    hist,       \* alice.hist
    got,        \* the result of Bob's Get
    selfMonEp,  \* the epoch of Alice's SelfMon, or -1
    main,       \* where testAliceBob is
    sync,       \* updAdtrsAll: the epoch, its update, the auditor to send it to
    logs,       \* each auditor's log, and the server's signatures in it
    toAudit,    \* pairs of a client and an auditor that it has not asked yet
    failed      \* a check of a client, an auditor or an assertion failed

userVars == <<cli, hist, got, selfMonEp>>
adtrVars == <<sync, logs, toAudit>>
sysVars == <<vars, cli, hist, got, selfMonEp, main, sync, logs, toAudit, failed>>

Putters == Uid \ {Bob}
Adtrs == 1..NumAdtrs

NotGot == [done |-> FALSE]
NoUpd == [none |-> TRUE]
StartSync == [epoch |-> 0, upd |-> NoUpd, adtr |-> 1]

\* setup and the first lines of testAliceBob.
SysInit ==
    /\ Init
    /\ cli = [u \in Uid |-> NewClient(u)]
    /\ hist = <<>>
    /\ got = NotGot
    /\ selfMonEp = -1
    /\ main = "run"
    /\ sync = StartSync
    /\ logs = [a \in Adtrs |-> [log |-> <<>>, sigs |-> <<>>]]
    /\ toAudit = {Alice, Bob} \X Adtrs
    /\ failed = FALSE

\* checkCliErr with a good server: evidence or an error ends the run.
CheckCliErr(err) == failed' = err.err

-----------------------------------------------------------------------------
(* Clients. *)

\* The loop of alice.run; a run in which a Put fails ends there.
MorePuts(u) == cli[u].nextVer < NumPuts

StartPut(u) ==
    /\ MorePuts(u)
    /\ CallPut(u)
    /\ req'[u].uid = u /\ req'[u].pk \in Keys(u)
    /\ UNCHANGED <<userVars, main, adtrVars, failed>>

\* Client.Put after the reply; what alice.run does with the epoch.
FinishPut(u) ==
    LET reply == resp[u]
        err == PutErr(cli[u], req[u].pk, reply)
    IN
    /\ req[u].op = "put"
    /\ Return(u)
    /\ IF err.err
       THEN /\ CheckCliErr(err)
            /\ UNCHANGED <<cli, hist>>
       ELSE /\ cli' = [cli EXCEPT ![u] = AfterPut(@, reply)]
            /\ IF u = Alice
               THEN /\ failed' = ~CanExtend(hist, reply.dig.epoch)
                    /\ hist' = Append(ExtendHist(hist, reply.dig.epoch), Entry(req[u].pk))
               ELSE UNCHANGED <<hist, failed>>
    /\ UNCHANGED <<got, selfMonEp, main, adtrVars>>

StartGet ==
    /\ ~got.done
    /\ CallRead(Bob)
    /\ req'[Bob] = [op |-> "get", uid |-> Alice]
    /\ UNCHANGED <<userVars, main, adtrVars, failed>>

FinishGet ==
    LET reply == resp[Bob]
        err == GetErr(cli[Bob], Alice, reply)
    IN
    /\ req[Bob].op = "get"
    /\ Return(Bob)
    /\ CheckCliErr(err)
    /\ IF err.err
       THEN UNCHANGED <<cli, got>>
       ELSE /\ cli' = [cli EXCEPT ![Bob] = AfterGet(@, reply)]
            /\ got' = [done |-> TRUE, epoch |-> reply.dig.epoch,
                       isReg |-> reply.isReg, pk |-> reply.latest.pkOpen.val]
    /\ UNCHANGED <<hist, selfMonEp, main, adtrVars>>

\* wg.Wait, then Alice's SelfMon.
StartSelfMon ==
    /\ main = "run"
    /\ got.done
    /\ ~MorePuts(Alice)
    /\ CallRead(Alice)
    /\ req'[Alice] = [op |-> "selfmon", uid |-> Alice]
    /\ main' = "selfmon"
    /\ UNCHANGED <<userVars, adtrVars, failed>>

FinishSelfMon ==
    LET reply == resp[Alice]
        err == SelfMonErr(cli[Alice], reply)
    IN
    /\ req[Alice].op = "selfmon"
    /\ Return(Alice)
    /\ IF err.err
       THEN /\ CheckCliErr(err)
            /\ UNCHANGED <<cli, hist, selfMonEp, main>>
       ELSE /\ cli' = [cli EXCEPT ![Alice] = AfterSelfMon(@, reply)]
            /\ selfMonEp' = reply.dig.epoch
            /\ failed' = ~CanExtend(hist, reply.dig.epoch + 1)
            /\ hist' = ExtendHist(hist, reply.dig.epoch + 1)
            /\ main' = "sync"
    /\ UNCHANGED <<got, adtrVars>>

-----------------------------------------------------------------------------
(* updAdtrsAll. *)

Auditor(a) == INSTANCE AuditLog WITH
    Thread <- {}, Request <- {}, op <- <<>>,
    WellFormed <- LAMBDA label, val : label \in MapLabel /\ val \in MapVal,
    log <- logs[a].log, sigs <- logs[a].sigs

\* CallServAudit for the next epoch.
FetchUpdate ==
    /\ main = "sync"
    /\ sync.upd = NoUpd
    /\ CallRead(Pusher)
    /\ req'[Pusher] = [op |-> "audit", epoch |-> sync.epoch]
    /\ UNCHANGED <<userVars, main, adtrVars, failed>>

\* Its reply: an error means that there is no such epoch yet, and ends the run.
FetchedUpdate ==
    LET reply == resp[Pusher] IN
    /\ Return(Pusher)
    /\ IF reply.err
       THEN /\ sync' = StartSync
            /\ main' = "audit"
       ELSE /\ sync' = [sync EXCEPT !.upd = [updates |-> reply.updates, sig |-> reply.sig]]
            /\ UNCHANGED main
    /\ UNCHANGED <<userVars, logs, toAudit, failed>>

\* Seeded fault: an update without entries is taken for one to be asked again.
NextSyncPoll(epoch, updates) == IF DOMAIN updates = {} THEN epoch ELSE epoch + 1

NextSync(epoch, updates) == epoch + 1

\* updAdtrsOnce: each auditor in turn must accept the update.
PushUpdate ==
    LET a == sync.adtr
        updates == sync.upd.updates
    IN
    /\ sync.upd # NoUpd
    /\ IF Auditor(a)!Extends(updates)
       THEN /\ logs' = [logs EXCEPT ![a] =
                    [log |-> Append(@.log, Auditor(a)!Latest \cup Digest(updates)),
                     sigs |-> Append(@.sigs, sync.upd.sig)]]
            /\ UNCHANGED failed
       ELSE /\ failed' = TRUE
            /\ UNCHANGED logs
    /\ sync' = IF a < NumAdtrs
               THEN [sync EXCEPT !.adtr = a + 1]
               ELSE [epoch |-> NextSync(sync.epoch, updates), upd |-> NoUpd, adtr |-> 1]
    /\ UNCHANGED <<vars, userVars, main, toAudit>>

-----------------------------------------------------------------------------
(* Audits. *)

\* What auditor a answers for an epoch that it has.
AdtrInfo(a, epoch) ==
    LET dig == logs[a].log[epoch + 1] IN
    [dig |-> dig, servSig |-> logs[a].sigs[epoch + 1],
     adtrSig |-> Sign(AdtrKey, epoch, dig)]

\* Client.Audit: CallAdtrGet asks for every digest that the client has seen,
\* again and again until the auditor has its epoch.
CliAudit(u, a) ==
    LET seen == cli[u].seenDigs
        err(epoch) == AuditEpochErr(seen[epoch], AdtrInfo(a, epoch)).err
    IN
    /\ main = "audit"
    /\ <<u, a>> \in toAudit
    /\ \A epoch \in DOMAIN seen : epoch < Len(logs[a].log)
    /\ failed' = \E epoch \in DOMAIN seen : err(epoch)
    /\ toAudit' = toAudit \ {<<u, a>>}
    /\ UNCHANGED <<vars, userVars, main, sync, logs>>

Finish ==
    /\ main = "audit"
    /\ toAudit = {}
    /\ main' = "done"
    /\ UNCHANGED <<vars, userVars, adtrVars, failed>>

-----------------------------------------------------------------------------
ServerStep(A) == A /\ UNCHANGED <<userVars, main, adtrVars, failed>>

\* What a thread does inside the server.
Handle(t) == ReadUser(t) \/ Get(t) \/ SelfMon(t) \/ AuditLock(t) \/ Audit(t)

UserStep(u) ==
    \/ u \in Putters /\ (StartPut(u) \/ FinishPut(u))
    \/ u = Bob /\ (StartGet \/ FinishGet)

MainStep ==
    \/ StartSelfMon \/ FinishSelfMon
    \/ FetchUpdate \/ FetchedUpdate \/ PushUpdate
    \/ \E u \in {Alice, Bob}, a \in Adtrs : CliAudit(u, a)
    \/ Finish

SysNext ==
    /\ ~failed
    /\ \/ ServerStep(Worker)
       \/ \E t \in Thread : ServerStep(Handle(t))
       \/ \E u \in Uid : UserStep(u)
       \/ MainStep

SysSpec == SysInit /\ [][SysNext]_sysVars

\* Goroutines run; a reader that waits is let in before the next writer
\* (sync.RWMutex).  Other users may never put again.
SysFairness ==
    /\ WF_sysVars(ServerStep(Worker))
    /\ \A t \in Thread : SF_sysVars(ServerStep(Handle(t)))
    /\ WF_sysVars(UserStep(Alice))
    /\ WF_sysVars(UserStep(Bob))
    /\ WF_sysVars(MainStep)

SysFairSpec == SysSpec /\ SysFairness

-----------------------------------------------------------------------------
(* Properties. *)

\* With a good server no call of a client fails, no honest update is refused,
\* no audit finds a difference and no history is longer than the epoch it is
\* extended to: the assertions of testCorrectness and the Assumes of
\* testSecurity.
NothingFails == ~failed

\* A client's count of its versions is the server's, except while its Put is
\* under way, when the server may be one ahead: its checks then ask for the
\* right labels.
VersionsAgree ==
    \A u \in Uid :
        LET numVers == userInfo[u].numVers IN
        numVers = cli[u].nextVer \/ (req[u].op = "put" /\ numVers = cli[u].nextVer + 1)

\* Synchronised auditors have the server's epochs in its order: entry e of an
\* auditor's log is what the server signed for epoch e, with that signature
\* ("sync auditors. in real world, this'll happen periodically").
AuditorsInSync ==
    \A a \in Adtrs : \A i \in DOMAIN logs[a].log :
        /\ i <= NumEpochs
        /\ logs[a].log[i] = epochHist[i].dig
        /\ logs[a].sigs[i] = epochHist[i].sig

\* The final check of testAliceBob; the epoch of Alice's SelfMon, which the
\* code assumes to be no earlier than Bob's, is so.
BobGotAliceKey ==
    main = "done" =>
        /\ got.epoch <= selfMonEp
        /\ SameKey(hist, got.epoch, got.isReg, got.pk)

\* The test ends: every call returns, the auditors catch up, and no loop of
\* CallAdtrGet waits for an epoch that no auditor will have.
Finishes == <>(main = "done")
=============================================================================
