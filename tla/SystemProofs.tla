----------------------------- MODULE SystemProofs -----------------------------
(***************************************************************************)
(* The service with honest parts, proved for any numbers of users, keys,   *)
(* Puts and auditors.  The server's part of the argument is ServerProofs:  *)
(* every step of the system is a step of the server or leaves it alone.    *)
(* SysInv adds what ties the clients, Alice's history, the pusher and the  *)
(* auditors to it.                                                         *)
(***************************************************************************)
EXTENDS System, ServerProofs

-----------------------------------------------------------------------------
(* The inductive invariant. *)

\* The signed digest of an epoch.
DigAt(epoch) ==
    [epoch |-> epoch, dig |-> epochHist[epoch + 1].dig, sig |-> epochHist[epoch + 1].sig]

\* By the epochs stamped in the map, Alice's key at an epoch is pk, or she had
\* none.
KeyAt(epoch, isReg, pk) ==
    IF isReg
    THEN \E l \in DOMAIN keyMap :
            /\ l.uid = Alice
            /\ keyMap[l].epoch <= epoch
            /\ keyMap[l].commit.val = pk
            /\ \A k \in DOMAIN keyMap :
                    k.uid = Alice /\ keyMap[k].epoch <= epoch => k.ver <= l.ver
    ELSE \A k \in DOMAIN keyMap : k.uid = Alice => keyMap[k].epoch > epoch

\* Who makes which calls.
ReqInv ==
    \A t \in Thread :
        /\ pc[t] = "idle" <=> req[t].op = "none"
        /\ pc[t] \in {"rlock", "read"} => req[t].op # "put"
        /\ req[t].op = "put" => t \in Putters /\ req[t].uid = t /\ MorePuts(t)
        /\ req[t].op = "get" => t = Bob /\ req[t].uid = Alice /\ ~got.done
        /\ req[t].op = "selfmon" => t = Alice /\ req[t].uid = Alice /\ main = "selfmon"
        /\ req[t].op = "audit" =>
            /\ t = Pusher
            /\ req[t].epoch = sync.epoch
            /\ sync.upd = NoUpd
            /\ main = "sync"

\* No Put is refused: a user has one outstanding.
AcceptInv ==
    /\ \A i \in DOMAIN work : Pending(i) => ~resp[work[i]].err
    /\ \A t \in Thread : pc[t] = "ret" /\ req[t].op = "put" => ~resp[t].err

\* Puts stop in time for the epochs to stay below the bound.
EpochBound ==
    /\ wpc \in {"map0", "lock", "apply"} \/ workQ # <<>> => NumEpochs <= MaxEpochs
    /\ wpc \in {"map0", "lock", "apply"} /\ workQ # <<>> => NumEpochs < MaxEpochs
    /\ NumEpochs <= MaxEpochs + 1

\* The Put of u is in the map.
InMap(u) ==
    /\ req[u].op = "put"
    /\ \/ pc[u] = "ret"
       \/ \E i \in DOMAIN work :
            /\ work[i] = u
            /\ (wpc = "apply" /\ i < idx) \/ (wpc = "map1" /\ i >= idx)

CountInv ==
    \A u \in Uid :
        userInfo[u].numVers = IF InMap(u) THEN cli[u].nextVer + 1 ELSE cli[u].nextVer

\* The reply to a Put is for the version that its client asked for, at an epoch
\* signed after the call.
PutAnswered(u) ==
    /\ resp[u].dig.epoch \in cli[u].nextEpoch..(NumEpochs - 1)
    /\ resp[u].dig = DigAt(resp[u].dig.epoch)
    /\ resp[u].latest.labelProof.ver = cli[u].nextVer

PutInv ==
    /\ wpc = "map1" => \A i \in DOMAIN work : i >= idx =>
            /\ cli[work[i]].nextEpoch < NumEpochs
            /\ work[i] \notin todo => PutAnswered(work[i])
    /\ \A u \in Uid : req[u].op = "put" /\ pc[u] = "ret" => PutAnswered(u)

\* The reply to a read is for an epoch no older than what its client has seen.
ReadAnswered(u) ==
    /\ ~resp[u].err
    /\ resp[u].dig.epoch \in 0..(NumEpochs - 1)
    /\ resp[u].dig = DigAt(resp[u].dig.epoch)
    /\ resp[u].dig.epoch + 1 >= cli[u].nextEpoch
    /\ req[u].op = "get" /\ pc[u] = "ret" =>
            /\ resp[u].isReg \in BOOLEAN
            /\ KeyAt(resp[u].dig.epoch, resp[u].isReg, resp[u].latest.pkOpen.val)
    /\ req[u].op = "selfmon" =>
            local[u].numVers = cli[u].nextVer /\ resp[u].dig.epoch >= got.epoch

ReadInv ==
    \A u \in Uid : req[u].op \in {"get", "selfmon"} /\ pc[u] \in {"read", "ret"} =>
        ReadAnswered(u)

\* What a client has seen is what the server signed.
ClientInv ==
    /\ cli = [u \in Uid |-> cli[u]]
    /\ \A u \in Uid :
        /\ cli[u] = [uid |-> u, nextVer |-> cli[u].nextVer,
                     seenDigs |-> cli[u].seenDigs, nextEpoch |-> cli[u].nextEpoch]
        /\ cli[u].nextVer \in Nat
        /\ cli[u].nextEpoch \in 0..NumEpochs
        /\ \A epoch \in DOMAIN cli[u].seenDigs :
            epoch \in 0..(NumEpochs - 1) /\ cli[u].seenDigs[epoch] = DigAt(epoch)

\* Alice's history goes up to the last epoch she has seen, which has all the
\* versions she has counted, and it is right.
HistInv ==
    /\ \A ver \in 0..(cli[Alice].nextVer - 1) :
            keyMap[CompMapLabel(Alice, ver)].epoch < cli[Alice].nextEpoch
    /\ hist \in Seq([isReg : BOOLEAN, pk : Pk \cup {NoPk}])
    /\ Len(hist) = cli[Alice].nextEpoch
    /\ \A i \in DOMAIN hist : KeyAt(i - 1, hist[i].isReg, hist[i].pk)

GotInv ==
    /\ got.done \in BOOLEAN
    /\ got.done =>
        /\ got.epoch \in 0..(NumEpochs - 1)
        /\ got.isReg \in BOOLEAN
        /\ KeyAt(got.epoch, got.isReg, got.pk)

\* The phases of the test.
MainInv ==
    /\ main \in {"run", "selfmon", "sync", "audit", "done"}
    /\ main # "run" => got.done /\ ~MorePuts(Alice)
    /\ main \in {"sync", "audit", "done"} =>
        /\ selfMonEp \in Nat
        /\ Len(hist) = selfMonEp + 1
        /\ got.epoch <= selfMonEp

\* The auditors up to the one whose turn it is have the update that is being
\* sent, the others do not, and it is the one the server published.
SyncInv ==
    /\ logs = [a \in Adtrs |-> [log |-> logs[a].log, sigs |-> logs[a].sigs]]
    /\ \A a \in Adtrs : logs[a].log \in Seq(DigestSet) /\ Len(logs[a].sigs) = Len(logs[a].log)
    /\ sync = [epoch |-> sync.epoch, upd |-> sync.upd, adtr |-> sync.adtr]
    /\ main \in {"run", "selfmon", "sync"} =>
        /\ sync.epoch \in Nat
        /\ sync.adtr \in Adtrs
        /\ \A a \in Adtrs : Len(logs[a].log) =
                IF a < sync.adtr THEN sync.epoch + 1 ELSE sync.epoch
    /\ sync.upd = NoUpd => sync.adtr = 1
    /\ sync.upd # NoUpd =>
        /\ main = "sync"
        /\ sync.epoch < NumEpochs
        /\ sync.upd = [updates |-> epochHist[sync.epoch + 1].updates,
                       sig |-> epochHist[sync.epoch + 1].sig]

\* The pusher's reply is the epoch that it asked for.
AuditInv ==
    pc[Pusher] = "ret" /\ ~resp[Pusher].err =>
        /\ req[Pusher].epoch < NumEpochs
        /\ resp[Pusher].updates = epochHist[req[Pusher].epoch + 1].updates
        /\ resp[Pusher].sig = epochHist[req[Pusher].epoch + 1].sig

SysInv ==
    /\ IInv
    /\ ReqInv
    /\ AcceptInv
    /\ EpochBound
    /\ CountInv
    /\ PutInv
    /\ ReadInv
    /\ ClientInv
    /\ HistInv
    /\ GotInv
    /\ MainInv
    /\ SyncInv
    /\ AuditInv
    /\ AuditorsInSync
    /\ NothingFails

-----------------------------------------------------------------------------
(* The server's steps, and what they leave as it was. *)

\* The threads of the system.
LEMMA Threads ==
    /\ Alice \in Uid /\ Bob \in Uid /\ Alice # Bob /\ Alice \in Putters
    /\ Uid \subseteq Thread /\ Pusher \in Thread /\ Pusher \notin Uid
    /\ \A t \in Thread : t \in Uid \/ t = Pusher
BY ThreadAssumption DEF Putters

\* The system's steps are steps of the server, or leave it alone.
LEMMA ToServer == ASSUME SysNext PROVE [Next]_vars
<1>1. CASE ServerStep(Worker)
  BY <1>1 DEF ServerStep, Next
<1>2. ASSUME NEW t \in Thread, ServerStep(Handle(t))
      PROVE  Next
  BY <1>2 DEF ServerStep, Handle, Serve, Next
<1>3. ASSUME NEW u \in Uid, StartPut(u) \/ FinishPut(u)
      PROVE  Next
  BY <1>3, Threads DEF StartPut, FinishPut, Serve, Next
<1>4. CASE StartGet \/ FinishGet
  BY <1>4, Threads DEF StartGet, FinishGet, Serve, Next
<1>5. CASE StartSelfMon \/ FinishSelfMon
  BY <1>5, Threads DEF StartSelfMon, FinishSelfMon, Serve, Next
<1>6. CASE FetchUpdate \/ FetchedUpdate
  BY <1>6, Threads DEF FetchUpdate, FetchedUpdate, Serve, Next
<1>7. CASE PushUpdate \/ Finish
  BY <1>7 DEF PushUpdate, Finish
<1>8. ASSUME NEW u, NEW a, CliAudit(u, a)
      PROVE  UNCHANGED vars
  BY <1>8 DEF CliAudit
<1> QED
  BY <1>1, <1>2, <1>3, <1>4, <1>5, <1>6, <1>7, <1>8 DEF SysNext, UserStep, MainStep

\* Signed epochs stay as they are, and so do the entries of the map: what is
\* added is stamped with an epoch that is not signed yet.
LEMMA Grows ==
    ASSUME IInv, [Next]_vars
    PROVE  /\ NumEpochs \in Nat \ {0} /\ NumEpochs' \in Nat /\ NumEpochs' >= NumEpochs
           /\ \A epoch \in 0..(NumEpochs - 1) : epochHist'[epoch + 1] = epochHist[epoch + 1]
           /\ \A l \in DOMAIN keyMap : l \in DOMAIN keyMap' /\ keyMap'[l] = keyMap[l]
           /\ \A l \in DOMAIN keyMap' : l \in DOMAIN keyMap \/ keyMap'[l].epoch = NumEpochs
<1>1. epochHist \in Seq(EpochInfoSet) /\ NumEpochs \in Nat \ {0}
  BY DEF IInv, Types, NumEpochs
<1>2. CASE UNCHANGED <<epochHist, keyMap>>
  BY <1>1, <1>2 DEF NumEpochs
<1>3. CASE WorkerApply /\ ~resp[work[idx]].err
  <2> DEFINE t == work[idx]
             label == CompMapLabel(req[t].uid, userInfo[req[t].uid].numVers)
             val == CompMapVal(NumEpochs, CompCommitOpen(label, req[t].pk))
  <2>1. /\ wpc = "apply" /\ idx \in DOMAIN work
        /\ keyMap' = MapPut(keyMap, outs0[t].latest, outs0[t].mapVal)
        /\ UNCHANGED epochHist
    BY <1>3 DEF WorkerApply
  <2>2. t \in Thread /\ req[t].uid \in Uid /\ Prepared(t)
    BY <1>3, <2>1, Applying
  <2>3. outs0[t].latest = label /\ outs0[t].mapVal = val
    BY <2>2 DEF Prepared
  <2>4. label.uid = req[t].uid /\ label.ver = userInfo[req[t].uid].numVers /\ val.epoch = NumEpochs
    BY DEF CompMapLabel, CompMapVal
  <2>5. userInfo[req[t].uid].numVers \in Nat
    BY <2>2 DEF IInv, Types, TypeOK
  <2> HIDE DEF t, label, val
  <2>6. label \notin DOMAIN keyMap
    <3>1. ~(label.ver < userInfo[req[t].uid].numVers)
      BY <2>4, <2>5
    <3> QED
      BY <2>2, <2>4, <3>1 DEF IInv, VersionsInMap
  <2>7. /\ DOMAIN keyMap' = DOMAIN keyMap \cup {label}
        /\ keyMap'[label] = val
        /\ \A l \in DOMAIN keyMap : l # label => keyMap'[l] = keyMap[l]
    BY <2>1, <2>3 DEF MapPut
  <2>8. \A epoch \in 0..(NumEpochs - 1) : epochHist'[epoch + 1] = epochHist[epoch + 1]
    BY <2>1
  <2>9. \A l \in DOMAIN keyMap : l \in DOMAIN keyMap' /\ keyMap'[l] = keyMap[l]
    BY <2>6, <2>7
  <2>10. \A l \in DOMAIN keyMap' : l \in DOMAIN keyMap \/ keyMap'[l].epoch = NumEpochs
    BY <2>4, <2>7
  <2>11. NumEpochs' \in Nat /\ NumEpochs' >= NumEpochs
    BY <1>1, <2>1 DEF NumEpochs
  <2> QED
    BY <1>1, <2>8, <2>9, <2>10, <2>11
<1>4. CASE WorkerPublish
  <2> DEFINE info == EpochInfo(NumEpochs, keyMap, upd)
  <2>1. epochHist' = Append(epochHist, info) /\ UNCHANGED keyMap
    BY <1>4 DEF WorkerPublish, UpdEpochHist
  <2> HIDE DEF info
  <2>2. NumEpochs' = NumEpochs + 1 /\ \A i \in 1..NumEpochs : epochHist'[i] = epochHist[i]
    BY <1>1, <2>1 DEF NumEpochs
  <2>3. \A epoch \in 0..(NumEpochs - 1) : epoch + 1 \in 1..NumEpochs
    BY <1>1
  <2>4. NumEpochs' \in Nat /\ NumEpochs' >= NumEpochs
    BY <1>1, <2>1 DEF NumEpochs
  <2>5. \A epoch \in 0..(NumEpochs - 1) : epochHist'[epoch + 1] = epochHist[epoch + 1]
    BY <2>2, <2>3
  <2> QED
    BY <1>1, <2>1, <2>4, <2>5
<1>5. CASE WorkerApply /\ resp[work[idx]].err
  BY <1>2, <1>5 DEF WorkerApply
<1>6. ASSUME NEW t \in Thread, CallPut(t) \/ CallRead(t) \/ Serve(t)
      PROVE  UNCHANGED <<epochHist, keyMap>>
  BY <1>6 DEF CallPut, CallRead, Serve, ReadUser, Get, SelfMon, AuditLock, Audit, Return,
     servVars
<1>7. CASE Worker /\ ~WorkerApply /\ ~WorkerPublish
  <2>1. UNCHANGED <<epochHist, keyMap>>
    BY <1>7 DEF Worker, WorkerGet, Mapper0, WorkerWaitLock, WorkerLock, Mapper1,
         WorkerFinish, servVars
  <2> QED
    BY <1>2, <2>1
<1> QED
  BY <1>2, <1>3, <1>4, <1>5, <1>6, <1>7 DEF Next, vars

\* What Alice's key was at a signed epoch does not change.
LEMMA KeyAtKept ==
    ASSUME IInv, [Next]_vars, NEW epoch \in 0..(NumEpochs - 1), NEW isReg, NEW pk,
           KeyAt(epoch, isReg, pk)
    PROVE  KeyAt(epoch, isReg, pk)'
<1>1. /\ NumEpochs \in Nat \ {0}
      /\ \A l \in DOMAIN keyMap : l \in DOMAIN keyMap' /\ keyMap'[l] = keyMap[l]
      /\ \A l \in DOMAIN keyMap' : l \in DOMAIN keyMap \/ keyMap'[l].epoch = NumEpochs
  BY Grows
<1>2. ~(NumEpochs <= epoch) /\ NumEpochs > epoch
  BY <1>1
<1>3. CASE isReg
  <2>1. PICK l \in DOMAIN keyMap :
            /\ l.uid = Alice /\ keyMap[l].epoch <= epoch /\ keyMap[l].commit.val = pk
            /\ \A k \in DOMAIN keyMap :
                    k.uid = Alice /\ keyMap[k].epoch <= epoch => k.ver <= l.ver
    BY <1>3 DEF KeyAt
  <2>2. \A k \in DOMAIN keyMap' :
            k.uid = Alice /\ keyMap'[k].epoch <= epoch => k.ver <= l.ver
    BY <1>1, <1>2, <2>1
  <2> QED
    BY <1>1, <1>3, <2>1, <2>2 DEF KeyAt
<1>4. CASE ~isReg
  BY <1>1, <1>2, <1>4 DEF KeyAt
<1> QED
  BY <1>3, <1>4

\* Nor does the digest of a signed epoch.
LEMMA DigAtKept ==
    ASSUME IInv, [Next]_vars, NEW epoch \in 0..(NumEpochs - 1)
    PROVE  DigAt(epoch)' = DigAt(epoch)
BY Grows DEF DigAt

\* The versions that a client has counted are in the map.
LEMMA CountedInMap ==
    ASSUME SysInv, NEW u \in Uid
    PROVE  /\ \A ver \in 0..(cli[u].nextVer - 1) : CompMapLabel(u, ver) \in DOMAIN keyMap
           /\ cli[u].nextVer \in Nat
           /\ userInfo[u].numVers \in {cli[u].nextVer, cli[u].nextVer + 1}
<1>1. cli[u].nextVer \in Nat
  BY DEF SysInv, ClientInv
<1>2. userInfo[u].numVers \in {cli[u].nextVer, cli[u].nextVer + 1}
  BY DEF SysInv, CountInv
<1>3. HistInMap(u, userInfo[u].numVers)
  BY DEF SysInv, IInv, VersionsInMap
<1>4. \A ver \in 0..(cli[u].nextVer - 1) : ver \in 0..(userInfo[u].numVers - 1)
  BY <1>1, <1>2
<1> QED
  BY <1>1, <1>2, <1>3, <1>4 DEF HistInMap

\* What the server does keeps what is said of clients, history, pusher and
\* auditors.
LEMMA ServerFrame ==
    ASSUME SysInv, [Next]_vars, UNCHANGED <<userVars, main, adtrVars, failed>>
    PROVE  /\ ClientInv' /\ HistInv' /\ GotInv' /\ MainInv' /\ SyncInv'
           /\ AuditorsInSync' /\ NothingFails'
<1> USE DEF userVars, adtrVars
<1>1. /\ IInv
      /\ NumEpochs \in Nat \ {0} /\ NumEpochs' \in Nat /\ NumEpochs' >= NumEpochs
      /\ \A epoch \in 0..(NumEpochs - 1) : epochHist'[epoch + 1] = epochHist[epoch + 1]
      /\ \A l \in DOMAIN keyMap : l \in DOMAIN keyMap' /\ keyMap'[l] = keyMap[l]
  BY Grows DEF SysInv
<1>2. ASSUME NEW epoch \in 0..(NumEpochs - 1)
      PROVE  epoch \in 0..(NumEpochs' - 1)
  BY <1>1 DEF NumEpochs
<1>3. ClientInv'
  <2>1. \A epoch \in 0..(NumEpochs - 1) : DigAt(epoch)' = DigAt(epoch)
    BY <1>1, DigAtKept
  <2>2. \A n \in 0..NumEpochs : n \in 0..NumEpochs'
    BY <1>1
  <2> QED
    BY <1>2, <2>1, <2>2 DEF SysInv, ClientInv
<1>4. HistInv'
  <2>1. \A ver \in 0..(cli[Alice].nextVer - 1) :
            keyMap'[CompMapLabel(Alice, ver)] = keyMap[CompMapLabel(Alice, ver)]
    BY <1>1, CountedInMap, Threads
  <2>2. \A i \in DOMAIN hist : i - 1 \in 0..(NumEpochs - 1)
    <3>1. Len(hist) \in 0..NumEpochs /\ DOMAIN hist = 1..Len(hist)
      BY Threads DEF SysInv, HistInv, ClientInv
    <3> QED
      BY <1>1, <3>1
  <2>3. \A i \in DOMAIN hist : KeyAt(i - 1, hist[i].isReg, hist[i].pk)'
    <3> SUFFICES ASSUME NEW i \in DOMAIN hist
                 PROVE  KeyAt(i - 1, hist[i].isReg, hist[i].pk)'
      OBVIOUS
    <3>1. KeyAt(i - 1, hist[i].isReg, hist[i].pk)
      BY DEF SysInv, HistInv
    <3> QED
      BY <1>1, <2>2, <3>1, KeyAtKept
  <2> QED
    BY <2>1, <2>3 DEF SysInv, HistInv
<1>5. GotInv'
  <2> SUFFICES ASSUME got.done
               PROVE  (/\ got.epoch \in 0..(NumEpochs - 1)
                       /\ got.isReg \in BOOLEAN
                       /\ KeyAt(got.epoch, got.isReg, got.pk))'
    BY DEF SysInv, GotInv
  <2>1. got.epoch \in 0..(NumEpochs - 1) /\ KeyAt(got.epoch, got.isReg, got.pk)
        /\ got.isReg \in BOOLEAN
    BY DEF SysInv, GotInv
  <2>2. KeyAt(got.epoch, got.isReg, got.pk)'
    BY <1>1, <2>1, KeyAtKept
  <2> QED
    BY <1>2, <2>1, <2>2
<1>6. MainInv'
  BY DEF SysInv, MainInv, MorePuts
<1>7. SyncInv'
  <2>1. sync.upd # NoUpd =>
            /\ main = "sync" /\ sync.epoch < NumEpochs'
            /\ sync.upd = [updates |-> epochHist'[sync.epoch + 1].updates,
                           sig |-> epochHist'[sync.epoch + 1].sig]
    <3> SUFFICES ASSUME sync.upd # NoUpd
                 PROVE  /\ main = "sync" /\ sync.epoch < NumEpochs'
                        /\ epochHist'[sync.epoch + 1] = epochHist[sync.epoch + 1]
      BY DEF SysInv, SyncInv
    <3>1. main = "sync" /\ sync.epoch < NumEpochs /\ sync.epoch \in Nat
      BY DEF SysInv, SyncInv
    <3>2. sync.epoch \in 0..(NumEpochs - 1) /\ sync.epoch < NumEpochs'
      BY <1>1, <3>1
    <3> QED
      BY <1>1, <3>1, <3>2
  <2> QED
    BY <2>1 DEF SysInv, SyncInv
<1>8. AuditorsInSync'
  <2> SUFFICES ASSUME NEW a \in Adtrs, NEW i \in DOMAIN logs[a].log
               PROVE  (/\ i <= NumEpochs
                       /\ logs[a].log[i] = epochHist[i].dig
                       /\ logs[a].sigs[i] = epochHist[i].sig)'
    BY DEF AuditorsInSync
  <2>1. /\ i <= NumEpochs
        /\ logs[a].log[i] = epochHist[i].dig
        /\ logs[a].sigs[i] = epochHist[i].sig
    BY DEF SysInv, AuditorsInSync
  <2>2. i \in Nat /\ i >= 1
    BY DEF SysInv, SyncInv
  <2>3. i - 1 \in 0..(NumEpochs - 1) /\ i <= NumEpochs' /\ i - 1 + 1 = i
    BY <1>1, <2>1, <2>2
  <2>4. epochHist'[i] = epochHist[i]
    BY <1>1, <2>3
  <2> QED
    BY <2>1, <2>3, <2>4
<1>9. NothingFails'
  BY DEF SysInv, NothingFails
<1> QED
  BY <1>3, <1>4, <1>5, <1>6, <1>7, <1>8, <1>9

-----------------------------------------------------------------------------
(* Steps of the Worker. *)

\* The arguments of a call.
LEMMA CallTypes ==
    ASSUME SysInv
    PROVE  /\ \A t \in Thread : req[t].op = "audit" => req[t].epoch \in Nat
           /\ \A t \in Thread : req[t].op = "put" => req[t].pk \in Pk
           /\ \A t \in Thread : req[t].op \in {"none", "put", "get", "selfmon", "audit"}
           /\ pc[Pusher] # "idle" => req[Pusher].op = "audit"
           /\ \A t \in Thread : pc[t] \in {"idle", "do", "rlock", "read", "ret"}
<1>1. ASSUME NEW t \in Thread
      PROVE  /\ req[t].op = "audit" => req[t].epoch \in Nat
             /\ req[t].op \in {"none", "put", "get", "selfmon", "audit"}
             /\ pc[t] \in {"idle", "do", "rlock", "read", "ret"}
  <2>1. req[t] \in Requests \cup {NoReq}
    BY DEF SysInv, IInv, Types, TypeOK
  <2>2. \A e \in 0..MaxEpochs : e \in Nat
    OBVIOUS
  <2>3. pc[t] \in {"idle", "do", "rlock", "read", "ret"}
    BY DEF SysInv, IInv, Types, TypeOK
  <2>4. CASE req[t] \in [op : {"put"}, uid : Uid, pk : Pk]
    BY <2>3, <2>4
  <2>5. CASE req[t] \in [op : {"get", "selfmon"}, uid : Uid]
    <3>1. req[t].op = "get" \/ req[t].op = "selfmon"
      BY <2>5
    <3> QED
      BY <2>3, <3>1
  <2>6. CASE req[t] \in [op : {"audit"}, epoch : 0..MaxEpochs]
    <3>1. req[t].op = "audit" /\ req[t].epoch \in 0..MaxEpochs
      BY <2>6
    <3> QED
      BY <2>2, <2>3, <3>1
  <2>7. CASE req[t] = NoReq
    BY <2>3, <2>7 DEF NoReq
  <2> QED
    BY <2>1, <2>4, <2>5, <2>6, <2>7 DEF Requests
<1>2. \A t \in Thread : req[t].op = "put" => req[t].pk \in Pk
  BY RequestType DEF SysInv, IInv, Types, TypeOK
<1>3. pc[Pusher] # "idle" => req[Pusher].op = "audit"
  BY <1>1, Threads DEF SysInv, ReqInv, Putters
<1> QED
  BY <1>1, <1>2, <1>3

\* The Worker changes replies of waiting threads only, and wakes some of them.
LEMMA WorkerThreads ==
    ASSUME SysInv, Worker
    PROVE  /\ UNCHANGED <<req, local>>
           /\ \A t \in Thread : pc[t] # "do" => pc'[t] = pc[t] /\ resp'[t] = resp[t]
           /\ \A t \in Thread : pc[t] = "do" => pc'[t] \in {"do", "ret"}
<1> USE DEF SysInv, IInv, lockVars, servVars
<1>1. CASE WorkerGet
  <2>1. \A t \in Range(workQ) : pc[t] = "do"
    BY DEF Types, TypeOK, QueueInv, Range
  <2> QED
    BY <1>1, <2>1 DEF WorkerGet
<1>2. ASSUME NEW t \in Thread, Mapper1(t)
      PROVE  /\ pc[t] = "do" /\ UNCHANGED <<req, local, pc>>
             /\ \A s \in Thread : s # t => resp'[s] = resp[s]
  <2>1. wpc = "map1" /\ t \in todo
    BY <1>2 DEF Mapper1
  <2>2. pc[t] = "do"
    BY <2>1 DEF Types, TypeOK, PhaseInv, WorkInv, QueueInv, Pending, Range
  <2>3. \A s \in Thread : s # t => resp'[s] = resp[s]
    BY <1>2 DEF Mapper1, Types
  <2> QED
    BY <1>2, <2>2, <2>3 DEF Mapper1
<1>3. CASE WorkerFinish
  <2>1. /\ wpc = "map1" /\ pc' = [pc EXCEPT ![work[idx]] = "ret"]
        /\ UNCHANGED <<req, local, resp>>
    BY <1>3 DEF WorkerFinish, Goto
  <2>2. idx \in DOMAIN work /\ work[idx] \in Thread /\ idx \in Nat
    BY <2>1 DEF Types, TypeOK
  <2>3. pc[work[idx]] = "do"
    BY <2>1, <2>2 DEF QueueInv, Pending
  <2>4. \A t \in Thread : pc'[t] = IF t = work[idx] THEN "ret" ELSE pc[t]
    BY <2>1 DEF Types, TypeOK
  <2> QED
    BY <2>1, <2>2, <2>3, <2>4
<1>4. CASE WorkerApply
  BY <1>4 DEF WorkerApply
<1>5. CASE WorkerPublish
  BY <1>5 DEF WorkerPublish
<1>6. ASSUME NEW t \in Thread, Mapper0(t)
      PROVE  UNCHANGED <<req, local, pc, resp>>
  BY <1>6 DEF Mapper0
<1>7. CASE WorkerWaitLock \/ WorkerLock
  BY <1>7 DEF WorkerWaitLock, WorkerLock
<1> QED
  BY <1>1, <1>2, <1>3, <1>4, <1>5, <1>6, <1>7 DEF Worker

\* What a reader has read stays right.
LEMMA ReaderKept ==
    ASSUME IInv, [Next]_vars, NEW u \in Uid, ReadAnswered(u),
           UNCHANGED <<cli[u], got, req[u], pc[u], resp[u], local[u]>>
    PROVE  ReadAnswered(u)'
<1>1. /\ NumEpochs \in Nat \ {0} /\ NumEpochs' \in Nat /\ NumEpochs' >= NumEpochs
      /\ \A epoch \in 0..(NumEpochs - 1) : epochHist'[epoch + 1] = epochHist[epoch + 1]
  BY Grows
<1>2. PICK epoch, isReg, pk :
          /\ epoch = resp[u].dig.epoch
          /\ isReg = resp[u].isReg
          /\ pk = resp[u].latest.pkOpen.val
  OBVIOUS
<1>3. epoch \in 0..(NumEpochs - 1) /\ resp[u].dig = DigAt(epoch)
  BY <1>2 DEF ReadAnswered
<1>4. epoch \in 0..(NumEpochs' - 1)
  BY <1>1, <1>3
<1>5. DigAt(epoch)' = DigAt(epoch)
  BY <1>1, <1>3 DEF DigAt
<1>6. KeyAt(epoch, isReg, pk) => KeyAt(epoch, isReg, pk)'
  BY <1>3, KeyAtKept
<1> QED
  BY <1>2, <1>3, <1>4, <1>5, <1>6 DEF ReadAnswered

\* What the Worker does keeps what is said of calls and of readers.
LEMMA WorkerReaders ==
    ASSUME SysInv, ServerStep(Worker)
    PROVE  ReqInv' /\ ReadInv' /\ AuditInv'
<1> USE DEF userVars, adtrVars
<1>1. /\ Worker /\ UNCHANGED <<userVars, main, adtrVars, failed>>
      /\ IInv /\ [Next]_vars
  BY DEF ServerStep, SysInv, Next
<1>2. /\ UNCHANGED <<req, local>>
      /\ \A t \in Thread : pc[t] # "do" => pc'[t] = pc[t] /\ resp'[t] = resp[t]
      /\ \A t \in Thread : pc[t] = "do" => pc'[t] \in {"do", "ret"}
  BY <1>1, WorkerThreads
<1>3. /\ NumEpochs \in Nat \ {0} /\ NumEpochs' \in Nat /\ NumEpochs' >= NumEpochs
      /\ \A epoch \in 0..(NumEpochs - 1) : epochHist'[epoch + 1] = epochHist[epoch + 1]
  BY <1>1, Grows
<1>4. ReqInv'
  <2>1. \A t \in Thread : pc[t] = "do" => req[t].op = "put"
    BY DEF SysInv, IInv, ThreadInv
  <2> QED
    BY <1>1, <1>2, <2>1 DEF SysInv, ReqInv, MorePuts
<1>5. ReadInv'
  <2> SUFFICES ASSUME NEW u \in Uid, req[u].op \in {"get", "selfmon"}, pc'[u] \in {"read", "ret"}
               PROVE  ReadAnswered(u)'
    BY <1>2 DEF ReadInv
  <2>1. pc[u] # "do" /\ u \in Thread
    BY Threads DEF SysInv, IInv, ThreadInv
  <2>2. pc'[u] = pc[u] /\ resp'[u] = resp[u]
    BY <1>2, <2>1
  <2>3. ReadAnswered(u)
    BY <2>2 DEF SysInv, ReadInv
  <2>4. UNCHANGED <<cli[u], got, req[u], pc[u], resp[u], local[u]>>
    BY <1>1, <1>2, <2>2
  <2> QED
    BY <1>1, <2>3, <2>4, ReaderKept
<1>6. AuditInv'
  <2> SUFFICES ASSUME pc'[Pusher] = "ret", ~resp'[Pusher].err
               PROVE  (/\ req[Pusher].epoch < NumEpochs
                       /\ resp[Pusher].updates = epochHist[req[Pusher].epoch + 1].updates
                       /\ resp[Pusher].sig = epochHist[req[Pusher].epoch + 1].sig)'
    BY DEF AuditInv
  <2>1. pc[Pusher] # "do"
    BY CallTypes, Threads DEF SysInv, IInv, ThreadInv
  <2>2. pc[Pusher] = "ret" /\ resp'[Pusher] = resp[Pusher]
    BY <1>2, <2>1, Threads
  <2>3. req[Pusher].epoch \in Nat
    BY <2>2, CallTypes, Threads
  <2>4. req[Pusher].epoch < NumEpochs
    BY <2>2 DEF SysInv, AuditInv
  <2>5. req[Pusher].epoch \in 0..(NumEpochs - 1) /\ req[Pusher].epoch < NumEpochs'
    BY <1>3, <2>3, <2>4 DEF NumEpochs
  <2> QED
    BY <1>2, <1>3, <2>2, <2>5 DEF SysInv, AuditInv
<1> QED
  BY <1>4, <1>5, <1>6

\* The works of the batch that are not finished are Puts of different users,
\* each waiting for its own.
LEMMA ServedBatch ==
    ASSUME SysInv
    PROVE  /\ work \in Seq(Thread) /\ Len(work) \in Nat /\ DOMAIN work = 1..Len(work)
           /\ idx \in Nat /\ \A i \in DOMAIN work : i \in Nat /\ work[i] \in Thread
           /\ \A i \in DOMAIN work : Pending(i) =>
                /\ pc[work[i]] = "do"
                /\ req[work[i]].op = "put" /\ req[work[i]].uid = work[i]
                /\ work[i] \in Uid
           /\ \A i, j \in DOMAIN work : work[i] = work[j] => i = j
<1>1. /\ work \in Seq(Thread) /\ Len(work) \in Nat /\ DOMAIN work = 1..Len(work)
      /\ idx \in Nat /\ \A i \in DOMAIN work : i \in Nat /\ work[i] \in Thread
  BY DEF SysInv, IInv, Types, TypeOK
<1>2. \A i \in DOMAIN work : Pending(i) => pc[work[i]] = "do" /\ req[work[i]].op = "put"
  BY <1>1 DEF SysInv, IInv, QueueInv, ThreadInv
<1>3. \A t \in Thread : req[t].op = "put" => t \in Uid /\ req[t].uid = t
  BY DEF SysInv, ReqInv, Putters
<1> QED
  BY <1>1, <1>2, <1>3 DEF SysInv, IInv, QueueInv

\* A batch has no duplicates: its users have one Put outstanding each.
LEMMA TakeStep ==
    ASSUME SysInv, ServerStep(WorkerGet)
    PROVE  AcceptInv' /\ EpochBound' /\ CountInv' /\ PutInv'
<1> DEFINE dups == {workQ[i] : i \in {j \in DOMAIN workQ : IsDup(workQ, j)}}
<1>1. /\ wpc = "get" /\ workQ # <<>> /\ wpc' = "map0"
      /\ work' = workQ /\ workQ' = <<>>
      /\ resp' = [t \in Thread |->
                    IF t \in Range(workQ)
                    THEN IF t \in dups THEN ErrResp ELSE NoResp
                    ELSE resp[t]]
      /\ UNCHANGED <<epochHist, userInfo, idx, pc, req, cli>>
  BY DEF ServerStep, WorkerGet, servVars, userVars
<1>2. workQ \in Seq(Thread) /\ \A i \in DOMAIN workQ : workQ[i] \in Range(workQ)
  BY DEF SysInv, IInv, Types, TypeOK, Range
<1>3. \A i \in DOMAIN workQ : workQ[i] \in Thread /\ pc[workQ[i]] = "do"
  BY <1>2 DEF SysInv, IInv, QueueInv
<1>4. dups = {}
  <2> SUFFICES ASSUME NEW i \in DOMAIN workQ, NEW j \in 1..(i - 1),
                      req[workQ[j]].uid = req[workQ[i]].uid
               PROVE  FALSE
    BY DEF IsDup
  <2>1. j \in DOMAIN workQ /\ i # j
    BY <1>2
  <2>2. workQ[i] = workQ[j]
    BY <1>3, <2>1 DEF SysInv, IInv, ThreadInv, ReqInv
  <2> QED
    BY <2>1, <2>2 DEF SysInv, IInv, QueueInv
<1> HIDE DEF dups
<1>5. \A i \in DOMAIN work' : resp'[work'[i]] = NoResp
  BY <1>1, <1>2, <1>3, <1>4
<1>6. \A t \in Thread : pc[t] # "do" => resp'[t] = resp[t]
  <2>1. \A t \in Range(workQ) : pc[t] = "do"
    BY <1>3 DEF Range
  <2> QED
    BY <1>1, <2>1
<1>7. AcceptInv'
  BY <1>1, <1>5, <1>6 DEF AcceptInv, SysInv, Pending, NoResp
<1>8. EpochBound'
  BY <1>1 DEF SysInv, EpochBound, NumEpochs
<1>9. CountInv'
  <2>1. \A u \in Uid : InMap(u)' <=> InMap(u)
    BY <1>1 DEF InMap
  <2> QED
    BY <1>1, <2>1 DEF SysInv, CountInv
<1>10. PutInv'
  <2>1. \A u \in Uid : pc[u] = "ret" => resp'[u] = resp[u]
    BY <1>6, Threads
  <2> QED
    BY <1>1, <2>1 DEF SysInv, PutInv, PutAnswered, DigAt, NumEpochs
<1> QED
  BY <1>7, <1>8, <1>9, <1>10

\* Between taking a batch and applying it, nothing that a client sees changes.
LEMMA PrepareStep ==
    ASSUME SysInv, ServerStep(WorkerWaitLock \/ WorkerLock \/ \E t \in Thread : Mapper0(t))
    PROVE  AcceptInv' /\ EpochBound' /\ CountInv' /\ PutInv'
<1>1. /\ wpc \in {"map0", "lock"} /\ wpc' \in {"map0", "lock", "apply"}
      /\ UNCHANGED <<epochHist, userInfo, workQ, work, idx, pc, req, resp, cli>>
  BY DEF ServerStep, WorkerWaitLock, WorkerLock, Mapper0, servVars, userVars
<1>2. idx = 1
  BY <1>1 DEF SysInv, IInv, PhaseInv
<1>3. AcceptInv'
  BY <1>1 DEF SysInv, AcceptInv, Pending
<1>4. EpochBound'
  BY <1>1 DEF SysInv, EpochBound, NumEpochs
<1>5. CountInv'
  <2>1. \A i \in DOMAIN work : ~(i < idx)
    BY <1>2, ServedBatch
  <2>2. \A u \in Uid : InMap(u)' <=> InMap(u)
    BY <1>1, <2>1 DEF InMap
  <2> QED
    BY <1>1, <2>2 DEF SysInv, CountInv
<1>6. PutInv'
  BY <1>1 DEF SysInv, PutInv, PutAnswered, DigAt, NumEpochs
<1> QED
  BY <1>3, <1>4, <1>5, <1>6

\* An iteration of the loop counts the Put of one user, who has not counted it.
LEMMA ApplyStep ==
    ASSUME SysInv, ServerStep(WorkerApply)
    PROVE  AcceptInv' /\ EpochBound' /\ CountInv' /\ PutInv'
<1>1. /\ wpc = "apply" /\ wpc' = "apply" /\ idx \in DOMAIN work /\ idx' = idx + 1
      /\ UNCHANGED <<epochHist, workQ, work, pc, req, resp, cli>>
  BY DEF ServerStep, WorkerApply, userVars
<1>2. Pending(idx)
  BY <1>1 DEF Pending
<1>3. PICK t \in Uid :
          /\ t = work[idx] /\ ~resp[t].err
          /\ pc[t] = "do" /\ req[t].op = "put" /\ req[t].uid = t
  BY <1>1, <1>2, ServedBatch DEF SysInv, AcceptInv
<1>4. userInfo' = [userInfo EXCEPT ![t] = NewUserState(@, req[t].pk)]
  BY <1>3 DEF ServerStep, WorkerApply
<1>5. /\ userInfo'[t].numVers = userInfo[t].numVers + 1
      /\ \A u \in Uid : u # t => userInfo'[u] = userInfo[u]
  BY <1>3, <1>4 DEF SysInv, IInv, Types, TypeOK, NewUserState
<1>6. InMap(t)' /\ ~InMap(t)
  <2>1. ~(idx < idx) /\ idx < idx + 1
    BY ServedBatch
  <2>2. \A i \in DOMAIN work : work[i] = t => i = idx
    BY <1>1, <1>3, ServedBatch
  <2>3. ~InMap(t)
    BY <1>1, <1>3, <2>1, <2>2 DEF InMap
  <2> QED
    BY <1>1, <1>3, <2>1, <2>3 DEF InMap
<1>7. \A u \in Uid : u # t => (InMap(u)' <=> InMap(u))
  <2>1. \A i \in DOMAIN work : i # idx => (i < idx + 1 <=> i < idx)
    BY ServedBatch
  <2> QED
    BY <1>1, <1>3, <2>1 DEF InMap
<1>8. CountInv'
  <2> SUFFICES ASSUME NEW u \in Uid
               PROVE  userInfo'[u].numVers = IF InMap(u)' THEN cli[u].nextVer + 1 ELSE cli[u].nextVer
    BY <1>1 DEF CountInv
  <2>1. CASE u = t
    BY <1>5, <1>6, <2>1 DEF SysInv, CountInv
  <2>2. CASE u # t
    BY <1>5, <1>7, <2>2 DEF SysInv, CountInv
  <2> QED
    BY <2>1, <2>2
<1>9. AcceptInv'
  BY <1>1 DEF SysInv, AcceptInv, Pending
<1>10. EpochBound'
  BY <1>1 DEF SysInv, EpochBound, NumEpochs
<1>11. PutInv'
  BY <1>1 DEF SysInv, PutInv, PutAnswered, DigAt, NumEpochs
<1> QED
  BY <1>8, <1>9, <1>10, <1>11

\* A new epoch is later than all that the clients of its Puts have seen.
LEMMA PublishStep ==
    ASSUME SysInv, ServerStep(WorkerPublish)
    PROVE  AcceptInv' /\ EpochBound' /\ CountInv' /\ PutInv'
<1>1. /\ wpc = "apply" /\ wpc' = "map1" /\ idx > Len(work) /\ idx' = 1
      /\ epochHist' = Append(epochHist, EpochInfo(NumEpochs, keyMap, upd))
      /\ todo' = {t \in Range(work) : ~resp[t].err}
      /\ UNCHANGED <<userInfo, workQ, work, pc, req, resp, cli>>
  BY DEF ServerStep, WorkerPublish, UpdEpochHist, userVars
<1>2. IInv /\ [Next]_vars
  BY DEF ServerStep, SysInv, Next, Worker
<1>3. /\ NumEpochs \in Nat \ {0} /\ NumEpochs' = NumEpochs + 1
      /\ \A epoch \in 0..(NumEpochs - 1) : DigAt(epoch)' = DigAt(epoch)
  <2> DEFINE info == EpochInfo(NumEpochs, keyMap, upd)
  <2>1. epochHist' = Append(epochHist, info) /\ epochHist \in Seq(EpochInfoSet) /\ epochHist # <<>>
    BY <1>1, <1>2 DEF IInv, Types
  <2> HIDE DEF info
  <2>2. NumEpochs \in Nat \ {0} /\ NumEpochs' = NumEpochs + 1
    BY <2>1 DEF NumEpochs
  <2> QED
    BY <1>2, <2>2, DigAtKept
<1>4. \A i \in DOMAIN work : i < idx /\ i >= 1 /\ Pending(i) /\ work[i] \in todo'
  <2>1. \A i \in DOMAIN work : i < idx /\ i >= 1
    BY <1>1, ServedBatch
  <2> QED
    BY <1>1, <2>1 DEF SysInv, AcceptInv, Pending, Range
<1>5. AcceptInv'
  BY <1>1, <1>4 DEF SysInv, AcceptInv, Pending
<1>6. EpochBound'
  <2>1. NumEpochs <= MaxEpochs /\ (workQ # <<>> => NumEpochs < MaxEpochs)
    BY <1>1 DEF SysInv, EpochBound
  <2>2. NumEpochs + 1 <= MaxEpochs + 1 /\ (workQ # <<>> => NumEpochs + 1 <= MaxEpochs)
    BY <1>3, <2>1, MaxEpochsAssumption
  <2> QED
    BY <1>1, <1>3, <2>2 DEF EpochBound
<1>7. CountInv'
  <2>1. \A u \in Uid : InMap(u)' <=> InMap(u)
    BY <1>1, <1>4 DEF InMap
  <2> QED
    BY <1>1, <2>1 DEF SysInv, CountInv
<1>8. PutInv'
  <2>1. ASSUME NEW i \in DOMAIN work
        PROVE  cli[work[i]].nextEpoch < NumEpochs + 1
    <3>1. work[i] \in Uid
      BY <1>4, ServedBatch
    <3>2. cli[work[i]].nextEpoch \in 0..NumEpochs
      BY <3>1 DEF SysInv, ClientInv
    <3> QED
      BY <1>3, <3>2
  <2>2. ASSUME NEW u \in Uid, req[u].op = "put", pc[u] = "ret"
        PROVE  PutAnswered(u)'
    <3>1. /\ resp[u].dig.epoch \in cli[u].nextEpoch..(NumEpochs - 1)
          /\ resp[u].dig = DigAt(resp[u].dig.epoch)
          /\ resp[u].latest.labelProof.ver = cli[u].nextVer
      BY <2>2 DEF SysInv, PutInv, PutAnswered
    <3>2. cli[u].nextEpoch \in Nat
      BY DEF SysInv, ClientInv
    <3>3. resp[u].dig.epoch \in 0..(NumEpochs - 1)
      BY <1>3, <3>1, <3>2
    <3>4. resp[u].dig.epoch \in cli[u].nextEpoch..(NumEpochs + 1 - 1)
      BY <1>3, <3>1, <3>2
    <3>5. DigAt(resp[u].dig.epoch)' = DigAt(resp[u].dig.epoch)
      <4>1. PICK epoch \in 0..(NumEpochs - 1) : epoch = resp[u].dig.epoch
        BY <3>3
      <4>2. DigAt(epoch)' = DigAt(epoch)
        BY <1>3
      <4> QED
        BY <1>1, <4>1, <4>2
    <3> QED
      BY <1>1, <1>3, <3>1, <3>4, <3>5 DEF PutAnswered
  <2> QED
    BY <1>1, <1>3, <1>4, <2>1, <2>2 DEF PutInv
<1> QED
  BY <1>5, <1>6, <1>7, <1>8

\* A mapper1 goroutine answers with the latest epoch, for the version that the
\* Put has made.
LEMMA ServeAnswerStep ==
    ASSUME SysInv, NEW t \in Thread, ServerStep(Mapper1(t))
    PROVE  AcceptInv' /\ EpochBound' /\ CountInv' /\ PutInv'
<1>1. /\ wpc = "map1" /\ t \in todo /\ todo' = todo \ {t}
      /\ UNCHANGED <<epochHist, userInfo, workQ, wpc, work, idx, pc, req, cli>>
  BY DEF ServerStep, Mapper1, servVars, userVars
<1>2. /\ Types /\ VersionsInMap /\ Applied(t, NumEpochs - 1)
      /\ todo \subseteq Range(work) /\ idx = 1
  BY <1>1 DEF SysInv, IInv, WorkInv, PhaseInv
<1>3. PICK k \in DOMAIN work : work[k] = t
  BY <1>1, <1>2 DEF Range
<1>4. k >= idx
  BY <1>2, <1>3, ServedBatch
<1>5. t \in Uid /\ pc[t] = "do" /\ req[t].op = "put" /\ req[t].uid = t
  BY <1>3, <1>4, ServedBatch DEF Pending
<1>6. userInfo[t].numVers = cli[t].nextVer + 1
  <2>1. InMap(t)
    BY <1>1, <1>3, <1>4, <1>5 DEF InMap
  <2> QED
    BY <1>5, <2>1 DEF SysInv, CountInv
<1>7. /\ outs0[t].latest = CompMapLabel(t, userInfo[t].numVers - 1)
      /\ outs0[t].bound = CompMapLabel(t, userInfo[t].numVers)
      /\ outs0[t].latest \in DOMAIN keyMap
  BY <1>2, <1>5 DEF Applied
<1>8. outs0[t].bound \notin DOMAIN keyMap
  <2>1. userInfo[t].numVers \in Nat
    BY <1>2, <1>5 DEF Types, TypeOK
  <2>2. ~(userInfo[t].numVers < userInfo[t].numVers)
    BY <2>1
  <2> QED
    BY <1>2, <1>5, <1>7, <2>2 DEF VersionsInMap, CompMapLabel
<1>9. /\ ~resp'[t].err
      /\ resp'[t].dig = GetDig(epochHist)
      /\ resp'[t].latest.labelProof = outs0[t].latest
      /\ \A s \in Thread : s # t => resp'[s] = resp[s]
  <2> DEFINE reply ==
        [err |-> FALSE, dig |-> GetDig(epochHist),
         latest |-> Memb(outs0[t].latest, NumEpochs - 1, outs0[t].pkOpen,
                         MerkleProof(keyMap, outs0[t].latest)),
         bound |-> NonMemb(outs0[t].bound, MerkleProof(keyMap, outs0[t].bound))]
  <2>1. resp' = [resp EXCEPT ![t] = reply]
    BY <1>7, <1>8 DEF ServerStep, Mapper1
  <2>2. ~reply.err /\ reply.dig = GetDig(epochHist) /\ reply.latest.labelProof = outs0[t].latest
    BY DEF Memb
  <2> HIDE DEF reply
  <2> QED
    BY <1>2, <2>1, <2>2 DEF Types
<1>10. PutAnswered(t)'
  <2>1. NumEpochs \in Nat \ {0} /\ cli[t].nextEpoch \in Nat /\ cli[t].nextEpoch < NumEpochs
        /\ cli[t].nextVer \in Nat
    <3>1. NumEpochs \in Nat \ {0}
      BY <1>2 DEF Types, NumEpochs
    <3>2. cli[t].nextEpoch \in 0..NumEpochs /\ cli[t].nextVer \in Nat
      BY <1>5 DEF SysInv, ClientInv
    <3>3. cli[t].nextEpoch < NumEpochs
      BY <1>1, <1>3, <1>4 DEF SysInv, PutInv
    <3> QED
      BY <3>1, <3>2, <3>3
  <2>2. GetDig(epochHist) = DigAt(NumEpochs - 1) /\ GetDig(epochHist).epoch = NumEpochs - 1
    <3>1. NumEpochs - 1 + 1 = NumEpochs
      BY <2>1
    <3> QED
      BY <3>1 DEF GetDig, DigAt, NumEpochs
  <2>3. resp'[t].latest.labelProof.ver = cli[t].nextVer
    <3>1. outs0[t].latest.ver = userInfo[t].numVers - 1
      BY <1>7 DEF CompMapLabel
    <3> QED
      BY <1>6, <1>9, <2>1, <3>1
  <2>4. NumEpochs - 1 \in cli[t].nextEpoch..(NumEpochs - 1)
    BY <2>1
  <2> QED
    BY <1>1, <1>9, <2>2, <2>3, <2>4 DEF PutAnswered, DigAt, NumEpochs
<1>11. AcceptInv'
  BY <1>1, <1>5, <1>9, ServedBatch DEF SysInv, AcceptInv, Pending
<1>12. EpochBound'
  BY <1>1 DEF SysInv, EpochBound, NumEpochs
<1>13. CountInv'
  <2>1. \A u \in Uid : InMap(u)' <=> InMap(u)
    BY <1>1 DEF InMap
  <2> QED
    BY <1>1, <2>1 DEF SysInv, CountInv
<1>14. PutInv'
  <2>1. ASSUME NEW s \in Uid, s # t, PutAnswered(s)
        PROVE  PutAnswered(s)'
    BY <1>1, <1>9, <2>1, Threads DEF PutAnswered, DigAt, NumEpochs
  <2>2. ASSUME NEW i \in DOMAIN work, i >= idx, work[i] \notin todo'
        PROVE  PutAnswered(work[i])'
    <3>1. PICK s \in Uid : s = work[i]
      BY <2>2, ServedBatch DEF Pending
    <3>2. s # t => PutAnswered(s)
      BY <1>1, <2>2, <3>1 DEF SysInv, PutInv
    <3>3. PutAnswered(s)'
      BY <1>10, <2>1, <3>2
    <3> QED
      BY <1>1, <3>1, <3>3
  <2>3. \A i \in DOMAIN work : i >= idx => cli[work[i]].nextEpoch < NumEpochs
    BY <1>1 DEF SysInv, PutInv
  <2>4. \A u \in Uid : req[u].op = "put" /\ pc[u] = "ret" => PutAnswered(u)'
    BY <1>5, <2>1 DEF SysInv, PutInv
  <2> QED
    BY <1>1, <2>2, <2>3, <2>4 DEF PutInv, NumEpochs
<1> QED
  BY <1>11, <1>12, <1>13, <1>14

\* A caller is woken when its reply is there.
LEMMA WakeStep ==
    ASSUME SysInv, ServerStep(WorkerFinish)
    PROVE  AcceptInv' /\ EpochBound' /\ CountInv' /\ PutInv'
<1>1. /\ wpc = "map1" /\ todo = {} /\ pc' = [pc EXCEPT ![work[idx]] = "ret"]
      /\ \/ idx = Len(work) /\ wpc' = "get" /\ work' = <<>>
         \/ idx # Len(work) /\ idx' = idx + 1 /\ UNCHANGED <<wpc, work>>
      /\ UNCHANGED <<epochHist, userInfo, workQ, todo, req, resp, cli>>
  BY DEF ServerStep, WorkerFinish, LastWork, Goto, servVars, userVars
<1>2. /\ idx \in DOMAIN work /\ idx \in Nat /\ work[idx] \in Thread
      /\ \A i \in DOMAIN work : i \in Nat /\ i <= Len(work)
      /\ pc \in [Thread -> {"idle", "do", "rlock", "read", "ret"}]
      /\ Len(work) \in Nat /\ work \in Seq(Thread)
  BY <1>1 DEF SysInv, IInv, Types, TypeOK
<1>3. idx >= idx
  BY <1>2
<1>4. PICK t \in Uid : t = work[idx] /\ req[t].op = "put" /\ pc[t] = "do"
  BY <1>2, <1>3, ServedBatch DEF Pending
<1>5. pc'[t] = "ret" /\ \A s \in Thread : s # t => pc'[s] = pc[s]
  BY <1>1, <1>2, <1>4
<1>6. \A i \in DOMAIN work' :
          /\ wpc' = "map1" /\ i \in DOMAIN work /\ work'[i] = work[i]
          /\ i >= idx' => i >= idx /\ i # idx
  <2>1. \A i \in Nat : i >= idx + 1 => i >= idx /\ i # idx
    BY <1>2
  <2>2. CASE work' = <<>>
    BY <2>2
  <2>3. CASE idx' = idx + 1 /\ UNCHANGED <<wpc, work>>
    BY <1>1, <1>2, <2>1, <2>3
  <2> QED
    BY <1>1, <2>2, <2>3
<1>7. \A i \in DOMAIN work : i >= idx /\ i # idx => i \in DOMAIN work' /\ i >= idx'
  <2>1. \A i \in Nat, n \in Nat : i >= idx /\ i # idx /\ i <= n => n # idx /\ i >= idx + 1
    BY <1>2
  <2> QED
    BY <1>1, <1>2, <2>1
<1>8. PutAnswered(t)
  BY <1>1, <1>2, <1>3, <1>4 DEF SysInv, PutInv
<1>9. AcceptInv'
  <2>1. ~resp[t].err
    BY <1>1, <1>2, <1>3, <1>4 DEF SysInv, AcceptInv, Pending
  <2>2. \A s \in Thread : pc'[s] = "ret" /\ req[s].op = "put" => ~resp[s].err
    BY <1>5, <2>1 DEF SysInv, AcceptInv
  <2>3. \A i \in DOMAIN work' : Pending(i)' => Pending(i) /\ work'[i] = work[i]
    BY <1>1, <1>6 DEF Pending
  <2>4. \A i \in DOMAIN work' : Pending(i)' => ~resp[work'[i]].err
    BY <1>6, <2>3 DEF SysInv, AcceptInv
  <2> QED
    BY <1>1, <2>2, <2>4 DEF AcceptInv
<1>10. EpochBound'
  BY <1>1 DEF SysInv, EpochBound, NumEpochs
<1>11. CountInv'
  <2>1. InMap(t) /\ InMap(t)'
    BY <1>1, <1>2, <1>3, <1>4, <1>5 DEF InMap
  <2>2. ASSUME NEW u \in Uid, u # t
        PROVE  InMap(u)' <=> InMap(u)
    <3>1. pc'[u] = pc[u]
      BY <1>5, <2>2, Threads
    <3>2. ASSUME NEW i \in DOMAIN work', work'[i] = u
          PROVE  i \in DOMAIN work /\ work[i] = u /\ (i >= idx' => i >= idx) /\ wpc' = "map1"
      BY <1>6, <3>2
    <3>3. ASSUME NEW i \in DOMAIN work, work[i] = u, i >= idx
          PROVE  i \in DOMAIN work' /\ work'[i] = u /\ i >= idx' /\ wpc' = "map1"
      BY <1>4, <1>6, <1>7, <2>2, <3>3
    <3> QED
      BY <1>1, <3>1, <3>2, <3>3 DEF InMap
  <2> QED
    BY <1>1, <2>1, <2>2 DEF SysInv, CountInv
<1>12. PutInv'
  <2>1. ASSUME NEW u \in Uid, PutAnswered(u)
        PROVE  PutAnswered(u)'
    BY <1>1, <2>1 DEF PutAnswered, DigAt, NumEpochs
  <2>2. \A u \in Uid : req[u].op = "put" /\ pc'[u] = "ret" => PutAnswered(u)'
    BY <1>5, <1>8, <2>1, Threads DEF SysInv, PutInv
  <2>3. ASSUME NEW i \in DOMAIN work', i >= idx'
        PROVE  cli[work'[i]].nextEpoch < NumEpochs /\ PutAnswered(work[i])'
    <3>1. i \in DOMAIN work /\ i >= idx /\ work'[i] = work[i]
      BY <1>6, <2>3
    <3>2. PICK u \in Uid : u = work[i]
      BY <3>1, ServedBatch DEF Pending
    <3>3. cli[u].nextEpoch < NumEpochs /\ PutAnswered(u)
      BY <1>1, <3>1, <3>2 DEF SysInv, PutInv
    <3>4. PutAnswered(u)'
      BY <2>1, <3>3
    <3>5. u = work'[i]
      BY <3>1, <3>2
    <3> QED
      BY <3>3, <3>4, <3>5
  <2> QED
    BY <1>1, <2>2, <2>3 DEF PutInv, NumEpochs
<1> QED
  BY <1>9, <1>10, <1>11, <1>12

-----------------------------------------------------------------------------
(* What a thread does inside the server. *)

\* Steps that are not about a Put keep what is said of Puts.
LEMMA PutFrame ==
    ASSUME SysInv, UNCHANGED <<servVars, workQ, workerVars>>,
           \A t \in Thread : req[t].op = "put" \/ req'[t].op = "put" =>
                UNCHANGED <<req[t], pc[t], resp[t]>>,
           \A u \in Uid : cli'[u].nextVer = cli[u].nextVer,
           \A u \in Uid : req[u].op = "put" => cli'[u] = cli[u]
    PROVE  AcceptInv' /\ EpochBound' /\ CountInv' /\ PutInv'
<1> USE DEF servVars, workerVars
<1>1. \A i \in DOMAIN work : Pending(i) => Pending(i)' /\ work[i] \in Uid /\ work[i] \in Thread
  BY ServedBatch DEF Pending
<1>2. \A i \in DOMAIN work : Pending(i) => req[work[i]].op = "put"
  BY ServedBatch
<1>3. AcceptInv'
  <2>1. \A i \in DOMAIN work : Pending(i) => ~resp'[work[i]].err
    BY <1>1, <1>2 DEF SysInv, AcceptInv
  <2>2. \A i \in DOMAIN work' : Pending(i)' => Pending(i)
    BY DEF Pending
  <2>3. \A t \in Thread : pc'[t] = "ret" /\ req'[t].op = "put" => ~resp'[t].err
    BY DEF SysInv, AcceptInv
  <2> QED
    BY <2>1, <2>2, <2>3 DEF AcceptInv
<1>4. EpochBound'
  BY DEF SysInv, EpochBound, NumEpochs
<1>5. CountInv'
  <2>1. ASSUME NEW u \in Uid
        PROVE  InMap(u)' <=> InMap(u)
    BY Threads DEF InMap
  <2> QED
    BY <2>1 DEF SysInv, CountInv
<1>6. PutInv'
  <2>1. ASSUME NEW u \in Uid, req[u].op = "put", PutAnswered(u)
        PROVE  PutAnswered(u)'
    BY <2>1, Threads DEF PutAnswered, DigAt, NumEpochs
  <2>2. ASSUME wpc = "map1", NEW i \in DOMAIN work, i >= idx
        PROVE  /\ cli'[work[i]].nextEpoch < NumEpochs
               /\ work[i] \notin todo => PutAnswered(work[i])'
    <3>1. PICK u \in Uid : u = work[i] /\ req[u].op = "put"
      BY <1>1, <1>2, <2>2 DEF Pending
    <3>2. cli[u].nextEpoch < NumEpochs /\ (u \notin todo => PutAnswered(u))
      BY <2>2, <3>1 DEF SysInv, PutInv
    <3>3. cli'[u] = cli[u]
      BY <3>1
    <3>4. u \notin todo => PutAnswered(u)'
      BY <2>1, <3>1, <3>2
    <3> QED
      BY <3>1, <3>2, <3>3, <3>4
  <2>3. \A u \in Uid : req'[u].op = "put" /\ pc'[u] = "ret" => PutAnswered(u)'
    BY <2>1, Threads DEF SysInv, PutInv
  <2> QED
    BY <2>2, <2>3 DEF PutInv, NumEpochs
<1> QED
  BY <1>3, <1>4, <1>5, <1>6

\* What a thread does inside the server concerns that thread alone.
LEMMA HandleFrame ==
    ASSUME SysInv, NEW t \in Thread, ServerStep(Handle(t))
    PROVE  /\ UNCHANGED <<servVars, workQ, workerVars, req>>
           /\ UNCHANGED <<userVars, main, adtrVars, failed>>
           /\ IInv /\ [Next]_vars
           /\ pc[t] \in {"rlock", "read"} /\ pc'[t] \in {"read", "ret"}
           /\ req[t].op \in {"get", "selfmon", "audit"}
           /\ \A s \in Thread : s # t => UNCHANGED <<pc[s], resp[s], local[s]>>
           /\ AcceptInv' /\ EpochBound' /\ CountInv' /\ PutInv' /\ ReqInv'
<1>1. /\ Handle(t) /\ UNCHANGED <<userVars, main, adtrVars, failed>> /\ IInv
  BY DEF ServerStep, SysInv
<1>2. [Next]_vars
  BY <1>1 DEF Handle, Serve, Next
<1>3. pc \in [Thread -> {"idle", "do", "rlock", "read", "ret"}]
  BY <1>1 DEF IInv, Types, TypeOK
<1>4. /\ UNCHANGED <<servVars, workQ, workerVars, req>>
      /\ pc[t] \in {"rlock", "read"} /\ pc'[t] \in {"read", "ret"}
      /\ req[t].op \in {"get", "selfmon", "audit"}
      /\ \A s \in Thread : s # t => pc'[s] = pc[s]
  BY <1>1, <1>3 DEF Handle, ReadUser, Get, SelfMon, AuditLock, Audit, Goto
<1>5. \A s \in Thread : s # t => resp'[s] = resp[s]
  <2>1. resp = [s \in Thread |-> resp[s]]
    BY <1>1 DEF IInv, Types
  <2>2. CASE ReadUser(t) \/ AuditLock(t)
    BY <1>1, <2>1, <2>2 DEF ReadUser, AuditLock
  <2>5. CASE Audit(t)
    BY <1>1, <2>1, <2>5, AuditDoes
  <2>3. CASE Get(t)
    BY <1>1, <2>1, <2>3, Reading DEF Get
  <2>4. CASE SelfMon(t)
    BY <1>1, <2>1, <2>4, Reading DEF SelfMon
  <2> QED
    BY <1>1, <2>2, <2>3, <2>4, <2>5 DEF Handle
<1>6. \A s \in Thread : s # t => local'[s] = local[s]
  BY <1>1 DEF IInv, Types, TypeOK, Handle, ReadUser, Get, SelfMon, AuditLock, Audit
<1>7. ReqInv'
  BY <1>1, <1>4 DEF SysInv, ReqInv, MorePuts, userVars, adtrVars
<1>8. AcceptInv' /\ EpochBound' /\ CountInv' /\ PutInv'
  <2>1. \A s \in Thread : req[s].op = "put" \/ req'[s].op = "put" =>
                UNCHANGED <<req[s], pc[s], resp[s]>>
    BY <1>4, <1>5
  <2>2. UNCHANGED cli
    BY <1>1 DEF userVars
  <2> QED
    BY <1>4, <2>1, <2>2, PutFrame
<1> QED
  BY <1>1, <1>2, <1>4, <1>5, <1>6, <1>7, <1>8

\* The entries of a signed digest are those of the map, stamped no later.
LEMMA DigestEntries ==
    ASSUME IInv, NEW epoch \in 0..(NumEpochs - 1), NEW entry \in epochHist[epoch + 1].dig
    PROVE  /\ entry[1] \in DOMAIN keyMap /\ entry = <<entry[1], keyMap[entry[1]]>>
           /\ keyMap[entry[1]].epoch \in 0..epoch
<1>1. NumEpochs \in Nat \ {0}
  BY DEF IInv, Types, NumEpochs
<1>2. /\ epochHist[epoch + 1].dig = UpdatesThrough(epoch)
      /\ epochHist[NumEpochs - 1 + 1].dig = UpdatesThrough(NumEpochs - 1)
      /\ \A e \in 0..(NumEpochs - 1) :
            \A l \in DOMAIN epochHist[e + 1].updates : epochHist[e + 1].updates[l].epoch = e
  <2>1. NumEpochs - 1 \in 0..(NumEpochs - 1)
    BY <1>1
  <2>2. \A e \in 0..(NumEpochs - 1) :
            /\ epochHist[e + 1].dig = UpdatesThrough(e)
            /\ \A l \in DOMAIN epochHist[e + 1].updates : epochHist[e + 1].updates[l].epoch = e
    BY DEF IInv, HistReplays
  <2> QED
    BY <2>1, <2>2
<1>3. PICK i \in 1..(epoch + 1) : entry \in Digest(epochHist[i].updates)
  BY <1>2 DEF UpdatesThrough
<1>4. PICK l \in DOMAIN epochHist[i].updates : entry = <<l, epochHist[i].updates[l]>>
  BY <1>3 DEF Digest
<1>5. i - 1 \in 0..(NumEpochs - 1) /\ i - 1 \in 0..epoch /\ i - 1 + 1 = i
      /\ i \in 1..(NumEpochs - 1 + 1) /\ NumEpochs - 1 + 1 = NumEpochs
  BY <1>1
<1>6. epochHist[i].updates[l].epoch = i - 1
  BY <1>2, <1>4, <1>5
<1>7. entry \in epochHist[NumEpochs].dig
  BY <1>2, <1>3, <1>5 DEF UpdatesThrough
<1>8. entry \in Digest(keyMap)
  BY <1>7 DEF IInv, MapInv
<1>9. PICK k \in DOMAIN keyMap : entry = <<k, keyMap[k]>>
  BY <1>8 DEF Digest
<1>10. k = l /\ keyMap[k] = epochHist[i].updates[l] /\ entry[1] = k
  BY <1>4, <1>9
<1> QED
  BY <1>5, <1>6, <1>9, <1>10

\* A reader sees a map whose entries are all in signed epochs.
LEMMA Stamps ==
    ASSUME IInv, wpc # "apply", NEW l \in DOMAIN keyMap
    PROVE  keyMap[l].epoch \in 0..(NumEpochs - 1)
<1>1. NumEpochs \in Nat \ {0}
  BY DEF IInv, Types, NumEpochs
<1>2. Digest(keyMap) = epochHist[NumEpochs].dig
  BY EmptyMapFacts DEF IInv, MapInv
<1>3. <<l, keyMap[l]>> \in Digest(keyMap)
  BY DEF Digest
<1>4. NumEpochs - 1 \in 0..(NumEpochs - 1) /\ NumEpochs - 1 + 1 = NumEpochs
  BY <1>1
<1>5. <<l, keyMap[l]>> \in epochHist[NumEpochs - 1 + 1].dig
  BY <1>2, <1>3, <1>4
<1>6. keyMap[<<l, keyMap[l]>>[1]].epoch \in 0..(NumEpochs - 1)
  BY <1>4, <1>5, DigestEntries
<1> QED
  BY <1>6

\* The latest epoch's digest.
LEMMA LatestDig ==
    ASSUME IInv
    PROVE  /\ NumEpochs - 1 \in 0..(NumEpochs - 1)
           /\ GetDig(epochHist) = DigAt(NumEpochs - 1) /\ GetDig(epochHist).epoch = NumEpochs - 1
<1>1. NumEpochs \in Nat \ {0}
  BY DEF IInv, Types, NumEpochs
<1>2. NumEpochs - 1 + 1 = NumEpochs /\ NumEpochs - 1 \in 0..(NumEpochs - 1)
  BY <1>1
<1> QED
  BY <1>2 DEF GetDig, DigAt, NumEpochs

\* The reply of Get tells Alice's key at the epoch of its digest.
LEMMA GetTells ==
    ASSUME IInv, NEW t \in Thread, pc[t] = "read", req[t].op # "audit", req[t].uid = Alice
    PROVE  KeyAt(NumEpochs - 1, local[t].numVers > 0,
                 GetLatest(Alice, local[t].numVers, local[t].plainPk).pkOpen.val)
<1>1. /\ wpc # "apply" /\ Alice \in Uid
      /\ local[t] = userInfo[Alice]
      /\ userInfo[Alice].numVers \in Nat
      /\ HistInMap(Alice, userInfo[Alice].numVers)
  BY Reading, Threads
<1>2. VersionsInMap /\ keyMap \in KeyMapSet
  BY DEF IInv, Types
<1>3. \A l \in DOMAIN keyMap : l.ver \in Nat
  BY <1>2, KeyMapType DEF MapLabel
<1> DEFINE n == userInfo[Alice].numVers
           label == CompMapLabel(Alice, n - 1)
<1>4. CASE n > 0
  <2>1. n - 1 \in 0..(n - 1)
    BY <1>1, <1>4
  <2>2. label \in DOMAIN keyMap
    BY <1>1, <2>1 DEF HistInMap
  <2>3. keyMap[label].epoch <= NumEpochs - 1
    <3>1. keyMap[label].epoch \in 0..(NumEpochs - 1) /\ NumEpochs \in Nat
      BY <1>1, <2>2, Stamps DEF IInv, Types, NumEpochs
    <3> QED
      BY <3>1
  <2>4. keyMap[label].commit.val = userInfo[Alice].plainPk
    BY <1>1, <1>2, <1>4 DEF VersionsInMap
  <2>5. GetLatest(Alice, n, userInfo[Alice].plainPk).pkOpen.val = userInfo[Alice].plainPk
    <3>1. n # 0
      BY <1>4
    <3> QED
      BY <3>1 DEF GetLatest, Memb, CompCommitOpen
  <2>6. label.uid = Alice /\ label.ver = n - 1
    BY DEF CompMapLabel
  <2>7. \A k \in DOMAIN keyMap : k.uid = Alice => k.ver <= label.ver
    <3>1. \A k \in DOMAIN keyMap : k.uid = Alice => k.ver < n
      BY <1>1, <1>2 DEF VersionsInMap
    <3>2. n \in Nat
      BY <1>1
    <3> HIDE DEF n, label
    <3> QED
      BY <1>3, <2>6, <3>1, <3>2
  <2>8. local[t].numVers > 0
    BY <1>1, <1>4
  <2>9. local[t].numVers = n /\ local[t].plainPk = userInfo[Alice].plainPk
    BY <1>1
  <2> HIDE DEF n, label
  <2> QED
    BY <2>2, <2>3, <2>4, <2>5, <2>6, <2>7, <2>8, <2>9 DEF KeyAt
<1>5. CASE ~(n > 0)
  <2>1. n = 0
    BY <1>1, <1>5
  <2>2. \A k \in DOMAIN keyMap : k.uid = Alice => k.ver < 0
    BY <1>1, <1>2, <2>1 DEF VersionsInMap
  <2>3. \A k \in DOMAIN keyMap : k.uid # Alice
    BY <1>3, <2>2
  <2>4. ~(local[t].numVers > 0)
    BY <1>1, <1>5
  <2> QED
    BY <2>3, <2>4 DEF KeyAt
<1> QED
  BY <1>4, <1>5

\* What a reader is told is right and recent.
LEMMA HandleStep ==
    ASSUME SysInv, NEW t \in Thread, ServerStep(Handle(t))
    PROVE  ReadInv' /\ AuditInv'
<1>1. /\ UNCHANGED <<servVars, workQ, workerVars, req>>
      /\ UNCHANGED <<userVars, main, adtrVars, failed>>
      /\ IInv /\ [Next]_vars
      /\ pc[t] \in {"rlock", "read"} /\ pc'[t] \in {"read", "ret"}
      /\ req[t].op \in {"get", "selfmon", "audit"}
      /\ \A s \in Thread : s # t => UNCHANGED <<pc[s], resp[s], local[s]>>
  BY HandleFrame
<1>2. UNCHANGED <<epochHist, keyMap, cli, got, req>>
  BY <1>1 DEF servVars, userVars
<1>3. /\ resp = [s \in Thread |-> resp[s]]
      /\ local \in [Thread -> [numVers : Nat, plainPk : Pk \cup {NoPk}]]
      /\ pc \in [Thread -> {"idle", "do", "rlock", "read", "ret"}]
  BY <1>1 DEF IInv, Types, TypeOK
<1>4. NumEpochs \in Nat \ {0}
  BY <1>1, Grows
<1>5. ASSUME t \in Uid, ReadAnswered(t)'
      PROVE  ReadInv'
  <2> SUFFICES ASSUME NEW u \in Uid, u # t, req[u].op \in {"get", "selfmon"},
                      pc'[u] \in {"read", "ret"}
               PROVE  ReadAnswered(u)'
    BY <1>2, <1>5 DEF ReadInv
  <2>1. UNCHANGED <<pc[u], resp[u], local[u]>>
    BY <1>1, Threads
  <2>2. ReadAnswered(u)
    BY <2>1 DEF SysInv, ReadInv
  <2> QED
    BY <1>1, <1>2, <2>1, <2>2, ReaderKept
<1>6. ASSUME t \in Uid
      PROVE  AuditInv'
  <2>1. UNCHANGED <<pc[Pusher], resp[Pusher]>>
    BY <1>1, <1>6, Threads
  <2> QED
    BY <1>2, <2>1 DEF SysInv, AuditInv, NumEpochs
<1>7. CASE ReadUser(t)
  <2>1. /\ req[t].op \in {"get", "selfmon"} /\ pc'[t] = "read"
        /\ local'[t] = userInfo[req[t].uid]
        /\ resp'[t] = [err |-> FALSE, dig |-> GetDig(epochHist)]
    BY <1>3, <1>7 DEF ReadUser, Goto
  <2>2. t \in Uid
    BY <2>1, Threads DEF SysInv, ReqInv
  <2>3. cli[t].nextEpoch \in 0..NumEpochs
    BY <2>2 DEF SysInv, ClientInv
  <2>4. req[t].op = "selfmon" =>
            local'[t].numVers = cli[t].nextVer /\ NumEpochs - 1 >= got.epoch
    <3> SUFFICES ASSUME req[t].op = "selfmon"
                 PROVE  local'[t].numVers = cli[t].nextVer /\ NumEpochs - 1 >= got.epoch
      OBVIOUS
    <3>1. t = Alice /\ req[t].uid = Alice /\ main = "selfmon"
      BY DEF SysInv, ReqInv
    <3>2. userInfo[Alice].numVers = cli[Alice].nextVer
      BY <3>1, Threads DEF SysInv, CountInv, InMap
    <3>3. got.epoch \in 0..(NumEpochs - 1)
      BY <3>1 DEF SysInv, MainInv, GotInv
    <3> QED
      BY <1>4, <2>1, <3>1, <3>2, <3>3
  <2>5. /\ ~resp'[t].err /\ resp'[t].dig = DigAt(NumEpochs - 1)
        /\ resp'[t].dig.epoch = NumEpochs - 1 /\ NumEpochs - 1 \in 0..(NumEpochs - 1)
        /\ resp'[t].dig.epoch + 1 >= cli[t].nextEpoch
    BY <1>1, <1>4, <2>1, <2>3, LatestDig
  <2>6. ReadAnswered(t)'
    BY <1>2, <2>1, <2>4, <2>5 DEF ReadAnswered, DigAt, NumEpochs
  <2> QED
    BY <1>5, <1>6, <2>2, <2>6
<1>8. CASE Get(t)
  <2>1. pc[t] = "read" /\ req[t].op = "get"
    BY <1>8 DEF Get
  <2>2. /\ HistInMap(req[t].uid, local[t].numVers) /\ BoundNotInMap(req[t].uid, local[t].numVers)
        /\ resp[t].dig = GetDig(epochHist)
    BY <1>1, <2>1, Reading
  <2>3. t = Bob /\ t \in Uid /\ req[t].uid = Alice
    BY <2>1, Threads DEF SysInv, ReqInv
  <2>4. /\ ~resp'[t].err
        /\ resp'[t].dig = resp[t].dig
        /\ resp'[t].isReg = (local[t].numVers > 0)
        /\ resp'[t].latest = GetLatest(Alice, local[t].numVers, local[t].plainPk)
    BY <1>3, <1>8, <2>2, <2>3 DEF Get
  <2>5. ReadAnswered(t)
    BY <2>1, <2>3 DEF SysInv, ReadInv
  <2>6. KeyAt(NumEpochs - 1, local[t].numVers > 0,
              GetLatest(Alice, local[t].numVers, local[t].plainPk).pkOpen.val)
    BY <1>1, <2>1, <2>3, GetTells
  <2>7. PICK isReg, pk : isReg = (local[t].numVers > 0)
            /\ pk = GetLatest(Alice, local[t].numVers, local[t].plainPk).pkOpen.val
    OBVIOUS
  <2>8. KeyAt(NumEpochs - 1, isReg, pk)
    BY <2>6, <2>7
  <2>9. isReg \in BOOLEAN
    BY <2>7
  <2>10. /\ resp'[t].dig.epoch = NumEpochs - 1
         /\ resp'[t].isReg = isReg /\ resp'[t].latest.pkOpen.val = pk
    BY <1>1, <2>2, <2>4, <2>7, LatestDig
  <2>11. KeyAt(resp[t].dig.epoch, resp[t].isReg, resp[t].latest.pkOpen.val)'
    BY <1>2, <2>8, <2>10 DEF KeyAt, NumEpochs
  <2>12. ReadAnswered(t)'
    <3>1. /\ ~resp[t].err
          /\ resp[t].dig.epoch \in 0..(NumEpochs - 1)
          /\ resp[t].dig = DigAt(resp[t].dig.epoch)
          /\ resp[t].dig.epoch + 1 >= cli[t].nextEpoch
      BY <2>5 DEF ReadAnswered
    <3> QED
      BY <1>2, <2>1, <2>4, <2>9, <2>10, <2>11, <3>1 DEF ReadAnswered, DigAt, NumEpochs
  <2> QED
    BY <1>5, <1>6, <2>3, <2>12
<1>9. CASE SelfMon(t)
  <2>1. pc[t] = "read" /\ req[t].op = "selfmon" /\ UNCHANGED local
    BY <1>9 DEF SelfMon
  <2>2. BoundNotInMap(req[t].uid, local[t].numVers)
    BY <1>1, <2>1, Reading
  <2>3. t \in Uid
    BY <2>1, Threads DEF SysInv, ReqInv
  <2>4. ~resp'[t].err /\ resp'[t].dig = resp[t].dig
    BY <1>3, <1>9, <2>2 DEF SelfMon
  <2>5. ReadAnswered(t)
    BY <2>1, <2>3 DEF SysInv, ReadInv
  <2>6. ReadAnswered(t)'
    BY <1>2, <2>1, <2>4, <2>5 DEF ReadAnswered, DigAt, NumEpochs
  <2> QED
    BY <1>5, <1>6, <2>3, <2>6
<1>10. CASE Audit(t)
  <2>1. /\ req[t].op = "audit" /\ pc'[t] = "ret"
        /\ resp'[t] = IF req[t].epoch >= NumEpochs
                      THEN ErrResp
                      ELSE [err |-> FALSE, updates |-> epochHist[req[t].epoch + 1].updates,
                            sig |-> epochHist[req[t].epoch + 1].sig]
    <3>1. /\ req[t].op = "audit" /\ pc' = [pc EXCEPT ![t] = "ret"]
          /\ resp' = [resp EXCEPT ![t] = AuditReply(req[t].epoch)]
      BY <1>1, <1>10, AuditDoes
    <3> QED
      BY <1>3, <3>1 DEF AuditReply
  <2>2. t = Pusher
    BY <2>1 DEF SysInv, ReqInv
  <2>3. req[t].epoch \in Nat
    BY <2>1, CallTypes
  <2>4. ReadInv'
    <3> SUFFICES ASSUME NEW u \in Uid, req[u].op \in {"get", "selfmon"},
                        pc'[u] \in {"read", "ret"}
                 PROVE  ReadAnswered(u)'
      BY <1>2 DEF ReadInv
    <3>1. UNCHANGED <<pc[u], resp[u], local[u]>>
      BY <1>1, <2>2, Threads
    <3>2. ReadAnswered(u)
      BY <3>1 DEF SysInv, ReadInv
    <3> QED
      BY <1>1, <1>2, <3>1, <3>2, ReaderKept
  <2>5. CASE req[t].epoch >= NumEpochs
    BY <2>1, <2>2, <2>4, <2>5 DEF AuditInv, ErrResp
  <2>6. CASE ~(req[t].epoch >= NumEpochs)
    <3>1. req[t].epoch < NumEpochs
      BY <1>4, <2>3, <2>6
    <3>2. /\ resp'[t].updates = epochHist[req[t].epoch + 1].updates
          /\ resp'[t].sig = epochHist[req[t].epoch + 1].sig
      BY <2>1, <2>6
    <3>3. AuditInv'
      BY <1>2, <2>2, <3>1, <3>2 DEF AuditInv, NumEpochs
    <3> QED
      BY <2>4, <3>3
  <2> QED
    BY <2>5, <2>6
<1>11. CASE AuditLock(t)
  <2>1. /\ req[t].op = "audit" /\ pc'[t] = "read"
    BY <1>3, <1>11 DEF AuditLock, Goto
  <2>2. t = Pusher
    BY <2>1 DEF SysInv, ReqInv
  <2>3. ReadInv'
    <3> SUFFICES ASSUME NEW u \in Uid, req[u].op \in {"get", "selfmon"},
                        pc'[u] \in {"read", "ret"}
                 PROVE  ReadAnswered(u)'
      BY <1>2 DEF ReadInv
    <3>1. UNCHANGED <<pc[u], resp[u], local[u]>>
      BY <1>1, <2>2, Threads
    <3>2. ReadAnswered(u)
      BY <3>1 DEF SysInv, ReadInv
    <3> QED
      BY <1>1, <1>2, <3>1, <3>2, ReaderKept
  <2>4. AuditInv'
    BY <2>1, <2>2 DEF AuditInv
  <2> QED
    BY <2>3, <2>4
<1> QED
  BY <1>7, <1>8, <1>9, <1>10, <1>11 DEF ServerStep, Handle

-----------------------------------------------------------------------------
(* What a client makes of a reply. *)

\* The epochs that are signed are far from the largest uint64.
LEMMA SignedFit ==
    ASSUME SysInv, NEW epoch \in 0..(NumEpochs - 1)
    PROVE  /\ epoch \in Nat /\ epoch + 1 \in 0..NumEpochs
           /\ epoch + 1 <= MaxUint
           /\ (epoch + 1) % (MaxUint + 1) = epoch + 1
<1>1. NumEpochs \in Nat \ {0} /\ NumEpochs <= MaxEpochs + 1
  BY DEF SysInv, IInv, Types, NumEpochs, EpochBound
<1>2. epoch \in Nat /\ epoch + 1 \in 0..NumEpochs /\ epoch + 1 <= MaxUint
  BY <1>1, EpochsFitAssumption, MaxUintAssumption, MaxEpochsAssumption
<1>3. \A n, m \in Nat : n <= m => n % (m + 1) = n
  OBVIOUS
<1>4. epoch + 1 \in Nat /\ MaxUint \in Nat
  BY <1>2, MaxUintAssumption
<1>5. (epoch + 1) % (MaxUint + 1) = epoch + 1
  BY <1>2, <1>3, <1>4
<1> QED
  BY <1>2, <1>5

\* A client accepts the digests that the server signed.
LEMMA DigAccepted ==
    ASSUME SysInv, NEW u \in Uid, NEW dig, dig.epoch \in 0..(NumEpochs - 1),
           dig = DigAt(dig.epoch)
    PROVE  ~CheckDig(cli[u], dig).err
<1>1. CheckSigDig(dig, ServKey)
  BY DEF SysInv, IInv, HistReplays, DigAt
<1>2. SumNoOverflow(dig.epoch, 1)
  BY SignedFit DEF SumNoOverflow
<1>3. dig.epoch \in DOMAIN cli[u].seenDigs => cli[u].seenDigs[dig.epoch].dig = dig.dig
  BY DEF SysInv, ClientInv
<1> QED
  BY <1>1, <1>2, <1>3 DEF CheckDig, NoErr

\* What a client remembers once it has accepted one.
LEMMA SeeFacts ==
    ASSUME SysInv, NEW u \in Uid, NEW dig, dig.epoch \in 0..(NumEpochs - 1),
           dig = DigAt(dig.epoch),
           NEW c, c = See(cli[u], dig)
    PROVE  /\ c = [uid |-> u, nextVer |-> cli[u].nextVer,
                   seenDigs |-> c.seenDigs, nextEpoch |-> dig.epoch + 1]
           /\ \A epoch \in DOMAIN c.seenDigs :
                epoch \in 0..(NumEpochs - 1) /\ c.seenDigs[epoch] = DigAt(epoch)
<1> DEFINE seen == MapPut(cli[u].seenDigs, dig.epoch, dig)
           ver == cli[u].nextVer
           next == (dig.epoch + 1) % (MaxUint + 1)
<1>1. cli[u] = [uid |-> u, nextVer |-> ver,
                seenDigs |-> cli[u].seenDigs, nextEpoch |-> cli[u].nextEpoch]
  BY DEF SysInv, ClientInv
<1>2. next = dig.epoch + 1
  BY SignedFit
<1>3. c = [[cli[u] EXCEPT !.seenDigs = seen] EXCEPT !.nextEpoch = next]
  BY DEF See
<1>4. \A epoch \in DOMAIN seen :
          epoch \in 0..(NumEpochs - 1) /\ seen[epoch] = DigAt(epoch)
  BY DEF MapPut, SysInv, ClientInv
<1> HIDE DEF seen, ver, next
<1>5. c = [uid |-> u, nextVer |-> ver, seenDigs |-> seen, nextEpoch |-> next]
  <2>1. PICK s, e : cli[u] = [uid |-> u, nextVer |-> ver, seenDigs |-> s, nextEpoch |-> e]
    BY <1>1
  <2>2. [cli[u] EXCEPT !.seenDigs = seen] =
            [uid |-> u, nextVer |-> ver, seenDigs |-> seen, nextEpoch |-> e]
    BY <2>1
  <2>3. [[uid |-> u, nextVer |-> ver, seenDigs |-> seen, nextEpoch |-> e]
            EXCEPT !.nextEpoch = next] =
            [uid |-> u, nextVer |-> ver, seenDigs |-> seen, nextEpoch |-> next]
    OBVIOUS
  <2> QED
    BY <1>3, <2>2, <2>3
<1>6. c.seenDigs = seen
  BY <1>5
<1> QED
  BY <1>2, <1>4, <1>5, <1>6 DEF ver

\* A client that has accepted a digest.
LEMMA ClientUpdated ==
    ASSUME SysInv, NEW u \in Uid, NEW dig, dig.epoch \in 0..(NumEpochs - 1),
           dig = DigAt(dig.epoch),
           NEW c, c = [uid |-> u, nextVer |-> c.nextVer,
                       seenDigs |-> c.seenDigs, nextEpoch |-> dig.epoch + 1],
           c.nextVer \in Nat,
           \A epoch \in DOMAIN c.seenDigs :
                epoch \in 0..(NumEpochs - 1) /\ c.seenDigs[epoch] = DigAt(epoch),
           UNCHANGED epochHist, cli' = [cli EXCEPT ![u] = c]
    PROVE  /\ ClientInv'
           /\ cli'[u] = c /\ c.nextEpoch = dig.epoch + 1
           /\ \A s \in Uid : s # u => cli'[s] = cli[s]
<1>1. cli = [s \in Uid |-> cli[s]]
  BY DEF SysInv, ClientInv
<1>2. cli'[u] = c /\ \A s \in Uid : s # u => cli'[s] = cli[s]
  BY <1>1
<1>3. c.nextEpoch = dig.epoch + 1
  OBVIOUS
<1>4. dig.epoch + 1 \in 0..NumEpochs
  BY SignedFit
<1>5. ASSUME NEW s \in Uid
      PROVE  (/\ cli[s] = [uid |-> s, nextVer |-> cli[s].nextVer,
                           seenDigs |-> cli[s].seenDigs, nextEpoch |-> cli[s].nextEpoch]
              /\ cli[s].nextVer \in Nat
              /\ cli[s].nextEpoch \in 0..NumEpochs
              /\ \A epoch \in DOMAIN cli[s].seenDigs :
                    epoch \in 0..(NumEpochs - 1) /\ cli[s].seenDigs[epoch] = DigAt(epoch))'
  <2>1. CASE s = u
    BY <1>2, <1>3, <1>4, <2>1 DEF NumEpochs, DigAt
  <2>2. CASE s # u
    BY <1>2, <2>2 DEF SysInv, ClientInv, NumEpochs, DigAt
  <2> QED
    BY <2>1, <2>2
<1>6. cli' = [s \in Uid |-> cli'[s]]
  BY <1>1, <1>2
<1> QED
  BY <1>2, <1>3, <1>5, <1>6 DEF ClientInv

\* The checks of Put succeed, and the version that it has put is in the map.
LEMMA PutAccepted ==
    ASSUME SysInv, NEW u \in Uid, req[u].op = "put", pc[u] = "ret"
    PROVE  /\ ~PutErr(cli[u], req[u].pk, resp[u]).err
           /\ resp[u].dig.epoch \in 0..(NumEpochs - 1)
           /\ resp[u].dig.epoch \in cli[u].nextEpoch..(NumEpochs - 1)
           /\ resp[u].dig = DigAt(resp[u].dig.epoch)
           /\ CompMapLabel(u, cli[u].nextVer) \in DOMAIN keyMap
           /\ keyMap[CompMapLabel(u, cli[u].nextVer)].epoch = resp[u].dig.epoch
           /\ keyMap[CompMapLabel(u, cli[u].nextVer)].commit.val = req[u].pk
<1> DEFINE r == resp[u]
           c == cli[u]
           label == CompMapLabel(u, c.nextVer)
<1>1. u \in Thread /\ req[u].uid = u /\ IInv
  BY Threads DEF SysInv, ReqInv
<1>2. ~r.err
  BY <1>1 DEF SysInv, AcceptInv
<1>3. /\ r.dig.epoch \in c.nextEpoch..(NumEpochs - 1)
      /\ r.dig = DigAt(r.dig.epoch)
      /\ r.latest.labelProof.ver = c.nextVer
  BY DEF SysInv, PutInv, PutAnswered
<1>4. NumEpochs \in Nat /\ c.nextEpoch \in 0..NumEpochs /\ c.uid = u /\ c.nextVer \in Nat
  <2>1. c.uid = u
    <3>1. PICK ver, seen, next :
            c = [uid |-> u, nextVer |-> ver, seenDigs |-> seen, nextEpoch |-> next]
      BY DEF SysInv, ClientInv
    <3> HIDE DEF c
    <3> QED
      BY <3>1
  <2> QED
    BY <2>1 DEF SysInv, IInv, Types, NumEpochs, ClientInv
<1>5. r.dig.epoch \in 0..(NumEpochs - 1) /\ r.dig.epoch >= c.nextEpoch
  BY <1>3, <1>4
<1>6. PutVerifies(req[u], r)
  BY <1>1, <1>2 DEF IInv, RepliesVerify, ReplyVerifies
<1>7. /\ CheckMemb(u, c.nextVer, r.dig.dig, r.latest)
      /\ r.latest.epochAdded = r.dig.epoch
      /\ r.latest.pkOpen.val = req[u].pk
      /\ CheckNonMemb(u, c.nextVer + 1, r.dig.dig, r.bound)
  BY <1>1, <1>3, <1>6 DEF PutVerifies
<1>8. ~CheckDig(c, r.dig).err
  BY <1>3, <1>5, DigAccepted
<1>9. ~PutErr(c, req[u].pk, r).err
  <2> HIDE DEF c, r
  <2> QED
    BY <1>2, <1>4, <1>5, <1>7, <1>8 DEF PutErr, Verdict, NoErr
<1>10. PICK epoch \in 0..(NumEpochs - 1) : epoch = r.dig.epoch
  BY <1>5
<1>11. <<label, CompMapVal(epoch, r.latest.pkOpen)>> \in epochHist[epoch + 1].dig
  <2>1. <<label, CompMapVal(r.latest.epochAdded, r.latest.pkOpen)>> \in r.dig.dig
    BY <1>7 DEF CheckMemb, MerkleVerify
  <2>2. r.dig.dig = epochHist[epoch + 1].dig
    BY <1>3, <1>10 DEF DigAt
  <2> QED
    BY <1>7, <1>10, <2>1, <2>2
<1>12. label \in DOMAIN keyMap /\ keyMap[label] = CompMapVal(epoch, r.latest.pkOpen)
  <2> DEFINE entry == <<label, CompMapVal(epoch, r.latest.pkOpen)>>
  <2>1. entry[1] = label /\ entry[2] = CompMapVal(epoch, r.latest.pkOpen)
    OBVIOUS
  <2> HIDE DEF label
  <2>2. entry[1] \in DOMAIN keyMap /\ entry = <<entry[1], keyMap[entry[1]]>>
    BY <1>1, <1>11, DigestEntries
  <2> QED
    BY <2>1, <2>2
<1>13. keyMap[label].epoch = epoch /\ keyMap[label].commit.val = req[u].pk
  BY <1>7, <1>12 DEF CompMapVal
<1> QED
  BY <1>3, <1>5, <1>9, <1>10, <1>12, <1>13

\* The checks of Get succeed.
LEMMA GetAccepted ==
    ASSUME SysInv, NEW u \in Uid, req[u].op = "get", pc[u] = "ret"
    PROVE  /\ ReadAnswered(u)
           /\ ~GetErr(cli[u], Alice, resp[u]).err
<1> DEFINE r == resp[u]
           c == cli[u]
<1>1. u \in Thread /\ req[u].uid = Alice /\ IInv
  BY Threads DEF SysInv, ReqInv
<1>2. ReadAnswered(u)
  BY DEF SysInv, ReadInv
<1>3. /\ ~r.err /\ r.dig.epoch \in 0..(NumEpochs - 1) /\ r.dig = DigAt(r.dig.epoch)
      /\ r.dig.epoch + 1 >= c.nextEpoch
  BY <1>2 DEF ReadAnswered
<1>4. GetVerifies(req[u], r)
  BY <1>1, <1>3 DEF IInv, RepliesVerify, ReplyVerifies
<1>5. ~CheckDig(c, r.dig).err
  BY <1>3, DigAccepted
<1>6. ~GetErr(c, Alice, r).err
  <2> HIDE DEF c, r
  <2> QED
    BY <1>1, <1>3, <1>4, <1>5 DEF GetErr, GetVerifies, Verdict, NoErr
<1> QED
  BY <1>2, <1>6

\* The checks of SelfMon succeed.
LEMMA SelfMonAccepted ==
    ASSUME SysInv, NEW u \in Uid, req[u].op = "selfmon", pc[u] = "ret"
    PROVE  /\ ReadAnswered(u)
           /\ ~SelfMonErr(cli[u], resp[u]).err
<1> DEFINE r == resp[u]
           c == cli[u]
<1>1. u \in Thread /\ req[u].uid = Alice /\ u = Alice /\ IInv
  BY Threads DEF SysInv, ReqInv
<1>2. ReadAnswered(u)
  BY DEF SysInv, ReadInv
<1>3. /\ ~r.err /\ r.dig.epoch \in 0..(NumEpochs - 1) /\ r.dig = DigAt(r.dig.epoch)
      /\ r.dig.epoch + 1 >= c.nextEpoch
      /\ local[u].numVers = c.nextVer
  BY <1>2 DEF ReadAnswered
<1>4. SelfMonVerifies(req[u], c.nextVer, r)
  BY <1>1, <1>3 DEF IInv, RepliesVerify, ReplyVerifies
<1>5. ~CheckDig(c, r.dig).err
  BY <1>3, DigAccepted
<1>6. c.uid = u
  <2>1. PICK ver, seen, next :
          c = [uid |-> u, nextVer |-> ver, seenDigs |-> seen, nextEpoch |-> next]
    BY DEF SysInv, ClientInv
  <2> HIDE DEF c
  <2> QED
    BY <2>1
<1>7. ~SelfMonErr(c, r).err
  <2> HIDE DEF c, r
  <2> QED
    BY <1>1, <1>3, <1>4, <1>5, <1>6 DEF SelfMonErr, SelfMonVerifies, Verdict, NoErr
<1> QED
  BY <1>2, <1>7

-----------------------------------------------------------------------------
(* Calls. *)

\* The start of a read concerns the caller alone.
LEMMA CallFrame ==
    ASSUME SysInv, NEW t \in Thread, CallRead(t), req'[t].op # "put", UNCHANGED <<cli, got>>
    PROVE  /\ req[t].op = "none" /\ pc[t] = "idle"
           /\ pc'[t] = "rlock" /\ req'[t].op # "none"
           /\ \A s \in Thread : s # t => UNCHANGED <<pc[s], req[s]>>
           /\ UNCHANGED <<servVars, local, resp>>
           /\ AcceptInv' /\ EpochBound' /\ CountInv' /\ PutInv' /\ ReadInv' /\ AuditInv'
<1>1. /\ IInv /\ [Next]_vars
      /\ pc[t] = "idle" /\ pc' = [pc EXCEPT ![t] = "rlock"]
      /\ UNCHANGED <<servVars, workQ, workerVars, local, resp>>
  BY DEF SysInv, Next, CallRead, Goto
<1>2. /\ pc \in [Thread -> {"idle", "do", "rlock", "read", "ret"}]
      /\ req \in [Thread -> Requests \cup {NoReq}]
  BY <1>1 DEF IInv, Types, TypeOK
<1>3. PICK q \in Requests : req' = [req EXCEPT ![t] = q]
  BY DEF CallRead
<1>4. pc'[t] = "rlock" /\ req'[t] = q /\ \A s \in Thread : s # t => UNCHANGED <<pc[s], req[s]>>
  BY <1>1, <1>2, <1>3
<1>5. q.op # "none"
  BY DEF Requests
<1>6. req[t].op = "none"
  BY <1>1 DEF SysInv, ReqInv
<1>7. AcceptInv' /\ EpochBound' /\ CountInv' /\ PutInv'
  BY <1>1, <1>4, <1>6, PutFrame
<1>8. ReadInv'
  <2> SUFFICES ASSUME NEW u \in Uid, req'[u].op \in {"get", "selfmon"}, pc'[u] \in {"read", "ret"}
               PROVE  ReadAnswered(u)'
    BY DEF ReadInv
  <2>1. u # t /\ u \in Thread
    BY <1>4, Threads
  <2>2. UNCHANGED <<cli[u], got, req[u], pc[u], resp[u], local[u]>>
    BY <1>1, <1>4, <2>1
  <2>3. ReadAnswered(u)
    BY <2>2 DEF SysInv, ReadInv
  <2> QED
    BY <1>1, <2>2, <2>3, ReaderKept
<1>9. AuditInv'
  <2>1. pc'[Pusher] = "ret" => pc[Pusher] = "ret" /\ req'[Pusher] = req[Pusher]
    BY <1>4, Threads
  <2> QED
    BY <1>1, <2>1 DEF SysInv, AuditInv, NumEpochs, servVars
<1> QED
  BY <1>1, <1>4, <1>5, <1>6, <1>7, <1>8, <1>9

\* So does the end of a call.
LEMMA ReturnFrame ==
    ASSUME SysInv, NEW t \in Thread, Return(t)
    PROVE  /\ IInv /\ [Next]_vars
           /\ pc[t] = "ret" /\ pc'[t] = "idle" /\ req'[t] = NoReq /\ req'[t].op = "none"
           /\ \A s \in Thread : s # t => UNCHANGED <<pc[s], req[s], resp[s], local[s]>>
           /\ UNCHANGED <<servVars, workQ, workerVars>>
<1>1. /\ IInv
      /\ pc[t] = "ret" /\ pc' = [pc EXCEPT ![t] = "idle"]
      /\ req' = [req EXCEPT ![t] = NoReq]
      /\ local' = [local EXCEPT ![t] = NoLocal]
      /\ resp' = [resp EXCEPT ![t] = NoResp]
      /\ UNCHANGED <<servVars, workQ, workerVars>>
  BY DEF SysInv, Return, Goto
<1>2. [Next]_vars
  BY DEF Next, Serve
<1>3. /\ pc \in [Thread -> {"idle", "do", "rlock", "read", "ret"}]
      /\ req \in [Thread -> Requests \cup {NoReq}]
      /\ local \in [Thread -> [numVers : Nat, plainPk : Pk \cup {NoPk}]]
      /\ resp = [s \in Thread |-> resp[s]]
  BY <1>1 DEF IInv, Types, TypeOK
<1>4. NoReq.op = "none"
  BY DEF NoReq
<1> QED
  BY <1>1, <1>2, <1>3, <1>4

\* What the end of a read keeps of other calls.
LEMMA ReturnReadFrame ==
    ASSUME SysInv, NEW t \in Thread, Return(t), req[t].op # "put",
           \A u \in Uid : cli'[u].nextVer = cli[u].nextVer,
           \A u \in Uid : u # t => cli'[u] = cli[u]
    PROVE  AcceptInv' /\ EpochBound' /\ CountInv' /\ PutInv'
<1>1. /\ req'[t].op = "none"
      /\ \A s \in Thread : s # t => UNCHANGED <<pc[s], req[s], resp[s], local[s]>>
      /\ UNCHANGED <<servVars, workQ, workerVars>>
  BY ReturnFrame
<1>2. \A s \in Thread : req[s].op = "put" \/ req'[s].op = "put" =>
            UNCHANGED <<req[s], pc[s], resp[s]>>
  BY <1>1
<1>3. \A u \in Uid : req[u].op = "put" => cli'[u] = cli[u]
  OBVIOUS
<1> QED
  BY <1>1, <1>2, <1>3, PutFrame

\* Bob's StartGet asks for Alice's key.
LEMMA StartGetStep ==
    ASSUME SysInv, StartGet, IInv'
    PROVE  SysInv'
<1>1. /\ ~got.done /\ CallRead(Bob)
      /\ req'[Bob] = [op |-> "get", uid |-> Alice]
      /\ UNCHANGED <<userVars, main, adtrVars, failed>>
  BY DEF StartGet
<1>2. Bob \in Thread /\ [Next]_vars /\ UNCHANGED <<cli, got>> /\ req'[Bob].op = "get"
      /\ req'[Bob].uid = Alice
  BY <1>1, Threads DEF Next, userVars
<1>3. /\ req[Bob].op = "none" /\ pc[Bob] = "idle" /\ pc'[Bob] = "rlock"
      /\ \A s \in Thread : s # Bob => UNCHANGED <<pc[s], req[s]>>
      /\ AcceptInv' /\ EpochBound' /\ CountInv' /\ PutInv' /\ ReadInv' /\ AuditInv'
  BY <1>1, <1>2, CallFrame
<1>4. ReqInv'
  BY <1>1, <1>2, <1>3 DEF SysInv, ReqInv, MorePuts, userVars, adtrVars
<1>5. /\ ClientInv' /\ HistInv' /\ GotInv' /\ MainInv' /\ SyncInv'
      /\ AuditorsInSync' /\ NothingFails'
  BY <1>1, <1>2, ServerFrame
<1> QED
  BY <1>3, <1>4, <1>5 DEF SysInv

\* StartSelfMon asks for Alice's digest and her next label.
LEMMA StartSelfMonStep ==
    ASSUME SysInv, StartSelfMon, IInv'
    PROVE  SysInv'
<1>1. /\ main = "run" /\ main' = "selfmon" /\ got.done /\ ~MorePuts(Alice) /\ CallRead(Alice)
      /\ req'[Alice] = [op |-> "selfmon", uid |-> Alice]
      /\ UNCHANGED <<userVars, adtrVars, failed>>
  BY DEF StartSelfMon
<1>2. Alice \in Thread /\ UNCHANGED <<cli, got>> /\ req'[Alice].op = "selfmon"
      /\ req'[Alice].uid = Alice
  BY <1>1, Threads DEF userVars
<1>3. /\ req[Alice].op = "none" /\ pc[Alice] = "idle" /\ pc'[Alice] = "rlock"
      /\ \A s \in Thread : s # Alice => UNCHANGED <<pc[s], req[s]>>
      /\ UNCHANGED servVars
      /\ AcceptInv' /\ EpochBound' /\ CountInv' /\ PutInv' /\ ReadInv' /\ AuditInv'
  BY <1>1, <1>2, CallFrame
<1>4. ReqInv'
  BY <1>1, <1>2, <1>3 DEF SysInv, ReqInv, MorePuts, userVars, adtrVars
<1>5. ClientInv' /\ HistInv' /\ GotInv'
  BY <1>1, <1>3 DEF SysInv, ClientInv, HistInv, GotInv, KeyAt, DigAt, NumEpochs, userVars,
     adtrVars, servVars
<1>6. MainInv'
  BY <1>1 DEF SysInv, MainInv, MorePuts, userVars
<1>7. SyncInv' /\ AuditorsInSync' /\ NothingFails'
  BY <1>1, <1>3 DEF SysInv, SyncInv, AuditorsInSync, NothingFails, NumEpochs, adtrVars, servVars
<1> QED
  BY <1>3, <1>4, <1>5, <1>6, <1>7 DEF SysInv

\* FetchUpdate asks for the next update for the auditors.
LEMMA FetchUpdateStep ==
    ASSUME SysInv, FetchUpdate, IInv'
    PROVE  SysInv'
<1>1. /\ main = "sync" /\ sync.upd = NoUpd /\ CallRead(Pusher)
      /\ req'[Pusher] = [op |-> "audit", epoch |-> sync.epoch]
      /\ UNCHANGED <<userVars, main, adtrVars, failed>>
  BY DEF FetchUpdate
<1>2. Pusher \in Thread /\ [Next]_vars /\ UNCHANGED <<cli, got>> /\ req'[Pusher].op = "audit"
      /\ req'[Pusher].epoch = sync.epoch
  BY <1>1, Threads DEF Next, userVars
<1>3. /\ req[Pusher].op = "none" /\ pc[Pusher] = "idle" /\ pc'[Pusher] = "rlock"
      /\ \A s \in Thread : s # Pusher => UNCHANGED <<pc[s], req[s]>>
      /\ AcceptInv' /\ EpochBound' /\ CountInv' /\ PutInv' /\ ReadInv' /\ AuditInv'
  BY <1>1, <1>2, CallFrame
<1>4. ReqInv'
  BY <1>1, <1>2, <1>3 DEF SysInv, ReqInv, MorePuts, userVars, adtrVars
<1>5. /\ ClientInv' /\ HistInv' /\ GotInv' /\ MainInv' /\ SyncInv'
      /\ AuditorsInSync' /\ NothingFails'
  BY <1>1, <1>2, ServerFrame
<1> QED
  BY <1>3, <1>4, <1>5 DEF SysInv

\* A user who puts is in the queue, and not in the map yet.
LEMMA StartPutStep ==
    ASSUME SysInv, NEW u \in Putters, StartPut(u), IInv'
    PROVE  SysInv'
<1>1. /\ MorePuts(u) /\ CallPut(u) /\ req'[u].uid = u
      /\ UNCHANGED <<userVars, main, adtrVars, failed>>
      /\ UNCHANGED <<cli, got>>
  BY DEF StartPut, userVars
<1>2. u \in Uid /\ u \in Thread /\ [Next]_vars /\ IInv
  BY <1>1, Threads DEF Putters, Next, SysInv
<1>3. /\ pc[u] = "idle" /\ pc' = [pc EXCEPT ![u] = "do"] /\ NumEpochs < MaxEpochs
      /\ UNCHANGED <<servVars, workerVars, local, resp>>
  BY <1>1 DEF CallPut, Goto
<1>4. /\ pc \in [Thread -> {"idle", "do", "rlock", "read", "ret"}]
      /\ req \in [Thread -> Requests \cup {NoReq}]
      /\ NumEpochs \in Nat
  BY <1>2 DEF IInv, Types, TypeOK, NumEpochs
<1>5. PICK q \in Requests : q.op = "put" /\ req' = [req EXCEPT ![u] = q]
  BY <1>1 DEF CallPut
<1>6. /\ pc'[u] = "do" /\ req'[u].op = "put" /\ req[u].op = "none"
      /\ \A s \in Thread : s # u => UNCHANGED <<pc[s], req[s]>>
  BY <1>2, <1>3, <1>4, <1>5 DEF SysInv, ReqInv
<1>7. \A i \in DOMAIN work : Pending(i) => work[i] # u
  BY <1>3, ServedBatch
<1>8. AcceptInv'
  BY <1>3, <1>6 DEF SysInv, AcceptInv, Pending, workerVars
<1>9. EpochBound'
  BY <1>3, <1>4, MaxEpochsAssumption DEF EpochBound, NumEpochs, servVars
<1>10. CountInv'
  <2>1. \A i \in DOMAIN work : (wpc = "apply" \/ (wpc = "map1" /\ i >= idx)) => Pending(i)
    BY DEF Pending
  <2>2. ~InMap(u) /\ ~InMap(u)'
    BY <1>3, <1>6, <1>7, <2>1 DEF InMap, workerVars
  <2>3. \A s \in Uid : s # u => (InMap(s)' <=> InMap(s))
    BY <1>3, <1>6, Threads DEF InMap, workerVars
  <2>4. ASSUME NEW s \in Uid
        PROVE  InMap(s)' <=> InMap(s)
    BY <2>2, <2>3
  <2> QED
    BY <1>1, <1>3, <2>4 DEF SysInv, CountInv, servVars
<1>11. PutInv'
  <2>1. \A s \in Uid : PutAnswered(s) => PutAnswered(s)'
    BY <1>1, <1>3 DEF PutAnswered, DigAt, NumEpochs, servVars
  <2>2. \A s \in Uid : req'[s].op = "put" /\ pc'[s] = "ret" => PutAnswered(s)'
    BY <1>6, <2>1, Threads DEF SysInv, PutInv
  <2>3. ASSUME wpc = "map1", NEW i \in DOMAIN work, i >= idx
        PROVE  /\ cli[work[i]].nextEpoch < NumEpochs
               /\ work[i] \notin todo => PutAnswered(work[i])'
    <3>1. PICK s \in Uid : s = work[i]
      BY <2>3, ServedBatch DEF Pending
    <3>2. cli[s].nextEpoch < NumEpochs /\ (s \notin todo => PutAnswered(s))
      BY <2>3, <3>1 DEF SysInv, PutInv
    <3>3. s \notin todo => PutAnswered(s)'
      BY <2>1, <3>2
    <3> QED
      BY <1>3, <3>1, <3>2, <3>3 DEF workerVars
  <2> QED
    BY <1>1, <1>3, <2>2, <2>3 DEF PutInv, NumEpochs, servVars, workerVars
<1>12. ReadInv'
  <2> SUFFICES ASSUME NEW s \in Uid, req'[s].op \in {"get", "selfmon"}, pc'[s] \in {"read", "ret"}
               PROVE  ReadAnswered(s)'
    BY DEF ReadInv
  <2>1. s # u /\ s \in Thread
    BY <1>6, Threads
  <2>2. UNCHANGED <<cli[s], got, req[s], pc[s], resp[s], local[s]>>
    BY <1>1, <1>3, <1>6, <2>1
  <2>3. ReadAnswered(s)
    BY <2>2 DEF SysInv, ReadInv
  <2> QED
    BY <1>2, <2>2, <2>3, ReaderKept
<1>13. AuditInv'
  <2>1. UNCHANGED <<pc[Pusher], req[Pusher]>>
    BY <1>2, <1>6, Threads
  <2> QED
    BY <1>3, <2>1 DEF SysInv, AuditInv, NumEpochs, servVars
<1>14. ReqInv'
  BY <1>1, <1>6 DEF SysInv, ReqInv, MorePuts, userVars, adtrVars
<1>15. /\ ClientInv' /\ HistInv' /\ GotInv' /\ MainInv' /\ SyncInv'
       /\ AuditorsInSync' /\ NothingFails'
  BY <1>1, <1>2, ServerFrame
<1> QED
  BY <1>8, <1>9, <1>10, <1>11, <1>12, <1>13, <1>14, <1>15 DEF SysInv

-----------------------------------------------------------------------------
(* Replies. *)

\* extendHist repeats the last entry.
LEMMA ExtendFacts ==
    ASSUME NEW S, NEW h \in Seq(S), NEW n \in Nat, Len(h) <= n, NoEntry \in S
    PROVE  /\ ExtendHist(h, n) \in Seq(S) /\ Len(ExtendHist(h, n)) = n
           /\ \A i \in 1..n : ExtendHist(h, n)[i] =
                IF i <= Len(h) THEN h[i] ELSE IF h = <<>> THEN NoEntry ELSE h[Len(h)]
<1> DEFINE last == IF h = <<>> THEN NoEntry ELSE h[Len(h)]
           more == [i \in 1..(n - Len(h)) |-> last]
<1>1. Len(h) \in Nat /\ n - Len(h) \in Nat
  OBVIOUS
<1>2. last \in S
  OBVIOUS
<1>3. ExtendHist(h, n) = h \o more
  BY DEF ExtendHist
<1> HIDE DEF last
<1>4. more \in Seq(S) /\ Len(more) = n - Len(h) /\ \A i \in 1..(n - Len(h)) : more[i] = last
  BY <1>1, <1>2
<1> HIDE DEF more
<1>5. h \o more \in Seq(S) /\ Len(h \o more) = n
  BY <1>1, <1>4
<1>6. ASSUME NEW i \in 1..n
      PROVE  (h \o more)[i] = IF i <= Len(h) THEN h[i] ELSE last
  <2>1. CASE i <= Len(h)
    BY <1>1, <1>4, <2>1
  <2>2. CASE ~(i <= Len(h))
    <3>1. i - Len(h) \in 1..(n - Len(h))
      BY <1>1, <2>2
    <3>2. (h \o more)[i] = more[i - Len(h)]
      BY <1>1, <1>4, <2>2
    <3> QED
      BY <1>4, <2>2, <3>1, <3>2
  <2> QED
    BY <2>1, <2>2
<1> QED
  BY <1>3, <1>5, <1>6 DEF last

\* The history stays right when it is extended over epochs without a version.
LEMMA HistExtends ==
    ASSUME SysInv, NEW n \in Nat, Len(hist) <= n,
           \A k \in DOMAIN keyMap :
                k.uid = Alice /\ keyMap[k].epoch < n => keyMap[k].epoch < Len(hist)
    PROVE  /\ ExtendHist(hist, n) \in Seq([isReg : BOOLEAN, pk : Pk \cup {NoPk}])
           /\ Len(ExtendHist(hist, n)) = n
           /\ \A i \in 1..n : KeyAt(i - 1, ExtendHist(hist, n)[i].isReg, ExtendHist(hist, n)[i].pk)
<1> DEFINE h == ExtendHist(hist, n)
           last == IF hist = <<>> THEN NoEntry ELSE hist[Len(hist)]
<1>1. /\ hist \in Seq([isReg : BOOLEAN, pk : Pk \cup {NoPk}])
      /\ \A i \in DOMAIN hist : KeyAt(i - 1, hist[i].isReg, hist[i].pk)
  BY DEF SysInv, HistInv
<1>2. NoEntry \in [isReg : BOOLEAN, pk : Pk \cup {NoPk}]
  BY DEF NoEntry
<1>3. /\ h \in Seq([isReg : BOOLEAN, pk : Pk \cup {NoPk}]) /\ Len(h) = n
      /\ \A i \in 1..n : h[i] = IF i <= Len(hist) THEN hist[i] ELSE last
  <2>1. /\ ExtendHist(hist, n) \in Seq([isReg : BOOLEAN, pk : Pk \cup {NoPk}])
        /\ Len(ExtendHist(hist, n)) = n
        /\ \A i \in 1..n : ExtendHist(hist, n)[i] =
                IF i <= Len(hist) THEN hist[i]
                ELSE IF hist = <<>> THEN NoEntry ELSE hist[Len(hist)]
    <3> DEFINE S == [isReg : BOOLEAN, pk : Pk \cup {NoPk}]
    <3>1. hist \in Seq(S) /\ NoEntry \in S
      BY <1>1, <1>2
    <3> HIDE DEF S
    <3>2. /\ ExtendHist(hist, n) \in Seq(S)
          /\ Len(ExtendHist(hist, n)) = n
          /\ \A i \in 1..n : ExtendHist(hist, n)[i] =
                IF i <= Len(hist) THEN hist[i]
                ELSE IF hist = <<>> THEN NoEntry ELSE hist[Len(hist)]
      BY <3>1, ExtendFacts
    <3> QED
      BY <3>2 DEF S
  <2> QED
    BY <2>1
<1>4. Len(hist) \in Nat /\ DOMAIN hist = 1..Len(hist)
  BY <1>1
<1>5. \A k \in DOMAIN keyMap : keyMap[k].epoch \in Nat
  BY KeyMapType DEF SysInv, IInv, Types, MapVal
<1> HIDE DEF h, last
<1>6. ASSUME NEW i \in 1..n
      PROVE  KeyAt(i - 1, h[i].isReg, h[i].pk)
  <2>1. CASE i <= Len(hist)
    <3>1. i \in DOMAIN hist /\ h[i] = hist[i]
      BY <1>3, <1>4, <2>1
    <3> QED
      BY <1>1, <3>1
  <2>2. CASE ~(i <= Len(hist))
    <3>1. h[i] = last
      BY <1>3, <2>2
    <3>2. \A k \in DOMAIN keyMap : k.uid = Alice /\ keyMap[k].epoch <= i - 1 =>
              keyMap[k].epoch < Len(hist)
      <4>1. \A e \in Nat : e <= i - 1 => e < n
        OBVIOUS
      <4> QED
        BY <1>5, <4>1
    <3>3. CASE hist = <<>>
      <4>1. last.isReg = FALSE
        BY <3>3 DEF last, NoEntry
      <4>2. \A e \in Nat : ~(e < Len(hist)) /\ (~(e <= i - 1) => e > i - 1)
        BY <3>3
      <4>3. \A k \in DOMAIN keyMap : k.uid = Alice => keyMap[k].epoch > i - 1
        BY <1>5, <3>2, <4>2
      <4> QED
        BY <3>1, <4>1, <4>3 DEF KeyAt
    <3>4. CASE hist # <<>>
      <4>1. Len(hist) \in DOMAIN hist /\ last = hist[Len(hist)]
        BY <1>1, <3>4 DEF last
      <4>2. KeyAt(Len(hist) - 1, last.isReg, last.pk)
        BY <1>1, <4>1
      <4>3. \A e \in Nat : /\ e < Len(hist) => e <= Len(hist) - 1
                           /\ e <= Len(hist) - 1 => e <= i - 1
                           /\ ~(e <= i - 1) => e > i - 1
        BY <1>4, <2>2
      <4>4. \A k \in DOMAIN keyMap : k.uid = Alice =>
                (keyMap[k].epoch <= i - 1 <=> keyMap[k].epoch <= Len(hist) - 1)
        BY <1>5, <3>2, <4>3
      <4>5. \A e \in Nat : e > Len(hist) - 1 => ~(e <= Len(hist) - 1)
        BY <1>4
      <4>6. CASE last.isReg
        <5>1. PICK l \in DOMAIN keyMap :
                /\ l.uid = Alice
                /\ keyMap[l].epoch <= Len(hist) - 1
                /\ keyMap[l].commit.val = last.pk
                /\ \A k \in DOMAIN keyMap :
                    k.uid = Alice /\ keyMap[k].epoch <= Len(hist) - 1 => k.ver <= l.ver
          BY <4>2, <4>6 DEF KeyAt
        <5> QED
          BY <3>1, <4>4, <4>6, <5>1 DEF KeyAt
      <4>7. CASE ~last.isReg
        <5>1. \A k \in DOMAIN keyMap : k.uid = Alice => keyMap[k].epoch > i - 1
          BY <1>5, <4>2, <4>3, <4>4, <4>5, <4>7 DEF KeyAt
        <5> QED
          BY <3>1, <4>7, <5>1 DEF KeyAt
      <4> QED
        BY <4>6, <4>7
    <3> QED
      BY <3>3, <3>4
  <2> QED
    BY <2>1, <2>2
<1> QED
  BY <1>3, <1>6 DEF h

\* Every entry of Alice's that is in the map is a version that she has counted,
\* but the one of the Put that is under way.
LEMMA AliceVersions ==
    ASSUME SysInv, NEW k \in DOMAIN keyMap, k.uid = Alice
    PROVE  /\ k.ver \in Nat /\ k = CompMapLabel(Alice, k.ver) /\ keyMap[k].epoch \in Nat
           /\ k.ver < cli[Alice].nextVer => keyMap[k].epoch < Len(hist)
           /\ k.ver < userInfo[Alice].numVers
           /\ ~InMap(Alice) => userInfo[Alice].numVers = cli[Alice].nextVer
           /\ userInfo[Alice].numVers \in {cli[Alice].nextVer, cli[Alice].nextVer + 1}
<1>1. /\ k \in MapLabel /\ keyMap[k] \in MapVal /\ Alice \in Uid
  BY KeyMapType, Threads DEF SysInv, IInv, Types
<1>2. k.ver \in Nat /\ k = CompMapLabel(Alice, k.ver) /\ keyMap[k].epoch \in Nat
  BY <1>1 DEF MapLabel, MapVal, CompMapLabel
<1>3. cli[Alice].nextVer \in Nat /\ cli[Alice].nextEpoch = Len(hist)
  BY <1>1 DEF SysInv, ClientInv, HistInv
<1>4. ASSUME k.ver < cli[Alice].nextVer
      PROVE  keyMap[k].epoch < Len(hist)
  <2>1. k.ver \in 0..(cli[Alice].nextVer - 1)
    BY <1>2, <1>3, <1>4
  <2>2. keyMap[CompMapLabel(Alice, k.ver)].epoch < cli[Alice].nextEpoch
    BY <2>1 DEF SysInv, HistInv
  <2> QED
    BY <1>2, <1>3, <2>2
<1>5. k.ver < userInfo[Alice].numVers
  BY <1>1 DEF SysInv, IInv, VersionsInMap
<1>6. ~InMap(Alice) => userInfo[Alice].numVers = cli[Alice].nextVer
  BY <1>1 DEF SysInv, CountInv
<1>7. userInfo[Alice].numVers \in {cli[Alice].nextVer, cli[Alice].nextVer + 1}
  BY <1>1, CountedInMap
<1> QED
  BY <1>2, <1>4, <1>5, <1>6, <1>7

\* Bob's result is Alice's key at the epoch of its digest.
LEMMA FinishGetStep ==
    ASSUME SysInv, FinishGet, IInv'
    PROVE  SysInv'
<1> DEFINE r == resp[Bob]
           res == [done |-> TRUE, epoch |-> r.dig.epoch,
                   isReg |-> r.isReg, pk |-> r.latest.pkOpen.val]
           c == See(cli[Bob], r.dig)
<1>1. req[Bob].op = "get" /\ Return(Bob) /\ Bob \in Thread /\ Bob \in Uid /\ Bob # Alice
  BY Threads DEF FinishGet
<1>2. /\ pc[Bob] = "ret" /\ pc'[Bob] = "idle" /\ req'[Bob].op = "none"
      /\ \A s \in Thread : s # Bob => UNCHANGED <<pc[s], req[s], resp[s], local[s]>>
      /\ UNCHANGED <<servVars, workQ, workerVars>>
  BY <1>1, ReturnFrame
<1>3. ReadAnswered(Bob) /\ ~GetErr(cli[Bob], Alice, r).err
  BY <1>1, <1>2, GetAccepted
<1>4. /\ failed' = GetErr(cli[Bob], Alice, r).err
      /\ cli' = [cli EXCEPT ![Bob] = c]
      /\ got' = res
      /\ UNCHANGED <<hist, selfMonEp, main, adtrVars>>
  BY <1>3 DEF FinishGet, CheckCliErr, AfterGet
<1>5. r.dig.epoch \in 0..(NumEpochs - 1) /\ r.dig = DigAt(r.dig.epoch)
  BY <1>3 DEF ReadAnswered
<1>6. /\ c = [uid |-> Bob, nextVer |-> cli[Bob].nextVer,
              seenDigs |-> c.seenDigs, nextEpoch |-> r.dig.epoch + 1]
      /\ \A epoch \in DOMAIN c.seenDigs :
            epoch \in 0..(NumEpochs - 1) /\ c.seenDigs[epoch] = DigAt(epoch)
  BY <1>1, <1>5, SeeFacts
<1>7. cli[Bob].nextVer \in Nat
  BY <1>1 DEF SysInv, ClientInv
<1>8. ~got.done /\ main = "run"
  BY <1>1 DEF SysInv, ReqInv, MainInv
<1> HIDE DEF c
<1>9. /\ ClientInv' /\ c.nextVer = cli[Bob].nextVer /\ cli'[Bob] = c
      /\ \A s \in Uid : s # Bob => cli'[s] = cli[s]
  <2>1. UNCHANGED epochHist
    BY <1>2 DEF servVars
  <2>2. c.nextVer = cli[Bob].nextVer
    BY <1>6
  <2>3. c = [uid |-> Bob, nextVer |-> c.nextVer,
             seenDigs |-> c.seenDigs, nextEpoch |-> r.dig.epoch + 1]
    BY <1>6, <2>2
  <2> QED
    BY <1>1, <1>4, <1>5, <1>6, <1>7, <2>1, <2>2, <2>3, ClientUpdated
<1>10. \A s \in Uid : cli'[s].nextVer = cli[s].nextVer
  BY <1>9
<1>11. AcceptInv' /\ EpochBound' /\ CountInv' /\ PutInv'
  BY <1>1, <1>9, <1>10, ReturnReadFrame
<1>12. ReqInv'
  BY <1>1, <1>2, <1>4, <1>10 DEF SysInv, ReqInv, MorePuts, adtrVars, Putters
<1>13. ReadInv'
  BY <1>1, <1>2, <1>8, Threads DEF SysInv, ReqInv, ReadInv
<1>14. HistInv'
  BY <1>1, <1>2, <1>4, <1>9, Threads DEF SysInv, HistInv, KeyAt, servVars
<1>15. GotInv'
  <2>1. /\ res.done = TRUE /\ res.epoch = r.dig.epoch
        /\ res.isReg = r.isReg /\ res.pk = r.latest.pkOpen.val
    OBVIOUS
  <2>2. res.isReg \in BOOLEAN /\ KeyAt(res.epoch, res.isReg, res.pk)
    BY <1>1, <1>2, <1>3, <2>1 DEF ReadAnswered
  <2> HIDE DEF res
  <2> QED
    BY <1>2, <1>4, <1>5, <2>1, <2>2 DEF GotInv, KeyAt, NumEpochs, servVars
<1>16. MainInv'
  BY <1>4, <1>8 DEF SysInv, MainInv
<1>17. SyncInv' /\ AuditorsInSync'
  BY <1>2, <1>4 DEF SysInv, SyncInv, AuditorsInSync, NumEpochs, adtrVars, servVars
<1>18. AuditInv'
  BY <1>1, <1>2, Threads DEF SysInv, AuditInv, NumEpochs, servVars
<1>19. NothingFails'
  BY <1>3, <1>4 DEF NothingFails
<1> QED
  BY <1>9, <1>11, <1>12, <1>13, <1>14, <1>15, <1>16, <1>17, <1>18, <1>19 DEF SysInv

\* Alice's history goes up to the epoch at which she has seen that there is no
\* version that she has not put.
LEMMA FinishSelfMonStep ==
    ASSUME SysInv, FinishSelfMon, IInv'
    PROVE  SysInv'
<1> DEFINE r == resp[Alice]
           e == r.dig.epoch
           c == See(cli[Alice], r.dig)
<1>1. req[Alice].op = "selfmon" /\ Return(Alice) /\ Alice \in Thread /\ Alice \in Uid
  BY Threads DEF FinishSelfMon
<1>2. /\ pc[Alice] = "ret" /\ pc'[Alice] = "idle" /\ req'[Alice].op = "none"
      /\ \A s \in Thread : s # Alice => UNCHANGED <<pc[s], req[s], resp[s], local[s]>>
      /\ UNCHANGED <<servVars, workQ, workerVars>>
      /\ IInv /\ [Next]_vars
  BY <1>1, ReturnFrame
<1>3. ReadAnswered(Alice) /\ ~SelfMonErr(cli[Alice], r).err
  BY <1>1, <1>2, SelfMonAccepted
<1>4. /\ failed' = ~CanExtend(hist, e + 1)
      /\ hist' = ExtendHist(hist, e + 1)
      /\ cli' = [cli EXCEPT ![Alice] = c]
      /\ selfMonEp' = e
      /\ main' = "sync"
      /\ UNCHANGED <<got, adtrVars>>
  BY <1>3 DEF FinishSelfMon, AfterSelfMon
<1>5. /\ e \in 0..(NumEpochs - 1) /\ r.dig = DigAt(e)
      /\ e + 1 >= cli[Alice].nextEpoch /\ e >= got.epoch
  BY <1>1, <1>3 DEF ReadAnswered
<1>6. /\ c = [uid |-> Alice, nextVer |-> cli[Alice].nextVer,
              seenDigs |-> c.seenDigs, nextEpoch |-> e + 1]
      /\ \A epoch \in DOMAIN c.seenDigs :
            epoch \in 0..(NumEpochs - 1) /\ c.seenDigs[epoch] = DigAt(epoch)
  BY <1>1, <1>5, SeeFacts
<1>7. cli[Alice].nextVer \in Nat /\ cli[Alice].nextEpoch = Len(hist)
  BY <1>1 DEF SysInv, ClientInv, HistInv
<1>8. main = "selfmon" /\ got.done /\ ~MorePuts(Alice) /\ sync.upd = NoUpd
      /\ got.epoch \in 0..(NumEpochs - 1)
  BY <1>1 DEF SysInv, ReqInv, MainInv, SyncInv, GotInv
<1>9. e \in Nat /\ e + 1 \in Nat /\ Len(hist) <= e + 1 /\ NumEpochs \in Nat /\ got.epoch <= e
      /\ Len(hist) \in Nat
  <2>1. NumEpochs \in Nat
    BY <1>2, Grows
  <2>2. Len(hist) \in Nat
    BY DEF SysInv, HistInv
  <2> QED
    BY <1>5, <1>7, <1>8, <2>1, <2>2
<1> HIDE DEF c
<1>10. /\ ClientInv' /\ c.nextVer = cli[Alice].nextVer /\ cli'[Alice] = c
       /\ c.nextEpoch = e + 1
       /\ \A s \in Uid : s # Alice => cli'[s] = cli[s]
  <2>1. UNCHANGED epochHist
    BY <1>2 DEF servVars
  <2>2. c.nextVer = cli[Alice].nextVer
    BY <1>6
  <2>3. c = [uid |-> Alice, nextVer |-> c.nextVer,
             seenDigs |-> c.seenDigs, nextEpoch |-> e + 1]
    BY <1>6, <2>2
  <2>4. PICK dig : dig = r.dig
    OBVIOUS
  <2>5. dig.epoch \in 0..(NumEpochs - 1) /\ dig = DigAt(dig.epoch) /\ e = dig.epoch
    BY <1>5, <2>4
  <2> HIDE DEF e
  <2>6. c = [uid |-> Alice, nextVer |-> c.nextVer,
             seenDigs |-> c.seenDigs, nextEpoch |-> dig.epoch + 1]
    BY <2>3, <2>5
  <2>7. c.nextVer \in Nat
    BY <1>7, <2>2
  <2>8. /\ ClientInv' /\ cli'[Alice] = c /\ c.nextEpoch = dig.epoch + 1
        /\ \A s \in Uid : s # Alice => cli'[s] = cli[s]
    <3>1. cli' = [cli EXCEPT ![Alice] = c]
      BY <1>4
    <3>2. \A epoch \in DOMAIN c.seenDigs :
            epoch \in 0..(NumEpochs - 1) /\ c.seenDigs[epoch] = DigAt(epoch)
      BY <1>6
    <3>3. Alice \in Uid
      BY <1>1
    <3> QED
      BY <2>1, <2>5, <2>6, <2>7, <3>1, <3>2, <3>3, ClientUpdated
  <2> QED
    BY <2>2, <2>5, <2>8
<1>11. \A s \in Uid : cli'[s].nextVer = cli[s].nextVer
  BY <1>10
<1>12. AcceptInv' /\ EpochBound' /\ CountInv' /\ PutInv'
  BY <1>1, <1>10, <1>11, ReturnReadFrame
<1>13. ReqInv'
  BY <1>1, <1>2, <1>4, <1>8, <1>11 DEF SysInv, ReqInv, MorePuts, adtrVars, Putters
<1>14. ReadInv'
  <2> SUFFICES ASSUME NEW u \in Uid, req'[u].op \in {"get", "selfmon"}, pc'[u] \in {"read", "ret"}
               PROVE  ReadAnswered(u)'
    BY DEF ReadInv
  <2>1. u # Alice /\ u \in Thread
    BY <1>2, Threads
  <2>2. UNCHANGED <<cli[u], got, req[u], pc[u], resp[u], local[u]>>
    BY <1>2, <1>4, <1>10, <2>1
  <2>3. ReadAnswered(u)
    BY <2>2 DEF SysInv, ReadInv
  <2> QED
    BY <1>2, <2>2, <2>3, ReaderKept
<1>15. HistInv'
  <2>1. ~InMap(Alice)
    BY <1>1 DEF InMap
  <2>2. \A k \in DOMAIN keyMap : k.uid = Alice => keyMap[k].epoch < Len(hist)
    BY <2>1, AliceVersions
  <2>3. /\ hist' \in Seq([isReg : BOOLEAN, pk : Pk \cup {NoPk}])
        /\ Len(hist') = e + 1
        /\ \A i \in 1..(e + 1) : KeyAt(i - 1, hist'[i].isReg, hist'[i].pk)
    BY <1>4, <1>9, <2>2, HistExtends
  <2>4. \A ver \in 0..(cli[Alice].nextVer - 1) : keyMap[CompMapLabel(Alice, ver)].epoch < e + 1
    <3> SUFFICES ASSUME NEW ver \in 0..(cli[Alice].nextVer - 1)
                 PROVE  keyMap[CompMapLabel(Alice, ver)].epoch < e + 1
      OBVIOUS
    <3>1. CompMapLabel(Alice, ver) \in DOMAIN keyMap /\ CompMapLabel(Alice, ver).uid = Alice
      BY <1>1, CountedInMap DEF CompMapLabel
    <3>2. keyMap[CompMapLabel(Alice, ver)].epoch \in Nat
          /\ keyMap[CompMapLabel(Alice, ver)].epoch < Len(hist)
      BY <2>2, <3>1, AliceVersions
    <3> QED
      BY <1>9, <3>2
  <2>5. DOMAIN hist' = 1..(e + 1)
    BY <2>3
  <2>6. \A i \in DOMAIN hist' : KeyAt(i - 1, hist[i].isReg, hist[i].pk)'
    BY <1>2, <2>3, <2>5 DEF KeyAt, servVars
  <2>7. \A ver \in 0..(cli'[Alice].nextVer - 1) :
            keyMap'[CompMapLabel(Alice, ver)].epoch < cli'[Alice].nextEpoch
    BY <1>2, <1>10, <2>4 DEF servVars
  <2> QED
    BY <1>10, <2>3, <2>6, <2>7 DEF HistInv
<1>16. GotInv'
  BY <1>2, <1>4 DEF SysInv, GotInv, KeyAt, NumEpochs, servVars
<1>17. MainInv'
  <2>1. Len(hist') = selfMonEp' + 1
    BY <1>4, <1>10, <1>15 DEF HistInv
  <2> QED
    BY <1>1, <1>4, <1>8, <1>9, <1>11, <2>1 DEF MainInv, MorePuts
<1>18. SyncInv' /\ AuditorsInSync'
  BY <1>2, <1>4, <1>8 DEF SysInv, SyncInv, AuditorsInSync, NumEpochs, adtrVars, servVars
<1>19. AuditInv'
  BY <1>1, <1>2, Threads DEF SysInv, AuditInv, NumEpochs, servVars
<1>20. NothingFails'
  BY <1>4, <1>9 DEF NothingFails, CanExtend
<1> QED
  BY <1>10, <1>12, <1>13, <1>14, <1>15, <1>16, <1>17, <1>18, <1>19, <1>20 DEF SysInv

\* A Put returns: its version is counted, and, when it is Alice's, her history
\* has her new key at the epoch of the reply.
LEMMA FinishPutStep ==
    ASSUME SysInv, NEW u \in Putters, FinishPut(u), IInv'
    PROVE  SysInv'
<1> DEFINE r == resp[u]
           e == r.dig.epoch
           v == cli[u].nextVer
           label == CompMapLabel(u, v)
           see == See(cli[u], r.dig)
           c == AfterPut(cli[u], r)
<1>1. req[u].op = "put" /\ Return(u) /\ u \in Thread /\ u \in Uid
  BY Threads DEF FinishPut, Putters
<1>2. /\ pc[u] = "ret" /\ pc'[u] = "idle" /\ req'[u].op = "none"
      /\ \A s \in Thread : s # u => UNCHANGED <<pc[s], req[s], resp[s], local[s]>>
      /\ UNCHANGED <<servVars, workQ, workerVars>>
      /\ IInv /\ [Next]_vars
  BY <1>1, ReturnFrame
<1>3. /\ ~PutErr(cli[u], req[u].pk, r).err
      /\ e \in 0..(NumEpochs - 1)
      /\ e \in cli[u].nextEpoch..(NumEpochs - 1)
      /\ r.dig = DigAt(e)
      /\ label \in DOMAIN keyMap /\ keyMap[label].epoch = e /\ keyMap[label].commit.val = req[u].pk
  BY <1>1, <1>2, PutAccepted
<1>4. /\ cli' = [cli EXCEPT ![u] = c]
      /\ u = Alice => /\ failed' = ~CanExtend(hist, e)
                      /\ hist' = Append(ExtendHist(hist, e), Entry(req[u].pk))
      /\ u # Alice => UNCHANGED <<hist, failed>>
      /\ UNCHANGED <<got, selfMonEp, main, adtrVars>>
  BY <1>3 DEF FinishPut
<1>5. /\ NumEpochs \in Nat /\ e \in Nat /\ v \in Nat /\ cli[u].nextEpoch \in Nat
      /\ cli[u].nextEpoch <= e
  <2>1. NumEpochs \in Nat
    BY <1>2, Grows
  <2>2. v \in Nat /\ cli[u].nextEpoch \in 0..NumEpochs
    BY <1>1 DEF SysInv, ClientInv
  <2> QED
    BY <1>3, <2>1, <2>2
<1>6. /\ see = [uid |-> u, nextVer |-> v, seenDigs |-> see.seenDigs, nextEpoch |-> e + 1]
      /\ \A epoch \in DOMAIN see.seenDigs :
            epoch \in 0..(NumEpochs - 1) /\ see.seenDigs[epoch] = DigAt(epoch)
  BY <1>1, <1>3, SeeFacts
<1>7. /\ ClientInv' /\ cli'[u] = c /\ c.nextVer = v + 1 /\ c.nextEpoch = e + 1
      /\ \A s \in Uid : s # u => cli'[s] = cli[s]
  <2>1. c = [see EXCEPT !.nextVer = @ + 1]
    BY DEF AfterPut
  <2> HIDE DEF see, c
  <2>2. PICK seen : seen = see.seenDigs
    OBVIOUS
  <2>3. see = [uid |-> u, nextVer |-> v, seenDigs |-> seen, nextEpoch |-> e + 1]
    BY <1>6, <2>2
  <2>4. PICK dig : dig = r.dig
    OBVIOUS
  <2>5. dig.epoch \in 0..(NumEpochs - 1) /\ dig = DigAt(dig.epoch) /\ e = dig.epoch
    BY <1>3, <2>4
  <2> HIDE DEF e, v
  <2>6. c = [uid |-> u, nextVer |-> v + 1, seenDigs |-> seen, nextEpoch |-> dig.epoch + 1]
    BY <2>1, <2>3, <2>5
  <2>7. c.nextVer = v + 1 /\ c.nextVer \in Nat /\ c.seenDigs = seen
    BY <1>5, <2>6
  <2>8. c = [uid |-> u, nextVer |-> c.nextVer, seenDigs |-> c.seenDigs, nextEpoch |-> dig.epoch + 1]
    BY <2>6, <2>7
  <2>9. \A epoch \in DOMAIN c.seenDigs :
            epoch \in 0..(NumEpochs - 1) /\ c.seenDigs[epoch] = DigAt(epoch)
    BY <1>6, <2>2, <2>7
  <2>10. UNCHANGED epochHist /\ cli' = [cli EXCEPT ![u] = c] /\ u \in Uid
    BY <1>1, <1>2, <1>4 DEF servVars
  <2>11. /\ ClientInv' /\ cli'[u] = c /\ c.nextEpoch = dig.epoch + 1
         /\ \A s \in Uid : s # u => cli'[s] = cli[s]
    BY <2>5, <2>7, <2>8, <2>9, <2>10, ClientUpdated, ZenonT(60)
  <2> QED
    BY <2>5, <2>7, <2>11
<1> HIDE DEF c, see
<1>8. UNCHANGED <<epochHist, keyMap, userInfo, workQ, wpc, work, todo, idx>>
  BY <1>2 DEF servVars, workerVars
<1>9. \A i \in DOMAIN work : Pending(i) => /\ work[i] # u /\ work[i] \in Thread /\ work[i] \in Uid
                                           /\ req[work[i]].op = "put"
  BY <1>2, ServedBatch
<1>10. AcceptInv'
  BY <1>2, <1>8, <1>9 DEF SysInv, AcceptInv, Pending
<1>11. EpochBound'
  BY <1>8 DEF SysInv, EpochBound, NumEpochs
<1>12. CountInv'
  <2>1. ~InMap(u)' /\ InMap(u)
    BY <1>1, <1>2 DEF InMap
  <2>2. userInfo[u].numVers = v + 1
    BY <1>1, <2>1 DEF SysInv, CountInv
  <2>3. ASSUME NEW s \in Uid, s # u
        PROVE  userInfo[s].numVers = IF InMap(s)' THEN cli[s].nextVer + 1 ELSE cli[s].nextVer
    <3>1. InMap(s)' <=> InMap(s)
      BY <1>2, <1>8, <2>3, Threads DEF InMap
    <3> QED
      BY <3>1 DEF SysInv, CountInv
  <2>4. \A s \in Uid : s # u => cli'[s] = cli[s]
    BY <1>7
  <2>5. cli'[u].nextVer = v + 1
    BY <1>7
  <2> HIDE DEF v
  <2>6. ASSUME NEW s \in Uid
        PROVE  userInfo[s].numVers = IF InMap(s)' THEN cli'[s].nextVer + 1 ELSE cli'[s].nextVer
    <3>1. CASE s = u
      BY <2>1, <2>2, <2>5, <3>1
    <3>2. CASE s # u
      BY <2>3, <2>4, <3>2
    <3> QED
      BY <3>1, <3>2
  <2> QED
    BY <1>8, <2>6 DEF CountInv
<1>13. PutInv'
  <2>1. ASSUME NEW s \in Uid, s # u, PutAnswered(s)
        PROVE  PutAnswered(s)'
    BY <1>2, <1>7, <1>8, <2>1, Threads DEF PutAnswered, DigAt, NumEpochs
  <2>2. \A s \in Uid : req'[s].op = "put" /\ pc'[s] = "ret" => PutAnswered(s)'
    BY <1>2, <2>1, Threads DEF SysInv, PutInv
  <2>3. ASSUME wpc = "map1", NEW i \in DOMAIN work, i >= idx
        PROVE  /\ cli'[work[i]].nextEpoch < NumEpochs
               /\ work[i] \notin todo => PutAnswered(work[i])'
    <3>1. PICK s \in Uid : s = work[i] /\ s # u
      BY <1>9, <2>3 DEF Pending
    <3>2. cli[s].nextEpoch < NumEpochs /\ (s \notin todo => PutAnswered(s))
      BY <2>3, <3>1 DEF SysInv, PutInv
    <3>3. s \notin todo => PutAnswered(s)'
      BY <2>1, <3>1, <3>2
    <3>4. cli'[s] = cli[s]
      BY <1>7, <3>1
    <3>5. work'[i] = s
      BY <1>8, <3>1
    <3> QED
      BY <3>1, <3>2, <3>3, <3>4, <3>5
  <2> QED
    BY <1>8, <2>2, <2>3 DEF PutInv, NumEpochs
<1>14. ReadInv'
  <2> SUFFICES ASSUME NEW s \in Uid, req'[s].op \in {"get", "selfmon"}, pc'[s] \in {"read", "ret"}
               PROVE  ReadAnswered(s)'
    BY DEF ReadInv
  <2>1. s # u /\ s \in Thread
    BY <1>2, Threads
  <2>2. UNCHANGED <<cli[s], got, req[s], pc[s], resp[s], local[s]>>
    BY <1>2, <1>4, <1>7, <2>1
  <2>3. ReadAnswered(s)
    BY <2>2 DEF SysInv, ReadInv
  <2> QED
    BY <1>2, <2>2, <2>3, ReaderKept
<1>15. ReqInv'
  <2>1. \A s \in Uid : s # u => cli'[s] = cli[s]
    BY <1>7
  <2> QED
    BY <1>1, <1>2, <1>4, <2>1 DEF SysInv, ReqInv, MorePuts, adtrVars, Putters
<1>16. GotInv'
  BY <1>4, <1>8 DEF SysInv, GotInv, KeyAt, NumEpochs
<1>17. SyncInv' /\ AuditorsInSync'
  BY <1>4, <1>8 DEF SysInv, SyncInv, AuditorsInSync, NumEpochs, adtrVars
<1>18. AuditInv'
  BY <1>1, <1>2, <1>8, Threads DEF SysInv, AuditInv, NumEpochs
<1>19. CASE u # Alice
  <2>1. cli'[Alice] = cli[Alice]
    BY <1>7, <1>19, Threads
  <2>2. HistInv'
    BY <1>4, <1>8, <1>19, <2>1 DEF SysInv, HistInv, KeyAt
  <2>3. MainInv'
    BY <1>4, <1>19, <2>1 DEF SysInv, MainInv, MorePuts
  <2>4. NothingFails'
    BY <1>4, <1>19 DEF SysInv, NothingFails
  <2> QED
    BY <1>7, <1>10, <1>11, <1>12, <1>13, <1>14, <1>15, <1>16, <1>17, <1>18, <2>2, <2>3, <2>4
       DEF SysInv
<1>20. CASE u = Alice
  <2>1. /\ main = "run" /\ Len(hist) = cli[Alice].nextEpoch /\ Len(hist) <= e
        /\ hist \in Seq([isReg : BOOLEAN, pk : Pk \cup {NoPk}])
    BY <1>1, <1>5, <1>20 DEF SysInv, ReqInv, MainInv, HistInv
  <2>2. MainInv'
    BY <1>4, <2>1 DEF SysInv, MainInv
  <2>3. NothingFails'
    BY <1>4, <1>20, <2>1 DEF NothingFails, CanExtend
  <2>4. userInfo[Alice].numVers = v + 1
    <3>1. InMap(Alice)
      BY <1>1, <1>2, <1>20 DEF InMap
    <3> QED
      BY <1>1, <1>20, <3>1 DEF SysInv, CountInv
  <2>5. ASSUME NEW k \in DOMAIN keyMap, k.uid = Alice
        PROVE  /\ k.ver \in Nat /\ k.ver <= v /\ keyMap[k].epoch \in Nat
               /\ keyMap[k].epoch < e => keyMap[k].epoch < Len(hist)
    <3>1. /\ k.ver \in Nat /\ k = CompMapLabel(Alice, k.ver) /\ keyMap[k].epoch \in Nat
          /\ k.ver < v => keyMap[k].epoch < Len(hist)
          /\ k.ver < userInfo[Alice].numVers
      BY <1>20, <2>5, AliceVersions
    <3>2. k.ver <= v /\ (k.ver < v \/ k.ver = v)
      BY <1>5, <2>4, <3>1
    <3>3. CASE k.ver < v
      BY <3>1, <3>2, <3>3
    <3>4. CASE k.ver = v
      <4>1. k = label
        BY <1>20, <3>1, <3>4
      <4>2. keyMap[k].epoch = e /\ ~(e < e)
        BY <1>3, <1>5, <4>1
      <4> QED
        BY <3>1, <3>2, <4>2
    <3> QED
      BY <3>2, <3>3, <3>4
  <2> DEFINE h == ExtendHist(hist, e)
             entry == Entry(req[u].pk)
             S == [isReg : BOOLEAN, pk : Pk \cup {NoPk}]
  <2>6. /\ h \in Seq(S) /\ Len(h) = e
        /\ \A i \in 1..e : KeyAt(i - 1, h[i].isReg, h[i].pk)
    BY <1>5, <2>1, <2>5, HistExtends
  <2>7. entry \in S /\ entry.isReg = TRUE /\ entry.pk = req[u].pk
    BY <1>1, CallTypes DEF Entry
  <2>8. hist' = Append(h, entry)
    BY <1>4, <1>20
  <2> HIDE DEF h, entry, S
  <2>9. /\ hist' \in Seq(S) /\ Len(hist') = e + 1 /\ DOMAIN hist' = 1..(e + 1)
        /\ hist'[e + 1] = entry
        /\ \A i \in 1..e : hist'[i] = h[i]
    BY <1>5, <2>6, <2>7, <2>8
  <2>10. KeyAt(e, entry.isReg, entry.pk)
    <3>1. label.uid = Alice /\ label.ver = v
      <4>1. label.uid = u /\ label.ver = v
        BY DEF CompMapLabel
      <4> QED
        BY <1>20, <4>1
    <3>2. e <= e
      BY <1>5
    <3> HIDE DEF label, v, e
    <3> QED
      BY <1>3, <2>5, <2>7, <3>1, <3>2 DEF KeyAt
  <2>11. ASSUME NEW i \in 1..(e + 1)
         PROVE  KeyAt(i - 1, hist'[i].isReg, hist'[i].pk)
    <3>1. CASE i = e + 1
      <4>1. i - 1 = e
        BY <1>5, <3>1
      <4>2. hist'[i] = entry
        BY <2>9, <3>1
      <4> HIDE DEF e
      <4> QED
        BY <2>10, <4>1, <4>2
    <3>2. CASE i # e + 1
      <4>1. i \in 1..e
        BY <1>5, <3>2
      <4> QED
        BY <2>6, <2>9, <4>1
    <3> QED
      BY <3>1, <3>2
  <2>12. ASSUME NEW ver \in 0..(v + 1 - 1)
         PROVE  keyMap[CompMapLabel(Alice, ver)].epoch < e + 1
    <3>1. CASE ver = v
      <4>1. CompMapLabel(Alice, ver) = label
        BY <1>20, <3>1
      <4> QED
        BY <1>3, <1>5, <4>1
    <3>2. CASE ver # v
      <4>1. ver \in 0..(v - 1) /\ ver \in Nat
        BY <1>5, <3>2
      <4>2. CompMapLabel(Alice, ver) \in DOMAIN keyMap
            /\ CompMapLabel(Alice, ver).uid = Alice
        BY <1>1, <1>20, <4>1, CountedInMap DEF CompMapLabel
      <4>3. keyMap[CompMapLabel(Alice, ver)].epoch < Len(hist)
        BY <1>20, <2>1, <4>1 DEF SysInv, HistInv
      <4>4. keyMap[CompMapLabel(Alice, ver)].epoch \in Nat
        BY <2>5, <4>2
      <4>5. Len(hist) \in Nat
        BY <2>1
      <4> QED
        BY <1>5, <2>1, <4>3, <4>4, <4>5
    <3> QED
      BY <3>1, <3>2
  <2>13. cli'[Alice].nextVer = v + 1 /\ cli'[Alice].nextEpoch = e + 1
    BY <1>7, <1>20
  <2>14. HistInv'
    <3>1. \A ver \in 0..(cli'[Alice].nextVer - 1) :
              keyMap[CompMapLabel(Alice, ver)].epoch < cli'[Alice].nextEpoch
      <4> DEFINE P(ver, epoch) == keyMap[CompMapLabel(Alice, ver)].epoch < epoch
      <4>1. PICK n \in Nat : n = v
        BY <1>5
      <4>2. \A ver \in 0..(n + 1 - 1) : P(ver, e + 1)
        BY <2>12, <4>1
      <4> HIDE DEF P, v, e
      <4>3. PICK i, j : i = cli'[Alice].nextVer /\ j = cli'[Alice].nextEpoch
        OBVIOUS
      <4>4. i = n + 1 /\ j = e + 1
        BY <2>13, <4>1, <4>3
      <4>5. 0..(i - 1) = 0..(n + 1 - 1)
        BY <4>4
      <4>6. \A ver \in 0..(i - 1) : P(ver, e + 1)
        BY <4>2, <4>5, Zenon
      <4>7. \A ver \in 0..(i - 1) : P(ver, j)
        BY <4>4, <4>6, Zenon
      <4>8. \A ver \in 0..(cli'[Alice].nextVer - 1) : P(ver, cli'[Alice].nextEpoch)
        BY <4>3, <4>7
      <4> QED
        BY <4>8 DEF P
    <3>2. \A i \in DOMAIN hist' : KeyAt(i - 1, hist[i].isReg, hist[i].pk)'
      BY <1>8, <2>9, <2>11 DEF KeyAt
    <3>3. /\ hist' \in Seq([isReg : BOOLEAN, pk : Pk \cup {NoPk}])
          /\ Len(hist') = cli'[Alice].nextEpoch
      BY <2>9, <2>13 DEF S
    <3> QED
      BY <1>8, <3>1, <3>2, <3>3 DEF HistInv
  <2> QED
    BY <1>7, <1>10, <1>11, <1>12, <1>13, <1>14, <1>15, <1>16, <1>17, <1>18, <2>2, <2>3, <2>14
       DEF SysInv
<1> QED
  BY <1>19, <1>20

-----------------------------------------------------------------------------
(* Auditors. *)

\* A step that leaves the server and the users alone.
LEMMA StillFrame ==
    ASSUME SysInv, UNCHANGED <<vars, userVars>>
    PROVE  /\ IInv'
           /\ AcceptInv' /\ EpochBound' /\ CountInv' /\ PutInv' /\ ReadInv' /\ AuditInv'
           /\ ClientInv' /\ HistInv' /\ GotInv'
<1> USE DEF vars, userVars
<1>1. IInv'
  BY StutterInv DEF SysInv
<1>2. AcceptInv' /\ EpochBound'
  BY DEF SysInv, AcceptInv, EpochBound, Pending, NumEpochs
<1>3. CountInv'
  <2>1. \A u \in Uid : InMap(u)' <=> InMap(u)
    BY DEF InMap
  <2> QED
    BY <2>1 DEF SysInv, CountInv
<1>4. PutInv' /\ AuditInv'
  BY DEF SysInv, PutInv, PutAnswered, AuditInv, DigAt, NumEpochs
<1>5. ReadInv'
  BY DEF SysInv, ReadInv, ReadAnswered, KeyAt, DigAt, NumEpochs
<1>6. ClientInv' /\ HistInv' /\ GotInv'
  BY DEF SysInv, ClientInv, HistInv, GotInv, KeyAt, DigAt, NumEpochs
<1> QED
  BY <1>1, <1>2, <1>3, <1>4, <1>5, <1>6

\* The pusher has the update for the next epoch of the auditors.
LEMMA FetchedUpdateStep ==
    ASSUME SysInv, FetchedUpdate, IInv'
    PROVE  SysInv'
<1> DEFINE r == resp[Pusher]
           info == epochHist[sync.epoch + 1]
<1>1. Return(Pusher) /\ Pusher \in Thread /\ UNCHANGED <<userVars, logs, toAudit, failed>>
  BY Threads DEF FetchedUpdate
<1>2. /\ pc[Pusher] = "ret" /\ pc'[Pusher] = "idle" /\ req'[Pusher].op = "none"
      /\ \A s \in Thread : s # Pusher => UNCHANGED <<pc[s], req[s], resp[s], local[s]>>
      /\ UNCHANGED <<servVars, workQ, workerVars>>
      /\ IInv /\ [Next]_vars
  BY <1>1, ReturnFrame
<1>3. /\ req[Pusher].op = "audit" /\ req[Pusher].epoch = sync.epoch
      /\ sync.upd = NoUpd /\ main = "sync" /\ sync.adtr = 1
  BY <1>1, <1>2, CallTypes DEF SysInv, ReqInv, SyncInv
<1>4. UNCHANGED <<epochHist, keyMap, cli, got, hist, selfMonEp>>
  BY <1>1, <1>2 DEF servVars, userVars
<1>5. AcceptInv' /\ EpochBound' /\ CountInv' /\ PutInv'
  BY <1>1, <1>3, <1>4, ReturnReadFrame
<1>6. ReadInv'
  <2> SUFFICES ASSUME NEW u \in Uid, req'[u].op \in {"get", "selfmon"}, pc'[u] \in {"read", "ret"}
               PROVE  ReadAnswered(u)'
    BY DEF ReadInv
  <2>1. u # Pusher /\ u \in Thread
    BY Threads
  <2>2. UNCHANGED <<cli[u], got, req[u], pc[u], resp[u], local[u]>>
    BY <1>2, <1>4, <2>1
  <2>3. ReadAnswered(u)
    BY <2>2 DEF SysInv, ReadInv
  <2> QED
    BY <1>2, <2>2, <2>3, ReaderKept
<1>7. AuditInv'
  BY <1>2 DEF AuditInv
<1>8. ClientInv' /\ HistInv' /\ GotInv'
  BY <1>4 DEF SysInv, ClientInv, HistInv, GotInv, KeyAt, DigAt, NumEpochs
<1>9. AuditorsInSync' /\ NothingFails'
  BY <1>1, <1>4 DEF SysInv, AuditorsInSync, NothingFails, NumEpochs
<1>10. ASSUME NEW t \in Thread, req[t].op \in {"put", "get", "selfmon"}
       PROVE  t # Pusher /\ main # "selfmon" => req[t].op # "selfmon"
  BY <1>3, <1>10 DEF SysInv, ReqInv
<1>11. CASE r.err
  <2>1. main' = "audit" /\ sync' = StartSync
    BY <1>11 DEF FetchedUpdate
  <2>2. ReqInv'
    BY <1>1, <1>2, <1>3, <1>4, <2>1 DEF SysInv, ReqInv, MorePuts, Putters
  <2>3. MainInv'
    BY <1>3, <1>4, <2>1 DEF SysInv, MainInv, MorePuts
  <2>4. SyncInv'
    BY <1>1, <1>4, <2>1 DEF SysInv, SyncInv, StartSync
  <2> QED
    BY <1>5, <1>6, <1>7, <1>8, <1>9, <2>2, <2>3, <2>4 DEF SysInv
<1>12. CASE ~r.err
  <2>1. main' = main /\ sync' = [sync EXCEPT !.upd = [updates |-> r.updates, sig |-> r.sig]]
    BY <1>12 DEF FetchedUpdate
  <2>2. sync.epoch < NumEpochs /\ r.updates = info.updates /\ r.sig = info.sig
    BY <1>2, <1>3, <1>12 DEF SysInv, AuditInv
  <2>3. sync' = [epoch |-> sync.epoch, upd |-> [updates |-> info.updates, sig |-> info.sig],
                 adtr |-> sync.adtr]
    <3>1. PICK epoch, upd0, adtr : sync = [epoch |-> epoch, upd |-> upd0, adtr |-> adtr]
      BY DEF SysInv, SyncInv
    <3>2. epoch = sync.epoch /\ adtr = sync.adtr
      BY <3>1
    <3>3. sync' = [sync EXCEPT !.upd = [updates |-> info.updates, sig |-> info.sig]]
      BY <2>1, <2>2
    <3> HIDE DEF info
    <3> QED
      BY <3>1, <3>2, <3>3
  <2>4. /\ sync'.epoch = sync.epoch /\ sync'.adtr = sync.adtr
        /\ sync'.upd = [updates |-> info.updates, sig |-> info.sig]
    <3> HIDE DEF info
    <3> QED
      BY <2>3
  <2>5. sync' = [epoch |-> sync'.epoch, upd |-> sync'.upd, adtr |-> sync'.adtr]
    <3> HIDE DEF info
    <3> QED
      BY <2>3, <2>4
  <2>6. ReqInv'
    BY <1>1, <1>2, <1>3, <1>4, <2>1 DEF SysInv, ReqInv, MorePuts, Putters
  <2>7. MainInv'
    BY <1>4, <2>1 DEF SysInv, MainInv, MorePuts
  <2>8. SyncInv'
    BY <1>1, <1>3, <1>4, <2>1, <2>2, <2>4, <2>5 DEF SysInv, SyncInv, NumEpochs
  <2> QED
    BY <1>5, <1>6, <1>7, <1>8, <1>9, <2>6, <2>7, <2>8 DEF SysInv
<1> QED
  BY <1>11, <1>12

\* The updates of an epoch extend the digest of the one before it.
LEMMA DigestExtends ==
    ASSUME IInv, NEW e \in 0..(NumEpochs - 1)
    PROVE  /\ e = 0 => epochHist[e + 1].dig = Digest(epochHist[e + 1].updates)
           /\ e > 0 => epochHist[e + 1].dig = epochHist[e].dig \cup Digest(epochHist[e + 1].updates)
           /\ epochHist[e + 1].dig \in DigestSet
           /\ \A l \in DOMAIN epochHist[e + 1].updates :
                /\ l \in MapLabel /\ epochHist[e + 1].updates[l] \in MapVal
                /\ epochHist[e + 1].updates[l].epoch = e
                /\ e > 0 => \A entry \in epochHist[e].dig : entry[1] # l
<1>1. NumEpochs \in Nat \ {0} /\ epochHist \in Seq(EpochInfoSet)
  BY DEF IInv, Types, NumEpochs
<1>2. \A d \in 0..(NumEpochs - 1) :
        /\ epochHist[d + 1].dig = UpdatesThrough(d)
        /\ \A l \in DOMAIN epochHist[d + 1].updates :
            /\ epochHist[d + 1].updates[l].epoch = d
            /\ \A b \in 0..(d - 1) : l \notin DOMAIN epochHist[b + 1].updates
  BY DEF IInv, HistReplays
<1>3. e + 1 \in 1..NumEpochs /\ e + 1 \in DOMAIN epochHist
  BY <1>1 DEF NumEpochs
<1>4. epochHist[e + 1] \in EpochInfoSet
  BY <1>1, <1>3
<1>5. epochHist[e + 1].dig \in DigestSet /\ epochHist[e + 1].updates \in KeyMapSet
  BY <1>4 DEF EpochInfoSet
<1>6. e = 0 => epochHist[e + 1].dig = Digest(epochHist[e + 1].updates)
  <2> SUFFICES ASSUME e = 0
               PROVE  UpdatesThrough(0) = Digest(epochHist[1].updates)
    BY <1>2
  <2>1. 1..(0 + 1) = {1}
    OBVIOUS
  <2> QED
    BY <2>1 DEF UpdatesThrough
<1>7. ASSUME e > 0
      PROVE  /\ epochHist[e + 1].dig = epochHist[e].dig \cup Digest(epochHist[e + 1].updates)
             /\ e - 1 \in 0..(NumEpochs - 1) /\ e - 1 + 1 = e
  <2>1. e - 1 \in 0..(NumEpochs - 1) /\ e - 1 + 1 = e
    BY <1>1, <1>7
  <2>2. epochHist[e - 1 + 1].dig = UpdatesThrough(e - 1)
    BY <1>2, <2>1
  <2>3. epochHist[e].dig = UpdatesThrough(e - 1)
    BY <2>1, <2>2
  <2>4. 1..(e + 1) = (1..(e - 1 + 1)) \cup {e + 1}
    BY <2>1
  <2>5. UpdatesThrough(e) = UpdatesThrough(e - 1) \cup Digest(epochHist[e + 1].updates)
    BY <2>4 DEF UpdatesThrough
  <2>6. epochHist[e + 1].dig = UpdatesThrough(e)
    BY <1>2
  <2> QED
    BY <2>1, <2>3, <2>5, <2>6
<1>8. ASSUME NEW l \in DOMAIN epochHist[e + 1].updates
      PROVE  /\ l \in MapLabel /\ epochHist[e + 1].updates[l] \in MapVal
             /\ epochHist[e + 1].updates[l].epoch = e
             /\ e > 0 => \A entry \in epochHist[e].dig : entry[1] # l
  <2>1. l \in MapLabel /\ epochHist[e + 1].updates[l] \in MapVal
    BY <1>5, KeyMapType
  <2>2. /\ epochHist[e + 1].updates[l].epoch = e
        /\ \A b \in 0..(e - 1) : l \notin DOMAIN epochHist[b + 1].updates
    BY <1>2
  <2>3. ASSUME e > 0, NEW entry \in epochHist[e].dig
        PROVE  entry[1] # l
    <3>1. entry \in UpdatesThrough(e - 1)
      <4>1. e - 1 \in 0..(NumEpochs - 1) /\ e - 1 + 1 = e
        BY <1>7, <2>3
      <4>2. epochHist[e - 1 + 1].dig = UpdatesThrough(e - 1)
        BY <1>2, <4>1
      <4> QED
        BY <2>3, <4>1, <4>2
    <3>2. PICK i \in 1..(e - 1 + 1) : entry \in Digest(epochHist[i].updates)
      BY <3>1 DEF UpdatesThrough
    <3>3. i - 1 \in 0..(e - 1) /\ i - 1 + 1 = i
      BY <3>2
    <3>4. l \notin DOMAIN epochHist[i].updates
      BY <2>2, <3>3
    <3>5. PICK k \in DOMAIN epochHist[i].updates : entry = <<k, epochHist[i].updates[k]>>
      BY <3>2 DEF Digest
    <3>6. entry[1] = k
      BY <3>5
    <3> QED
      BY <3>4, <3>6
  <2> QED
    BY <2>1, <2>2, <2>3
<1> QED
  BY <1>5, <1>6, <1>7, <1>8

\* An auditor accepts the update of its next epoch, and then has what the
\* server signed for it.
LEMMA PushUpdateStep ==
    ASSUME SysInv, PushUpdate
    PROVE  SysInv'
<1> DEFINE a == sync.adtr
           e == sync.epoch
           info == epochHist[e + 1]
           log == logs[a].log
           sigs == logs[a].sigs
<1>1. sync.upd # NoUpd /\ UNCHANGED <<vars, userVars, main, toAudit>>
  BY DEF PushUpdate
<1>2. /\ main = "sync" /\ e \in Nat /\ e < NumEpochs /\ a \in Adtrs
      /\ sync.upd = [updates |-> info.updates, sig |-> info.sig]
      /\ \A b \in Adtrs : Len(logs[b].log) = IF b < a THEN e + 1 ELSE e
  BY <1>1 DEF SysInv, SyncInv
<1>3. /\ IInv' /\ IInv
      /\ AcceptInv' /\ EpochBound' /\ CountInv' /\ PutInv' /\ ReadInv' /\ AuditInv'
      /\ ClientInv' /\ HistInv' /\ GotInv'
  BY <1>1, StillFrame DEF SysInv
<1>4. /\ a \in Nat /\ NumAdtrs \in Nat \ {0} /\ 1 \in Adtrs /\ NumEpochs \in Nat \ {0}
      /\ \A b \in Adtrs : b \in Nat /\ b >= 1 /\ b <= NumAdtrs
  BY <1>2, <1>3, NumsAssumption DEF Adtrs, IInv, Types, NumEpochs
<1>5. Len(log) = e /\ log \in Seq(DigestSet) /\ Len(sigs) = Len(log)
  <2>1. ~(a < a)
    BY <1>4
  <2> QED
    BY <1>2, <2>1 DEF SysInv, SyncInv
<1>6. e \in 0..(NumEpochs - 1)
  BY <1>2, <1>4
<1>7. sync.upd.updates = info.updates /\ sync.upd.sig = info.sig
  BY <1>2
<1>8. e > 0 => log # <<>> /\ log[Len(log)] = epochHist[e].dig
  <2> SUFFICES ASSUME e > 0
               PROVE  log # <<>> /\ log[Len(log)] = epochHist[e].dig
    OBVIOUS
  <2>1. e \in DOMAIN log /\ log # <<>>
    BY <1>2, <1>5
  <2> QED
    BY <1>2, <1>5, <2>1 DEF SysInv, AuditorsInSync
<1>9. e = 0 => log = <<>>
  BY <1>5
<1>10. Auditor(a)!Latest = (IF e = 0 THEN {} ELSE epochHist[e].dig)
  <2>1. CASE e = 0
    BY <1>9, <2>1 DEF Auditor!Latest
  <2>2. CASE e > 0
    BY <1>8, <2>2 DEF Auditor!Latest
  <2> QED
    BY <1>2, <2>1, <2>2
<1>11. Auditor(a)!Extends(info.updates)
  <2> SUFFICES ASSUME NEW l \in DOMAIN info.updates
               PROVE  /\ l \in MapLabel /\ info.updates[l] \in MapVal
                      /\ info.updates[l].epoch = Len(log)
                      /\ \A entry \in Auditor(a)!Latest : entry[1] # l
    BY DEF Auditor!Extends
  <2>1. /\ l \in MapLabel /\ info.updates[l] \in MapVal
        /\ info.updates[l].epoch = e
        /\ e > 0 => \A entry \in epochHist[e].dig : entry[1] # l
    BY <1>3, <1>6, DigestExtends
  <2>2. e = 0 \/ e > 0
    BY <1>2
  <2> QED
    BY <1>5, <1>10, <2>1, <2>2
<1>12. /\ (Auditor(a)!Latest \cup Digest(info.updates)) = info.dig
       /\ info.dig \in DigestSet
  <2>1. e = 0 \/ e > 0
    BY <1>2
  <2>2. /\ e = 0 => info.dig = Digest(info.updates)
        /\ e > 0 => info.dig = epochHist[e].dig \cup Digest(info.updates)
        /\ info.dig \in DigestSet
    BY <1>3, <1>6, DigestExtends
  <2> QED
    BY <1>10, <2>1, <2>2
<1> DEFINE entry == [log |-> Append(log, info.dig), sigs |-> Append(sigs, info.sig)]
<1>13. logs' = [logs EXCEPT ![a] = entry] /\ UNCHANGED failed
  BY <1>7, <1>11, <1>12 DEF PushUpdate
<1>14. \/ /\ a < NumAdtrs
          /\ sync' = [sync EXCEPT !.adtr = a + 1]
       \/ /\ a = NumAdtrs
          /\ sync' = [epoch |-> e + 1, upd |-> NoUpd, adtr |-> 1]
  <2>1. a < NumAdtrs \/ (a = NumAdtrs /\ ~(a < NumAdtrs))
    BY <1>2, <1>4
  <2> QED
    BY <2>1 DEF PushUpdate, NextSync
<1>15. /\ entry.log \in Seq(DigestSet) /\ Len(entry.log) = e + 1 /\ Len(entry.sigs) = e + 1
       /\ entry.log[e + 1] = info.dig /\ entry.sigs[e + 1] = info.sig
       /\ \A i \in 1..e : entry.log[i] = log[i] /\ entry.sigs[i] = sigs[i]
       /\ entry = [log |-> entry.log, sigs |-> entry.sigs]
  <2> SUFFICES /\ Append(log, info.dig) \in Seq(DigestSet)
               /\ Len(Append(log, info.dig)) = e + 1 /\ Len(Append(sigs, info.sig)) = e + 1
               /\ Append(log, info.dig)[e + 1] = info.dig /\ Append(sigs, info.sig)[e + 1] = info.sig
               /\ \A i \in 1..e : /\ Append(log, info.dig)[i] = log[i]
                                  /\ Append(sigs, info.sig)[i] = sigs[i]
    OBVIOUS
  <2> HIDE DEF log, sigs, info, e
  <2> QED
    BY <1>2, <1>5, <1>12
<1> HIDE DEF entry
<1>16. /\ logs'[a] = entry /\ \A b \in Adtrs : b # a => logs'[b] = logs[b]
       /\ logs' = [b \in Adtrs |-> logs'[b]]
  BY <1>2, <1>13 DEF SysInv, SyncInv
<1>17. \A b \in Adtrs :
          /\ logs'[b] = [log |-> logs'[b].log, sigs |-> logs'[b].sigs]
          /\ logs'[b].log \in Seq(DigestSet) /\ Len(logs'[b].sigs) = Len(logs'[b].log)
  <2>1. \A b \in Adtrs :
          /\ logs[b] = [log |-> logs[b].log, sigs |-> logs[b].sigs]
          /\ logs[b].log \in Seq(DigestSet) /\ Len(logs[b].sigs) = Len(logs[b].log)
    BY DEF SysInv, SyncInv
  <2> QED
    BY <1>15, <1>16, <2>1
<1>18. \A b \in Adtrs : Len(logs'[b].log) = IF b <= a THEN e + 1 ELSE e
  <2>1. \A b \in Adtrs : b # a => (b < a <=> b <= a)
    BY <1>4
  <2>2. a <= a
    BY <1>4
  <2> QED
    BY <1>2, <1>15, <1>16, <2>1, <2>2
<1>19. SyncInv'
  <2>1. logs' = [b \in Adtrs |-> [log |-> logs'[b].log, sigs |-> logs'[b].sigs]]
    BY <1>16, <1>17
  <2>2. CASE a < NumAdtrs /\ sync' = [sync EXCEPT !.adtr = a + 1]
    <3>1. sync' = [epoch |-> e, upd |-> sync.upd, adtr |-> a + 1]
      <4>1. PICK e0, u0, a0 : sync = [epoch |-> e0, upd |-> u0, adtr |-> a0]
        BY DEF SysInv, SyncInv
      <4>2. e0 = e /\ u0 = sync.upd
        BY <4>1
      <4> HIDE DEF e, a
      <4> QED
        BY <2>2, <4>1, <4>2
    <3>2. sync'.epoch = e /\ sync'.upd = sync.upd /\ sync'.adtr = a + 1
      BY <3>1
    <3>3. a + 1 \in Adtrs /\ \A b \in Adtrs : b < a + 1 <=> b <= a
      BY <1>4, <2>2 DEF Adtrs
    <3>4. \A b \in Adtrs : Len(logs'[b].log) = IF b < sync'.adtr THEN sync'.epoch + 1 ELSE sync'.epoch
      BY <1>18, <3>2, <3>3
    <3>5. sync' = [epoch |-> sync'.epoch, upd |-> sync'.upd, adtr |-> sync'.adtr]
      BY <3>1, <3>2
    <3>6. epochHist' = epochHist /\ NumEpochs' = NumEpochs
      BY <1>1 DEF vars, NumEpochs
    <3> HIDE DEF e, a
    <3> QED
      BY <1>1, <1>2, <1>17, <2>1, <3>2, <3>3, <3>4, <3>5, <3>6 DEF SyncInv, info, e
  <2>3. CASE a = NumAdtrs /\ sync' = [epoch |-> e + 1, upd |-> NoUpd, adtr |-> 1]
    <3>1. sync'.epoch = e + 1 /\ sync'.upd = NoUpd /\ sync'.adtr = 1
      BY <2>3
    <3>2. \A b \in Adtrs : b <= a /\ ~(b < 1)
      BY <1>4, <2>3
    <3>3. \A b \in Adtrs : Len(logs'[b].log) = IF b < sync'.adtr THEN sync'.epoch + 1 ELSE sync'.epoch
      BY <1>18, <3>1, <3>2
    <3>4. sync' = [epoch |-> sync'.epoch, upd |-> sync'.upd, adtr |-> sync'.adtr]
      BY <2>3, <3>1
    <3>5. sync'.epoch \in Nat
      BY <1>2, <3>1
    <3> HIDE DEF e, a
    <3> QED
      BY <1>4, <1>17, <2>1, <3>1, <3>3, <3>4, <3>5 DEF SyncInv
  <2> QED
    BY <1>14, <2>2, <2>3
<1>20. AuditorsInSync'
  <2> SUFFICES ASSUME NEW b \in Adtrs, NEW i \in DOMAIN logs'[b].log
               PROVE  /\ i <= NumEpochs
                      /\ logs'[b].log[i] = epochHist[i].dig
                      /\ logs'[b].sigs[i] = epochHist[i].sig
    BY <1>1 DEF AuditorsInSync, vars, NumEpochs
  <2>1. CASE b # a
    BY <1>16, <2>1 DEF SysInv, AuditorsInSync
  <2>2. CASE b = a
    <3>1. i \in 1..(e + 1)
      BY <1>15, <1>16, <2>2
    <3>2. CASE i = e + 1
      BY <1>2, <1>4, <1>15, <1>16, <2>2, <3>2
    <3>3. CASE i # e + 1
      <4>1. i \in 1..e /\ i \in DOMAIN log
        BY <1>2, <1>5, <3>1, <3>3
      <4>2. i <= NumEpochs /\ log[i] = epochHist[i].dig /\ sigs[i] = epochHist[i].sig
        BY <1>2, <4>1 DEF SysInv, AuditorsInSync
      <4> QED
        BY <1>15, <1>16, <2>2, <4>1, <4>2
    <3> QED
      BY <3>2, <3>3
  <2> QED
    BY <2>1, <2>2
<1>21. ReqInv' /\ MainInv' /\ NothingFails'
  BY <1>1, <1>13 DEF SysInv, ReqInv, MainInv, NothingFails, MorePuts, vars, userVars
<1> QED
  BY <1>3, <1>19, <1>20, <1>21 DEF SysInv

\* An auditor that is in sync has what a client has seen.
LEMMA CliAuditStep ==
    ASSUME SysInv, NEW u \in {Alice, Bob}, NEW a \in Adtrs, CliAudit(u, a)
    PROVE  SysInv'
<1> DEFINE seen == cli[u].seenDigs
<1>1. /\ UNCHANGED <<vars, userVars>> /\ UNCHANGED <<main, sync, logs>>
      /\ \A epoch \in DOMAIN seen : epoch < Len(logs[a].log)
      /\ failed' = \E epoch \in DOMAIN seen : AuditEpochErr(seen[epoch], AdtrInfo(a, epoch)).err
  BY DEF CliAudit
<1>2. /\ IInv' /\ IInv
      /\ AcceptInv' /\ EpochBound' /\ CountInv' /\ PutInv' /\ ReadInv' /\ AuditInv'
      /\ ClientInv' /\ HistInv' /\ GotInv'
  BY <1>1, StillFrame DEF SysInv
<1>3. ASSUME NEW epoch \in DOMAIN seen
      PROVE  ~AuditEpochErr(seen[epoch], AdtrInfo(a, epoch)).err
  <2> DEFINE info == AdtrInfo(a, epoch)
             dig == epochHist[epoch + 1].dig
             sig == epochHist[epoch + 1].sig
             signed == [epoch |-> epoch, dig |-> dig, sig |-> sig]
  <2>1. epoch \in 0..(NumEpochs - 1) /\ seen[epoch] = DigAt(epoch)
    BY Threads DEF SysInv, ClientInv
  <2>2. epoch + 1 \in DOMAIN logs[a].log
    <3>1. epoch \in Nat /\ epoch < Len(logs[a].log) /\ logs[a].log \in Seq(DigestSet)
      BY <1>1, <2>1 DEF SysInv, SyncInv
    <3> QED
      BY <3>1
  <2>3. logs[a].log[epoch + 1] = dig /\ logs[a].sigs[epoch + 1] = sig
    BY <2>2 DEF SysInv, AuditorsInSync
  <2>4. CheckSigDig(signed, ServKey)
    BY <1>2, <2>1 DEF IInv, HistReplays
  <2>5. info.dig = dig /\ info.servSig = sig /\ info.adtrSig = Sign(AdtrKey, epoch, dig)
    BY <2>3 DEF AdtrInfo
  <2>6. seen[epoch].epoch = epoch /\ seen[epoch].dig = dig
    BY <2>1 DEF DigAt
  <2>7. CheckSigDig([epoch |-> epoch, dig |-> dig, sig |-> Sign(AdtrKey, epoch, dig)], AdtrKey)
    BY DEF CheckSigDig
  <2> HIDE DEF info, dig, sig
  <2>8. AuditEpochErr(seen[epoch], info) = NoErr
    BY <2>4, <2>5, <2>6, <2>7 DEF AuditEpochErr
  <2> QED
    BY <2>8 DEF info, NoErr
<1>4. ReqInv' /\ MainInv' /\ SyncInv' /\ AuditorsInSync'
  BY <1>1 DEF SysInv, ReqInv, MainInv, SyncInv, AuditorsInSync, MorePuts, NumEpochs, vars, userVars
<1>5. NothingFails'
  BY <1>1, <1>3 DEF NothingFails
<1> QED
  BY <1>2, <1>4, <1>5 DEF SysInv

\* The test ends.
LEMMA FinishStep ==
    ASSUME SysInv, Finish
    PROVE  SysInv'
<1>1. main = "audit" /\ main' = "done" /\ UNCHANGED <<vars, userVars>> /\ UNCHANGED <<adtrVars, failed>>
  BY DEF Finish
<1>2. /\ IInv'
      /\ AcceptInv' /\ EpochBound' /\ CountInv' /\ PutInv' /\ ReadInv' /\ AuditInv'
      /\ ClientInv' /\ HistInv' /\ GotInv'
  BY <1>1, StillFrame
<1>3. ReqInv' /\ MainInv'
  BY <1>1 DEF SysInv, ReqInv, MainInv, MorePuts, vars, userVars, adtrVars
<1>4. SyncInv' /\ AuditorsInSync' /\ NothingFails'
  BY <1>1 DEF SysInv, SyncInv, AuditorsInSync, NothingFails, NumEpochs, vars, adtrVars
<1> QED
  BY <1>2, <1>3, <1>4 DEF SysInv

\* A step that changes nothing.
LEMMA SysStutter ==
    ASSUME SysInv, UNCHANGED sysVars
    PROVE  SysInv'
<1>1. UNCHANGED <<vars, userVars>> /\ UNCHANGED <<main, adtrVars, failed>>
  BY DEF sysVars, userVars, adtrVars
<1>2. /\ IInv'
      /\ AcceptInv' /\ EpochBound' /\ CountInv' /\ PutInv' /\ ReadInv' /\ AuditInv'
      /\ ClientInv' /\ HistInv' /\ GotInv'
  BY <1>1, StillFrame
<1>3. ReqInv' /\ MainInv'
  BY <1>1 DEF SysInv, ReqInv, MainInv, MorePuts, vars, userVars, adtrVars
<1>4. SyncInv' /\ AuditorsInSync' /\ NothingFails'
  BY <1>1 DEF SysInv, SyncInv, AuditorsInSync, NothingFails, NumEpochs, vars, adtrVars
<1> QED
  BY <1>2, <1>3, <1>4 DEF SysInv

-----------------------------------------------------------------------------
(* The theorems. *)

\* A step of the Worker.
LEMMA WorkerSysStep ==
    ASSUME SysInv, ServerStep(Worker), IInv'
    PROVE  SysInv'
<1>1. [Next]_vars /\ UNCHANGED <<userVars, main, adtrVars, failed>>
  BY DEF ServerStep, Next
<1>2. /\ ClientInv' /\ HistInv' /\ GotInv' /\ MainInv' /\ SyncInv'
      /\ AuditorsInSync' /\ NothingFails'
  BY <1>1, ServerFrame
<1>3. ReqInv' /\ ReadInv' /\ AuditInv'
  BY WorkerReaders
<1>4. AcceptInv' /\ EpochBound' /\ CountInv' /\ PutInv'
  <2>1. CASE ServerStep(WorkerGet)
    BY <2>1, TakeStep
  <2>2. CASE ServerStep(WorkerWaitLock \/ WorkerLock \/ \E t \in Thread : Mapper0(t))
    BY <2>2, PrepareStep
  <2>3. CASE ServerStep(WorkerApply)
    BY <2>3, ApplyStep
  <2>4. CASE ServerStep(WorkerPublish)
    BY <2>4, PublishStep
  <2>5. ASSUME NEW t \in Thread, ServerStep(Mapper1(t))
        PROVE  AcceptInv' /\ EpochBound' /\ CountInv' /\ PutInv'
    BY <2>5, ServeAnswerStep
  <2>6. CASE ServerStep(WorkerFinish)
    BY <2>6, WakeStep
  <2> QED
    BY <2>1, <2>2, <2>3, <2>4, <2>5, <2>6 DEF ServerStep, Worker
<1> QED
  BY <1>2, <1>3, <1>4 DEF SysInv

\* A step of a thread inside the server.
LEMMA HandleSysStep ==
    ASSUME SysInv, NEW t \in Thread, ServerStep(Handle(t)), IInv'
    PROVE  SysInv'
<1>1. /\ UNCHANGED <<userVars, main, adtrVars, failed>> /\ [Next]_vars
      /\ AcceptInv' /\ EpochBound' /\ CountInv' /\ PutInv' /\ ReqInv'
  BY HandleFrame
<1>2. /\ ClientInv' /\ HistInv' /\ GotInv' /\ MainInv' /\ SyncInv'
      /\ AuditorsInSync' /\ NothingFails'
  BY <1>1, ServerFrame
<1>3. ReadInv' /\ AuditInv'
  BY HandleStep
<1> QED
  BY <1>1, <1>2, <1>3 DEF SysInv

\* Every step keeps the invariant.
LEMMA SysNextInv == SysInv /\ [SysNext]_sysVars => SysInv'
<1> SUFFICES ASSUME SysInv, [SysNext]_sysVars
             PROVE  SysInv'
  OBVIOUS
<1>1. CASE UNCHANGED sysVars
  BY <1>1, SysStutter
<1>2. CASE SysNext
  <2>1. IInv'
    BY <1>2, ToServer, NextInv DEF SysInv
  <2>2. CASE ServerStep(Worker)
    BY <2>1, <2>2, WorkerSysStep
  <2>3. ASSUME NEW t \in Thread, ServerStep(Handle(t))
        PROVE  SysInv'
    BY <2>1, <2>3, HandleSysStep
  <2>4. ASSUME NEW u \in Uid, UserStep(u)
        PROVE  SysInv'
    BY <2>1, <2>4, StartPutStep, FinishPutStep, StartGetStep, FinishGetStep DEF UserStep
  <2>5. CASE MainStep
    <3>1. ASSUME NEW u \in {Alice, Bob}, NEW a \in Adtrs, CliAudit(u, a)
          PROVE  SysInv'
      BY <3>1, CliAuditStep
    <3> QED
      BY <2>1, <2>5, <3>1, StartSelfMonStep, FinishSelfMonStep, FetchUpdateStep,
         FetchedUpdateStep, PushUpdateStep, FinishStep DEF MainStep
  <2> QED
    BY <1>2, <2>2, <2>3, <2>4, <2>5 DEF SysNext
<1> QED
  BY <1>1, <1>2

\* It holds when the server and the clients start.
LEMMA SysInitInv == SysInit => SysInv
<1> SUFFICES ASSUME SysInit
             PROVE  SysInv
  OBVIOUS
<1>1. /\ Init /\ IInv
      /\ cli = [u \in Uid |-> NewClient(u)] /\ hist = <<>> /\ got = NotGot
      /\ main = "run" /\ sync = StartSync
      /\ logs = [a \in Adtrs |-> [log |-> <<>>, sigs |-> <<>>]]
      /\ failed = FALSE
  BY InitInv DEF SysInit
<1>2. /\ wpc = "get" /\ work = <<>> /\ workQ = <<>> /\ keyMap = EmptyMap
      /\ userInfo = [u \in Uid |-> [numVers |-> 0, plainPk |-> NoPk]]
      /\ pc = [t \in Thread |-> "idle"] /\ req = [t \in Thread |-> NoReq]
      /\ NumEpochs = 1
  BY <1>1 DEF Init, NumEpochs
<1>3. \A t \in Thread : pc[t] = "idle" /\ req[t].op = "none"
  BY <1>2 DEF NoReq
<1>4. ReqInv /\ AcceptInv
  BY <1>2, <1>3 DEF ReqInv, AcceptInv, Pending
<1>5. EpochBound
  BY <1>2, MaxEpochsAssumption DEF EpochBound
<1>6. \A u \in Uid : /\ cli[u] = [uid |-> u, nextVer |-> 0, seenDigs |-> EmptyMap, nextEpoch |-> 0]
                     /\ cli[u].nextVer = 0 /\ cli[u].nextEpoch = 0 /\ cli[u].seenDigs = EmptyMap
  BY <1>1 DEF NewClient
<1>7. CountInv
  <2>1. \A u \in Uid : ~InMap(u)
    BY <1>3, Threads DEF InMap
  <2> QED
    BY <1>2, <1>6, <2>1 DEF CountInv
<1>8. PutInv /\ ReadInv /\ AuditInv
  BY <1>2, <1>3, Threads DEF PutInv, ReadInv, AuditInv
<1>9. ClientInv
  <2>1. cli = [u \in Uid |-> cli[u]]
    BY <1>1
  <2> QED
    BY <1>2, <1>6, <2>1, EmptyMapFacts DEF ClientInv
<1>10. HistInv
  BY <1>1, <1>6, Threads DEF HistInv
<1>11. GotInv
  BY <1>1 DEF GotInv, NotGot
<1>12. MainInv
  BY <1>1 DEF MainInv
<1>13. SyncInv /\ AuditorsInSync
  <2>1. sync.epoch = 0 /\ sync.upd = NoUpd /\ sync.adtr = 1
        /\ sync = [epoch |-> sync.epoch, upd |-> sync.upd, adtr |-> sync.adtr]
    BY <1>1 DEF StartSync
  <2>2. \A a \in Adtrs : logs[a].log = <<>> /\ logs[a].sigs = <<>>
                         /\ logs[a] = [log |-> logs[a].log, sigs |-> logs[a].sigs]
    BY <1>1
  <2>3. 1 \in Adtrs /\ \A a \in Adtrs : ~(a < 1)
    BY NumsAssumption DEF Adtrs
  <2>4. logs = [a \in Adtrs |-> [log |-> logs[a].log, sigs |-> logs[a].sigs]]
    BY <1>1
  <2>5. \A a \in Adtrs : /\ logs[a].log \in Seq(DigestSet) /\ DOMAIN logs[a].log = {}
                         /\ Len(logs[a].log) = 0 /\ Len(logs[a].sigs) = 0
    <3>1. <<>> \in Seq(DigestSet)
      <4> HIDE DEF DigestSet
      <4> QED
        OBVIOUS
    <3>2. DOMAIN <<>> = {} /\ Len(<<>>) = 0
      OBVIOUS
    <3> QED
      BY <2>2, <3>1, <3>2
  <2>6. \A a \in Adtrs : Len(logs[a].log) = IF a < sync.adtr THEN sync.epoch + 1 ELSE sync.epoch
    BY <2>1, <2>3, <2>5
  <2>7. SyncInv
    BY <2>1, <2>3, <2>4, <2>5, <2>6 DEF SyncInv
  <2>8. AuditorsInSync
    BY <2>2, <2>5 DEF AuditorsInSync
  <2> QED
    BY <2>7, <2>8
<1>14. NothingFails
  BY <1>1 DEF NothingFails
<1> QED
  BY <1>1, <1>4, <1>5, <1>7, <1>8, <1>9, <1>10, <1>11, <1>12, <1>13, <1>14 DEF SysInv

\* Server, clients, Alice's history, pusher and auditors keep SysInv.
THEOREM SysInvariance == SysSpec => []SysInv
BY SysInitInv, SysNextInv, PTL DEF SysSpec

\* No honest part ever fails another: no check of a client or an auditor, no
\* assertion of the test, for any numbers of users, keys, Puts and auditors.
THEOREM NothingEverFails == SysSpec => []NothingFails
BY SysInvariance, PTL DEF SysInv

\* Client and server count a user's versions alike, but for a Put under way.
THEOREM VersionsAlwaysAgree == SysSpec => []VersionsAgree
<1>1. SysInv => VersionsAgree
  BY DEF SysInv, CountInv, InMap, VersionsAgree
<1> QED
  BY <1>1, SysInvariance, PTL

\* The auditors have the server's epochs, in its order, with its signatures.
THEOREM AuditorsStayInSync == SysSpec => []AuditorsInSync
BY SysInvariance, PTL DEF SysInv

\* Alice's key at an epoch is one.
LEMMA KeyAtUnique ==
    ASSUME IInv, NEW epoch \in Nat, NEW isReg1 \in BOOLEAN, NEW pk1, NEW isReg2 \in BOOLEAN, NEW pk2,
           KeyAt(epoch, isReg1, pk1), KeyAt(epoch, isReg2, pk2)
    PROVE  isReg1 = isReg2 /\ (isReg1 => pk1 = pk2)
<1>1. \A l \in DOMAIN keyMap : l \in MapLabel /\ keyMap[l].epoch \in Nat
  BY KeyMapType DEF IInv, Types, MapVal
<1>2. \A n \in Nat : ~(n <= epoch /\ n > epoch)
  OBVIOUS
<1>3. isReg1 = isReg2
  BY <1>1, <1>2 DEF KeyAt
<1>4. ASSUME isReg1
      PROVE  pk1 = pk2
  <2>1. PICK l1 \in DOMAIN keyMap :
            /\ l1.uid = Alice /\ keyMap[l1].epoch <= epoch /\ keyMap[l1].commit.val = pk1
            /\ \A k \in DOMAIN keyMap :
                    k.uid = Alice /\ keyMap[k].epoch <= epoch => k.ver <= l1.ver
    BY <1>4 DEF KeyAt
  <2>2. PICK l2 \in DOMAIN keyMap :
            /\ l2.uid = Alice /\ keyMap[l2].epoch <= epoch /\ keyMap[l2].commit.val = pk2
            /\ \A k \in DOMAIN keyMap :
                    k.uid = Alice /\ keyMap[k].epoch <= epoch => k.ver <= l2.ver
    BY <1>3, <1>4 DEF KeyAt
  <2>3. l1.ver <= l2.ver /\ l2.ver <= l1.ver /\ l1 \in MapLabel /\ l2 \in MapLabel
    BY <1>1, <2>1, <2>2
  <2>4. l1 = l2
    <3>1. l1.ver \in Nat /\ l2.ver \in Nat
      BY <2>3 DEF MapLabel
    <3>2. l1.ver = l2.ver
      BY <2>3, <3>1
    <3> QED
      BY <2>1, <2>2, <2>3, <3>2 DEF MapLabel
  <2> QED
    BY <2>1, <2>2, <2>4
<1> QED
  BY <1>3, <1>4

\* Bob's result is what Alice's history says of that epoch.
THEOREM BobGetsAliceKeyHonest == SysSpec => []BobGotAliceKey
<1>1. SysInv => BobGotAliceKey
  <2> SUFFICES ASSUME SysInv, main = "done"
               PROVE  got.epoch <= selfMonEp /\ SameKey(hist, got.epoch, got.isReg, got.pk)
    BY DEF BobGotAliceKey
  <2>1. /\ IInv /\ got.epoch <= selfMonEp /\ selfMonEp \in Nat /\ Len(hist) = selfMonEp + 1
        /\ got.epoch \in 0..(NumEpochs - 1) /\ got.isReg \in BOOLEAN
        /\ KeyAt(got.epoch, got.isReg, got.pk)
        /\ hist \in Seq([isReg : BOOLEAN, pk : Pk \cup {NoPk}])
        /\ \A i \in DOMAIN hist : KeyAt(i - 1, hist[i].isReg, hist[i].pk)
    BY DEF SysInv, MainInv, GotInv, HistInv
  <2>2. got.epoch \in Nat /\ got.epoch + 1 \in DOMAIN hist /\ got.epoch + 1 - 1 = got.epoch
    BY <2>1
  <2>3. hist[got.epoch + 1] \in [isReg : BOOLEAN, pk : Pk \cup {NoPk}]
    <3> DEFINE S == [isReg : BOOLEAN, pk : Pk \cup {NoPk}]
    <3>1. PICK i : i = got.epoch + 1
      OBVIOUS
    <3>2. hist \in Seq(S) /\ i \in DOMAIN hist
      BY <2>1, <2>2, <3>1
    <3> HIDE DEF S
    <3>3. hist[i] \in S
      BY <3>2
    <3> QED
      BY <3>1, <3>3 DEF S
  <2>4. KeyAt(got.epoch, hist[got.epoch + 1].isReg, hist[got.epoch + 1].pk)
    BY <2>1, <2>2
  <2>5. /\ hist[got.epoch + 1].isReg = got.isReg
        /\ hist[got.epoch + 1].isReg => hist[got.epoch + 1].pk = got.pk
    BY <2>1, <2>2, <2>3, <2>4, KeyAtUnique
  <2> QED
    BY <2>1, <2>5 DEF SameKey
<1> QED
  BY <1>1, SysInvariance, PTL
=============================================================================
