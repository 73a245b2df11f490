------------------------------- MODULE Server -------------------------------
(***************************************************************************)
(* The key-transparency server (kt/server.go): one Worker goroutine that   *)
(* drains the Put queue in batches and signs one epoch per batch, and any  *)
(* number of threads that call Put, Get, SelfMon and Audit.                *)
(*                                                                         *)
(* A thread holds at most one request, so that a queued Work is named by   *)
(* its thread.  The queue itself (kt/workq.go) is atomic here; WorkQ       *)
(* models its locks and condition variables.  A nil entry of userInfo and  *)
(* one with zero versions are the same to the code and are one value here. *)
(*                                                                         *)
(* Steps are the code between two points where another goroutine may       *)
(* interfere: what runs under mu is split so that a missing lock would     *)
(* show, mapper goroutines run in any order and interleave with readers.   *)
(***************************************************************************)
EXTENDS KtData, Functions, FiniteSets

CONSTANTS
    Thread,     \* goroutines that call the server's methods
    MaxEpochs   \* no Put is submitted once this many epochs are signed

ASSUME MaxEpochsAssumption == MaxEpochs \in Nat

VARIABLES
    mu,         \* the RWMutex: its writer's state and the set of its readers
    keyMap,     \* label -> map value
    userInfo,   \* uid -> authoritative version count and plaintext key
    epochHist,  \* signed epochs; epoch e is entry e+1
    workQ,      \* threads whose Put waits to be taken by the Worker
    wpc,        \* where the Worker is
    work,       \* the batch it is working on
    outs0,      \* thread -> what mapper0 computed for its request
    todo,       \* threads whose mapper goroutine has not finished
    upd,        \* the batch's entries added to keyMap so far
    idx,        \* the loop counter of the Worker's sequential loops
    pc,         \* where each thread is
    req,        \* its request
    local,      \* what a reader has read of the server's state
    resp,       \* its reply
    panicked    \* an std.Assert failed

lockVars   == <<mu>>
servVars   == <<keyMap, userInfo, epochHist>>
workerVars == <<wpc, work, outs0, todo, upd, idx>>
vars == <<mu, keyMap, userInfo, epochHist, workQ, wpc, work, outs0, todo, upd,
          idx, pc, req, local, resp, panicked>>

NumEpochs == Len(epochHist)

Requests ==
    [op : {"put"}, uid : Uid, pk : Pk]
        \cup [op : {"get", "selfmon"}, uid : Uid]
        \cup [op : {"audit"}, epoch : 0..MaxEpochs]

NoReq == [op |-> "none"]
NoResp == [err |-> FALSE]      \* &WQResp{}
ErrResp == [err |-> TRUE]
NoLocal == [numVers |-> 0, plainPk |-> NoPk]
NoOut == [epoch |-> 0]

-----------------------------------------------------------------------------
(* Replies. *)

\* The latest epoch's signed digest.
GetDig(hist) ==
    [epoch |-> Len(hist) - 1, dig |-> hist[Len(hist)].dig, sig |-> hist[Len(hist)].sig]

\* Membership of every version but the latest.
GetHist(uid, numVers) ==
    [i \in 1..(numVers - 1) |->
        LET label == CompMapLabel(uid, i - 1)
        IN  MembHide(label, keyMap[label], MerkleProof(keyMap, label))]

\* The reply for a user without versions: &Memb{PkOpen: &CommitOpen{}}.
EmptyMemb == Memb(NoPk, 0, CompCommitOpen(NoPk, NoPk), NoPk)

\* Membership of the latest version, opened with the plaintext key.
GetLatest(uid, numVers, plainPk) ==
    IF numVers = 0
    THEN EmptyMemb
    ELSE LET label == CompMapLabel(uid, numVers - 1)
         IN  Memb(label, keyMap[label].epoch, CompCommitOpen(label, plainPk),
                  MerkleProof(keyMap, label))

\* Non-membership of the version after the latest.
GetBound(uid, numVers) ==
    LET label == CompMapLabel(uid, numVers)
    IN  NonMemb(label, MerkleProof(keyMap, label))

\* The std.Asserts of getHist and getLatest, and the one of getBound.
HistInMap(uid, numVers) ==
    \A ver \in 0..(numVers - 1) : CompMapLabel(uid, ver) \in DOMAIN keyMap
BoundNotInMap(uid, numVers) == CompMapLabel(uid, numVers) \notin DOMAIN keyMap

-----------------------------------------------------------------------------
(* updEpochHist: sign and record the digest of km, whose new entries are u. *)

EpochInfo(epoch, km, u) ==
    [updates |-> u, dig |-> Digest(km), sig |-> Sign(ServKey, epoch, Digest(km))]

UpdEpochHist(u) == epochHist' = Append(epochHist, EpochInfo(NumEpochs, keyMap, u))

\* NewServer commits the empty tree as epoch 0 and starts the Worker.
Init ==
    /\ mu = [writer |-> "none", readers |-> {}]
    /\ keyMap = EmptyMap
    /\ userInfo = [u \in Uid |-> [numVers |-> 0, plainPk |-> NoPk]]
    /\ epochHist = <<EpochInfo(0, EmptyMap, EmptyMap)>>
    /\ workQ = <<>>
    /\ wpc = "get"
    /\ work = <<>>
    /\ outs0 = [t \in Thread |-> NoOut]
    /\ todo = {}
    /\ upd = EmptyMap
    /\ idx = 1
    /\ pc = [t \in Thread |-> "idle"]
    /\ req = [t \in Thread |-> NoReq]
    /\ local = [t \in Thread |-> NoLocal]
    /\ resp = [t \in Thread |-> NoResp]
    /\ panicked = FALSE

-----------------------------------------------------------------------------
(* Threads: a call, its critical section under the read lock, its return. *)

Goto(t, place) == pc' = [pc EXCEPT ![t] = place]

\* Put queues the request and waits for the Worker (WorkQ.Do).
CallPut(t) ==
    /\ pc[t] = "idle"
    /\ NumEpochs < MaxEpochs
    /\ \E r \in Requests :
        /\ r.op = "put"
        /\ req' = [req EXCEPT ![t] = r]
    /\ workQ' = Append(workQ, t)
    /\ Goto(t, "do")
    /\ UNCHANGED <<lockVars, servVars, workerVars, local, resp, panicked>>

CallRead(t) ==
    /\ pc[t] = "idle"
    /\ \E r \in Requests :
        /\ r.op # "put"
        /\ req' = [req EXCEPT ![t] = r]
    /\ Goto(t, "rlock")
    /\ UNCHANGED <<lockVars, servVars, workQ, workerVars, local, resp, panicked>>

\* Seeded fault: readers take no lock.
NoRLock(t) == mu' = mu

\* A waiting writer keeps new readers out (sync.RWMutex).
RLock(t) ==
    /\ mu.writer = "none"
    /\ mu' = [mu EXCEPT !.readers = @ \cup {t}]

\* Seeded fault: a path that returns with the lock held.
NoRUnlock(t) == mu' = mu

RUnlock(t) == mu' = [mu EXCEPT !.readers = @ \ {t}]

\* Get and SelfMon: take the read lock, read the user and the digest.
ReadUser(t) ==
    /\ pc[t] = "rlock"
    /\ req[t].op \in {"get", "selfmon"}
    /\ RLock(t)
    /\ local' = [local EXCEPT ![t] = userInfo[req[t].uid]]
    /\ resp' = [resp EXCEPT ![t] = [err |-> FALSE, dig |-> GetDig(epochHist)]]
    /\ Goto(t, "read")
    /\ UNCHANGED <<servVars, workQ, workerVars, req, panicked>>

\* Get: make the proofs and release the lock.
Get(t) ==
    LET uid == req[t].uid
        numVers == local[t].numVers
    IN
    /\ pc[t] = "read"
    /\ req[t].op = "get"
    /\ IF HistInMap(uid, numVers) /\ BoundNotInMap(uid, numVers)
       THEN /\ resp' = [resp EXCEPT ![t] =
                 [err |-> FALSE, dig |-> resp[t].dig,
                  hist |-> GetHist(uid, numVers), isReg |-> numVers > 0,
                  latest |-> GetLatest(uid, numVers, local[t].plainPk),
                  bound |-> GetBound(uid, numVers)]]
            /\ UNCHANGED panicked
       ELSE /\ panicked' = TRUE
            /\ UNCHANGED resp
    /\ RUnlock(t)
    /\ Goto(t, "ret")
    /\ UNCHANGED <<servVars, workQ, workerVars, req, local>>

\* SelfMon: only the bound.
SelfMon(t) ==
    LET uid == req[t].uid
        numVers == local[t].numVers
    IN
    /\ pc[t] = "read"
    /\ req[t].op = "selfmon"
    /\ IF BoundNotInMap(uid, numVers)
       THEN /\ resp' = [resp EXCEPT ![t] =
                 [err |-> FALSE, dig |-> resp[t].dig, bound |-> GetBound(uid, numVers)]]
            /\ UNCHANGED panicked
       ELSE /\ panicked' = TRUE
            /\ UNCHANGED resp
    /\ RUnlock(t)
    /\ Goto(t, "ret")
    /\ UNCHANGED <<servVars, workQ, workerVars, req, local>>

\* Audit takes the read lock.
AuditLock(t) ==
    /\ pc[t] = "rlock"
    /\ req[t].op = "audit"
    /\ RLock(t)
    /\ Goto(t, "read")
    /\ UNCHANGED <<servVars, workQ, workerVars, req, local, resp, panicked>>

\* The early return, which has an RUnlock of its own.
EarlyRUnlock(t) == RUnlock(t)

\* Audit reads one entry of epochHist, or returns early for want of it.
Audit(t) ==
    LET epoch == req[t].epoch IN
    /\ pc[t] = "read"
    /\ req[t].op = "audit"
    /\ \/ /\ epoch >= NumEpochs
          /\ EarlyRUnlock(t)
          /\ resp' = [resp EXCEPT ![t] = ErrResp]
       \/ /\ epoch < NumEpochs
          /\ RUnlock(t)
          /\ resp' = [resp EXCEPT ![t] =
                [err |-> FALSE, updates |-> epochHist[epoch + 1].updates,
                 sig |-> epochHist[epoch + 1].sig]]
    /\ Goto(t, "ret")
    /\ UNCHANGED <<servVars, workQ, workerVars, req, local, panicked>>

Return(t) ==
    /\ pc[t] = "ret"
    /\ Goto(t, "idle")
    /\ req' = [req EXCEPT ![t] = NoReq]
    /\ local' = [local EXCEPT ![t] = NoLocal]
    /\ resp' = [resp EXCEPT ![t] = NoResp]
    /\ UNCHANGED <<lockVars, servVars, workQ, workerVars, panicked>>

-----------------------------------------------------------------------------
(* The Worker. *)

\* Seeded faults: duplicates go through; the set of uids outlives the batch.
NeverDup(batch, i) == FALSE
EverDup(batch, i) ==
    \/ \E j \in 1..(i - 1) : req[batch[j]].uid = req[batch[i]].uid
    \/ userInfo[req[batch[i]].uid].numVers > 0

\* The i-th work of a batch repeats the uid of an earlier one.
IsDup(batch, i) ==
    \E j \in 1..(i - 1) : req[batch[j]].uid = req[batch[i]].uid

\* Take the whole queue and error out duplicates.
WorkerGet ==
    LET dups == {workQ[i] : i \in {j \in DOMAIN workQ : IsDup(workQ, j)}} IN
    /\ wpc = "get"
    /\ workQ # <<>>
    /\ work' = workQ
    /\ workQ' = <<>>
    /\ resp' = [t \in Thread |->
                  IF t \in Range(workQ)
                  THEN IF t \in dups THEN ErrResp ELSE NoResp
                  ELSE resp[t]]
    /\ todo' = Range(workQ) \ dups
    /\ wpc' = "map0"
    /\ UNCHANGED <<lockVars, servVars, outs0, upd, idx, pc, req, local, panicked>>

\* Seeded fault: values are stamped with the current epoch.
CurrentEpoch == NumEpochs - 1

NextEpoch == NumEpochs

\* Labels of the new and of the following version, and the new map value,
\* from the current server: no lock is held.
Mapper0(t) ==
    LET uid == req[t].uid
        numVers == userInfo[uid].numVers
        latest == CompMapLabel(uid, numVers)
        open == CompCommitOpen(latest, req[t].pk)
    IN
    /\ wpc = "map0"
    /\ t \in todo
    /\ outs0' = [outs0 EXCEPT ![t] =
            [latest |-> latest, bound |-> CompMapLabel(uid, numVers + 1),
             mapVal |-> CompMapVal(NextEpoch, open), pkOpen |-> open]]
    /\ todo' = todo \ {t}
    /\ UNCHANGED <<lockVars, servVars, workQ, wpc, work, upd, idx, pc, req, local,
                   resp, panicked>>

\* Lock, first half: announce the writer.
WorkerWaitLock ==
    /\ wpc = "map0"
    /\ todo = {}
    /\ mu' = [mu EXCEPT !.writer = "waiting"]
    /\ wpc' = "lock"
    /\ UNCHANGED <<servVars, workQ, work, outs0, todo, upd, idx, pc, req, local,
                   resp, panicked>>

\* Lock, second half: the readers are gone.
WorkerLock ==
    /\ wpc = "lock"
    /\ mu.readers = {}
    /\ mu' = [mu EXCEPT !.writer = "held"]
    /\ wpc' = "apply"
    /\ UNCHANGED <<servVars, workQ, work, outs0, todo, upd, idx, pc, req, local,
                   resp, panicked>>

\* Seeded fault: the plaintext key is set at the first version only.
KeepPlainPk(user, pk) ==
    [numVers |-> user.numVers + 1,
     plainPk |-> IF user.numVers = 0 THEN pk ELSE user.plainPk]

NewUserState(user, pk) == [numVers |-> user.numVers + 1, plainPk |-> pk]

\* One iteration of the loop that updates keyMap and userInfo.
WorkerApply ==
    LET t == work[idx]
        uid == req[t].uid
        out0 == outs0[t]
    IN
    /\ wpc = "apply"
    /\ idx \in DOMAIN work
    /\ IF resp[t].err
       THEN UNCHANGED <<keyMap, upd, userInfo>>
       ELSE /\ keyMap' = MapPut(keyMap, out0.latest, out0.mapVal)
            /\ upd' = MapPut(upd, out0.latest, out0.mapVal)
            /\ userInfo' = [userInfo EXCEPT ![uid] = NewUserState(@, req[t].pk)]
    /\ idx' = idx + 1
    /\ UNCHANGED <<lockVars, epochHist, workQ, wpc, work, outs0, todo, pc, req,
                   local, resp, panicked>>

\* Sign the new epoch, unlock, start the mapper1 goroutines.
WorkerPublish ==
    /\ wpc = "apply"
    /\ idx > Len(work)
    /\ UpdEpochHist(upd)
    /\ mu' = [mu EXCEPT !.writer = "none"]
    /\ todo' = {t \in Range(work) : ~resp[t].err}
    /\ upd' = EmptyMap
    /\ idx' = 1
    /\ wpc' = "map1"
    /\ UNCHANGED <<keyMap, userInfo, workQ, work, outs0, pc, req, local, resp,
                   panicked>>

\* Proofs against the new server: no lock is held.
Mapper1(t) ==
    LET out0 == outs0[t] IN
    /\ wpc = "map1"
    /\ t \in todo
    /\ IF out0.latest \in DOMAIN keyMap /\ out0.bound \notin DOMAIN keyMap
       THEN /\ resp' = [resp EXCEPT ![t] =
                 [err |-> FALSE, dig |-> GetDig(epochHist),
                  latest |-> Memb(out0.latest, NumEpochs - 1, out0.pkOpen,
                                  MerkleProof(keyMap, out0.latest)),
                  bound |-> NonMemb(out0.bound, MerkleProof(keyMap, out0.bound))]]
            /\ UNCHANGED panicked
       ELSE /\ panicked' = TRUE
            /\ UNCHANGED resp
    /\ todo' = todo \ {t}
    /\ UNCHANGED <<lockVars, servVars, workQ, wpc, work, outs0, upd, idx, pc, req,
                   local>>

\* Seeded fault: the loop over the batch runs once too often.
PastLastWork == idx > Len(work)

LastWork == idx = Len(work)

\* Wake one caller; after the last one, the Worker is called again.
WorkerFinish ==
    /\ wpc = "map1"
    /\ todo = {}
    /\ Goto(work[idx], "ret")
    /\ IF LastWork
       THEN /\ idx' = 1
            /\ wpc' = "get"
            /\ work' = <<>>
            /\ outs0' = [t \in Thread |-> NoOut]
       ELSE /\ idx' = idx + 1
            /\ UNCHANGED <<wpc, work, outs0>>
    /\ UNCHANGED <<lockVars, servVars, workQ, todo, upd, req, local, resp, panicked>>

-----------------------------------------------------------------------------
Worker ==
    \/ WorkerGet
    \/ \E t \in Thread : Mapper0(t)
    \/ WorkerWaitLock
    \/ WorkerLock
    \/ WorkerApply
    \/ WorkerPublish
    \/ \E t \in Thread : Mapper1(t)
    \/ WorkerFinish

\* What a thread does once it has made a call.
Serve(t) ==
    ReadUser(t) \/ Get(t) \/ SelfMon(t) \/ AuditLock(t) \/ Audit(t) \/ Return(t)

Next ==
    \/ Worker
    \/ \E t \in Thread : CallPut(t) \/ CallRead(t) \/ Serve(t)

Spec == Init /\ [][Next]_vars

\* Goroutines run.  Unlock lets in the readers that wait before it admits the
\* next writer (sync.RWMutex), hence the strong fairness of taking the lock.
Fairness ==
    /\ WF_vars(Worker)
    /\ \A t \in Thread : SF_vars(Serve(t))

FairSpec == Spec /\ Fairness

-----------------------------------------------------------------------------
(* Properties. *)

\* The entries signed as epoch e's digest or earlier.
UpdatesThrough(e) == UNION {Digest(epochHist[i].updates) : i \in 1..(e + 1)}

\* Every variable has the values the code can give it.
TypeOK ==
    /\ mu.writer \in {"none", "waiting", "held"}
    /\ mu.readers \subseteq Thread
    /\ \A l \in DOMAIN keyMap : l \in MapLabel /\ keyMap[l] \in MapVal
    /\ userInfo \in [Uid -> [numVers : Nat, plainPk : Pk \cup {NoPk}]]
    /\ workQ \in Seq(Thread)
    /\ work \in Seq(Thread)
    /\ wpc \in {"get", "map0", "lock", "apply", "map1"}
    /\ todo \subseteq Thread
    /\ idx \in 1..(Len(work) + 1)
    /\ wpc = "map1" => idx <= Len(work)
    /\ pc \in [Thread -> {"idle", "do", "rlock", "read", "ret"}]
    /\ req \in [Thread -> Requests \cup {NoReq}]
    /\ local \in [Thread -> [numVers : Nat, plainPk : Pk \cup {NoPk}]]
    /\ panicked \in BOOLEAN

\* No std.Assert of the server fails: a label a proof needs is in the map, the
\* bound is not.
NoPanic == ~panicked

\* numVers is authoritative: the map holds exactly the versions below it, even
\* while a batch is half applied, and the latest one commits to plainPk.
VersionsInMap ==
    /\ \A u \in Uid : \A l \in DOMAIN keyMap :
            l.uid = u => l.ver < userInfo[u].numVers
    /\ \A u \in Uid : HistInMap(u, userInfo[u].numVers)
    /\ \A u \in Uid : userInfo[u].numVers > 0 =>
            keyMap[CompMapLabel(u, userInfo[u].numVers - 1)].commit.val
                = userInfo[u].plainPk

\* What an auditor relies on: replaying the published updates from the empty
\* map gives every signed digest, no update touches an old label, and every
\* value carries the epoch it was published in.
HistReplays ==
    \A e \in 0..(NumEpochs - 1) :
        LET info == epochHist[e + 1] IN
        /\ info.dig = UpdatesThrough(e)
        /\ CheckSigDig([epoch |-> e, dig |-> info.dig, sig |-> info.sig], ServKey)
        /\ \A l \in DOMAIN info.updates :
            /\ info.updates[l].epoch = e
            /\ \A d \in 0..(e - 1) : l \notin DOMAIN epochHist[d + 1].updates

\* The checks that a client makes of the reply r to its request q.
PutVerifies(q, r) ==
    LET ver == r.latest.labelProof.ver
    IN  /\ CheckSigDig(r.dig, ServKey)
        /\ CheckMemb(q.uid, ver, r.dig.dig, r.latest)
        /\ r.latest.epochAdded = r.dig.epoch
        /\ r.latest.pkOpen.val = q.pk
        /\ CheckNonMemb(q.uid, ver + 1, r.dig.dig, r.bound)

GetVerifies(q, r) ==
    LET numHist == Len(r.hist)
        boundVer == IF r.isReg THEN numHist + 1 ELSE 0
    IN  /\ CheckSigDig(r.dig, ServKey)
        /\ CheckHist(q.uid, r.dig.dig, r.hist)
        /\ numHist > 0 => r.isReg
        /\ r.isReg => CheckMemb(q.uid, numHist, r.dig.dig, r.latest)
        /\ CheckNonMemb(q.uid, boundVer, r.dig.dig, r.bound)

\* numVers: the versions that the server has of the user.
SelfMonVerifies(q, numVers, r) ==
    /\ CheckSigDig(r.dig, ServKey)
    /\ CheckNonMemb(q.uid, numVers, r.dig.dig, r.bound)

ReplyVerifies(q, numVers, r) ==
    /\ q.op = "put" => PutVerifies(q, r)
    /\ q.op = "get" => GetVerifies(q, r)
    /\ q.op = "selfmon" => SelfMonVerifies(q, numVers, r)

\* Every reply passes all the checks that its client makes of it.
RepliesVerify ==
    \A t \in Thread : pc[t] = "ret" /\ ~resp[t].err =>
        ReplyVerifies(req[t], local[t].numVers, resp[t])

\* Every call returns.
CallsReturn == \A t \in Thread : (pc[t] # "idle") ~> (pc[t] = "idle")

-----------------------------------------------------------------------------
(* Server implements KeyDir: the directory is what the latest signed digest *)
(* commits to, Puts take effect when their epoch is signed, reads when they *)
(* leave the read lock.                                                     *)

\* A user's versions among the entries of a digest, as [epoch, pk] records.
VersionsIn(dig, uid) ==
    LET mine == {entry \in dig : entry[1].uid = uid}
        valOf(ver) == (CHOOSE entry \in mine : entry[1].ver = ver)[2]
    IN  [i \in 1..Cardinality(mine) |->
            [epoch |-> valOf(i - 1).epoch, pk |-> valOf(i - 1).commit.val]]

\* The versions that a Get's reply proves to its caller.
VersionsProved(r) ==
    [i \in 1..(IF r.isReg THEN Len(r.hist) + 1 ELSE 0) |->
        IF i <= Len(r.hist)
        THEN [epoch |-> r.hist[i].mapVal.epoch, pk |-> r.hist[i].mapVal.commit.val]
        ELSE [epoch |-> r.latest.epochAdded, pk |-> r.latest.pkOpen.val]]

\* What thread t's reply says, in KeyDir's terms.
ResultOf(t) ==
    LET r == resp[t] IN
    IF r.err
    THEN [err |-> TRUE]
    ELSE CASE req[t].op = "put" ->
                [err |-> FALSE, epoch |-> r.dig.epoch, ver |-> r.latest.labelProof.ver]
           [] req[t].op = "get" ->
                [err |-> FALSE, epoch |-> r.dig.epoch, vers |-> VersionsProved(r)]
           [] req[t].op = "selfmon" ->
                [err |-> FALSE, epoch |-> r.dig.epoch,
                 numVers |-> r.bound.labelProof.ver]
           [] req[t].op = "audit" ->
                [err |-> FALSE,
                 added |-> {<<l.uid, l.ver, r.updates[l].commit.val>> :
                              l \in DOMAIN r.updates}]

\* The Put of t is in a signed epoch, but t has not been woken yet.
Committed(t) ==
    /\ wpc = "map1"
    /\ \E i \in idx..Len(work) : work[i] = t

OpOf(t) ==
    CASE pc[t] = "idle" -> [state |-> "idle"]
      [] pc[t] = "ret"  -> [state |-> "done", req |-> req[t], result |-> ResultOf(t)]
      [] pc[t] \notin {"idle", "ret"} /\ Committed(t) ->
            [state |-> "done", req |-> req[t],
             result |-> IF resp[t].err
                        THEN [err |-> TRUE]
                        ELSE [err |-> FALSE, epoch |-> NumEpochs - 1,
                              ver |-> outs0[t].latest.ver]]
      [] OTHER -> [state |-> "pending", req |-> req[t]]

Directory == INSTANCE KeyDir WITH
    dir <- [u \in Uid |-> VersionsIn(epochHist[NumEpochs].dig, u)],
    epoch <- NumEpochs - 1,
    op <- [t \in Thread |-> OpOf(t)]

\* Linearizability: the calls behave as if each took effect at one instant on
\* the abstract directory; in particular a Get that starts after a Put has
\* returned sees it, and a Put is refused only for a concurrent one that is not.
Linearizable == Directory!Spec
=============================================================================
