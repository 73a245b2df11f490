----------------------------- MODULE ServerProofs -----------------------------
(***************************************************************************)
(* The server's safety, proved for any numbers of threads, users, keys and *)
(* epochs.  IInv is the inductive invariant: besides the properties it     *)
(* says what each phase of the Worker has established for the next, that   *)
(* a reader's snapshot is current until it unlocks, and that a thread is   *)
(* in the queue or in the batch once.                                      *)
(***************************************************************************)
EXTENDS Server, FiniteSetTheorems, TLAPS

-----------------------------------------------------------------------------
(* The inductive invariant. *)

KeyMapSet == UNION {[L -> MapVal] : L \in SUBSET MapLabel}
DigestSet == SUBSET (MapLabel \X MapVal)
EpochInfoSet ==
    [updates : KeyMapSet, dig : DigestSet,
     sig : [key : {ServKey}, epoch : Nat, dig : DigestSet]]

Types ==
    /\ TypeOK
    /\ mu = [writer |-> mu.writer, readers |-> mu.readers]
    /\ keyMap \in KeyMapSet
    /\ upd \in KeyMapSet
    /\ epochHist \in Seq(EpochInfoSet)
    /\ epochHist # <<>>
    /\ resp = [t \in Thread |-> resp[t]]
    /\ outs0 = [t \in Thread |-> outs0[t]]

\* The writer's lock and the loop counter follow the Worker's phases.
PhaseInv ==
    /\ wpc \in {"get", "map0", "map1"} => mu.writer = "none"
    /\ wpc = "lock" => mu.writer = "waiting"
    /\ wpc = "apply" => mu.writer = "held" /\ mu.readers = {}
    /\ wpc \in {"get", "map0", "lock"} => idx = 1
    /\ wpc = "get" <=> work = <<>>
    /\ wpc = "map1" /\ todo # {} => idx = 1
    /\ wpc \in {"get", "lock", "apply"} => todo = {}

\* A reader's snapshot is the current state.
ThreadInv ==
    \A t \in Thread :
        /\ pc[t] = "do" => req[t].op = "put"
        /\ pc[t] = "read" =>
            /\ t \in mu.readers
            /\ req[t].op \in {"get", "selfmon", "audit"}
        /\ pc[t] = "read" /\ req[t].op # "audit" =>
            /\ local[t] = userInfo[req[t].uid]
            /\ resp[t] = [err |-> FALSE, dig |-> GetDig(epochHist)]

\* The works of the batch that are not finished.
Pending(i) == i \in DOMAIN work /\ (wpc = "map1" => i >= idx)

\* Whoever waits for the Worker is in the queue or in the batch, once.
QueueInv ==
    /\ \A i \in DOMAIN workQ : pc[workQ[i]] = "do"
    /\ \A i \in DOMAIN work : Pending(i) => pc[work[i]] = "do"
    /\ \A i, j \in DOMAIN workQ : workQ[i] = workQ[j] => i = j
    /\ \A i, j \in DOMAIN work : work[i] = work[j] => i = j
    /\ \A i \in DOMAIN work, j \in DOMAIN workQ : Pending(i) => work[i] # workQ[j]

\* What mapper0 computed for t is what the current server asks for.
Prepared(t) ==
    LET uid == req[t].uid
        numVers == userInfo[uid].numVers
        open == CompCommitOpen(CompMapLabel(uid, numVers), req[t].pk)
    IN  outs0[t] =
            [latest |-> CompMapLabel(uid, numVers),
             bound |-> CompMapLabel(uid, numVers + 1),
             mapVal |-> CompMapVal(NumEpochs, open), pkOpen |-> open]

\* The entry of t is in the map with this epoch, and is the latest version.
Applied(t, epoch) ==
    LET uid == req[t].uid
        numVers == userInfo[uid].numVers
        latest == CompMapLabel(uid, numVers - 1)
    IN  /\ numVers > 0
        /\ outs0[t].latest = latest
        /\ outs0[t].bound = CompMapLabel(uid, numVers)
        /\ outs0[t].pkOpen = CompCommitOpen(latest, req[t].pk)
        /\ latest \in DOMAIN keyMap
        /\ keyMap[latest] = CompMapVal(epoch, outs0[t].pkOpen)

\* The works of a batch that go on have different users.
BatchInv ==
    wpc \in {"map0", "lock", "apply"} =>
        \A i \in DOMAIN work : ~resp[work[i]].err =>
            \A j \in 1..(i - 1) : req[work[j]].uid # req[work[i]].uid

\* What the phases establish for each work that goes on.
WorkInv ==
    /\ todo \subseteq Range(work)
    /\ wpc = "map0" => \A t \in todo : ~resp[t].err
    /\ \A i \in DOMAIN work : ~resp[work[i]].err =>
        /\ wpc = "map0" => work[i] \in todo \/ Prepared(work[i])
        /\ wpc = "lock" => Prepared(work[i])
        /\ wpc = "apply" /\ i >= idx => Prepared(work[i])
        /\ wpc = "apply" /\ i < idx => Applied(work[i], NumEpochs)
        /\ wpc = "map1" /\ i >= idx /\ work[i] \notin todo =>
                ReplyVerifies(req[work[i]], local[work[i]].numVers, resp[work[i]])
    /\ wpc = "map1" => \A t \in todo : ~resp[t].err /\ Applied(t, NumEpochs - 1)

\* The map is the last signed digest plus what the Worker has applied since.
MapInv ==
    LET last == epochHist[NumEpochs].dig IN
    /\ Digest(keyMap) = last \cup Digest(upd)
    /\ wpc # "apply" \/ idx = 1 => upd = EmptyMap
    /\ \A l \in DOMAIN upd :
        /\ upd[l].epoch = NumEpochs
        /\ \A entry \in last : entry[1] # l
    /\ \A l \in DOMAIN keyMap : keyMap[l].commit.rand = l

IInv ==
    /\ Types
    /\ PhaseInv
    /\ ThreadInv
    /\ QueueInv
    /\ BatchInv
    /\ WorkInv
    /\ MapInv
    /\ VersionsInMap
    /\ NoPanic
    /\ HistReplays
    /\ RepliesVerify
-----------------------------------------------------------------------------
(* Key maps. *)

\* The empty map is a key map without entries.
LEMMA EmptyMapFacts == EmptyMap \in KeyMapSet /\ Digest(EmptyMap) = {} /\ DOMAIN EmptyMap = {}
BY DEF EmptyMap, KeyMapSet, Digest

\* A put adds one entry to the domain and keeps the others.
LEMMA MapPutFacts ==
    ASSUME NEW km \in KeyMapSet, NEW l \in MapLabel, NEW v \in MapVal
    PROVE  /\ MapPut(km, l, v) \in KeyMapSet
           /\ DOMAIN MapPut(km, l, v) = DOMAIN km \cup {l}
           /\ MapPut(km, l, v)[l] = v
           /\ \A k \in DOMAIN km : k # l => MapPut(km, l, v)[k] = km[k]
           /\ l \notin DOMAIN km => Digest(MapPut(km, l, v)) = Digest(km) \cup {<<l, v>>}
<1> DEFINE new == MapPut(km, l, v)
<1>1. /\ DOMAIN new = DOMAIN km \cup {l}
      /\ new[l] = v
      /\ \A k \in DOMAIN km : k # l => new[k] = km[k]
    BY DEF MapPut
<1>2. PICK L \in SUBSET MapLabel : km \in [L -> MapVal]
    BY DEF KeyMapSet
<1>3. new \in [L \cup {l} -> MapVal]
    BY <1>2 DEF MapPut
<1>4. new \in KeyMapSet
    BY <1>3 DEF KeyMapSet
<1>5. ASSUME l \notin DOMAIN km
      PROVE  Digest(new) = Digest(km) \cup {<<l, v>>}
    <2> HIDE DEF new
    <2>1. \A k \in DOMAIN km : new[k] = km[k]
        BY <1>1, <1>5
    <2> QED  BY <1>1, <2>1 DEF Digest
<1> QED  BY <1>1, <1>4, <1>5

\* The labels, values and digest of a key map.
LEMMA KeyMapType ==
    ASSUME NEW km \in KeyMapSet
    PROVE  /\ DOMAIN km \subseteq MapLabel
           /\ \A l \in DOMAIN km : km[l] \in MapVal
           /\ Digest(km) \in DigestSet
BY DEF KeyMapSet, Digest, DigestSet

\* The arguments of a request.
LEMMA RequestType ==
    ASSUME NEW q \in Requests \cup {NoReq}
    PROVE  /\ q.op \in {"put", "get", "selfmon"} => q.uid \in Uid
           /\ q.op = "put" => q.pk \in Pk
<1>1. CASE q \in [op : {"put"}, uid : Uid, pk : Pk]
    BY <1>1
<1>2. CASE q \in [op : {"get", "selfmon"}, uid : Uid]
    <2>1. q.op \in {"get", "selfmon"} /\ q.uid \in Uid
        BY <1>2
    <2> QED  BY <2>1
<1>3. CASE q \in [op : {"audit"}, epoch : 0..MaxEpochs]
    <2>1. q.op = "audit"
        BY <1>3
    <2> QED  BY <2>1
<1>4. CASE q = NoReq
    BY <1>4 DEF NoReq
<1> QED  BY <1>1, <1>2, <1>3, <1>4 DEF Requests

-----------------------------------------------------------------------------
(* Steps of threads. *)

\* What does not touch the server's state or the Worker keeps what is said of them.
LEMMA ServFrame ==
    ASSUME IInv, UNCHANGED <<servVars, wpc, upd, idx>>
    PROVE  MapInv' /\ VersionsInMap' /\ HistReplays'
BY DEF IInv, MapInv, VersionsInMap, HistReplays, HistInMap, UpdatesThrough, NumEpochs, servVars

\* A thread that does not wait for the Worker does not disturb the queue.
LEMMA QueueFrame ==
    ASSUME IInv, UNCHANGED <<workQ, work, wpc, idx>>,
           \A s \in Thread : pc[s] = "do" => pc'[s] = "do"
    PROVE  QueueInv'
<1>1. \A i \in DOMAIN workQ : workQ[i] \in Thread
    BY DEF IInv, Types, TypeOK
<1>2. \A i \in DOMAIN work : work[i] \in Thread
    BY DEF IInv, Types, TypeOK
<1> QED  BY <1>1, <1>2 DEF IInv, QueueInv, Pending

\* Nor does it disturb the batch.
LEMMA WorkFrame ==
    ASSUME IInv, UNCHANGED <<servVars, workerVars>>,
           \A s \in Thread : pc[s] = "do" =>
                req'[s] = req[s] /\ resp'[s] = resp[s] /\ local'[s] = local[s]
    PROVE  BatchInv' /\ WorkInv'
<1> USE DEF servVars, workerVars
<1>1. \A i \in DOMAIN work : work[i] \in Thread
    BY DEF IInv, Types, TypeOK
<1>2. \A i \in DOMAIN work : Pending(i) =>
        /\ req'[work[i]] = req[work[i]]
        /\ resp'[work[i]] = resp[work[i]]
        /\ local'[work[i]] = local[work[i]]
    BY <1>1 DEF IInv, QueueInv
<1>3. BatchInv'
    <2>1. \A i \in DOMAIN work : \A j \in 1..(i - 1) : j \in DOMAIN work
        BY DEF IInv, Types, TypeOK
    <2> QED  BY <1>2, <2>1 DEF IInv, BatchInv, Pending
<1>4. \A i \in DOMAIN work : Pending(i) /\ Prepared(work[i]) => Prepared(work[i])'
    BY <1>2 DEF Prepared, NumEpochs
<1>5. \A i \in DOMAIN work : \A e : Pending(i) /\ Applied(work[i], e) => Applied(work[i], e)'
    BY <1>2 DEF Applied
<1>6. wpc = "map1" => \A s \in todo : \E i \in DOMAIN work : Pending(i) /\ work[i] = s
    BY DEF IInv, PhaseInv, WorkInv, Range, Pending, Types, TypeOK
<1>7. wpc = "map0" => \A s \in todo : \E i \in DOMAIN work : Pending(i) /\ work[i] = s
    BY DEF IInv, WorkInv, Range, Pending
<1>8. \A i \in DOMAIN work : (wpc = "map1" /\ i < idx) \/ Pending(i)
    BY DEF Pending, IInv, Types, TypeOK
<1>9. (/\ todo \subseteq Range(work)
       /\ wpc = "map0" => \A t \in todo : ~resp[t].err)'
    BY <1>2, <1>7 DEF IInv, WorkInv
<1>10. (wpc = "map1" => \A t \in todo : ~resp[t].err /\ Applied(t, NumEpochs - 1))'
    BY <1>2, <1>5, <1>6 DEF IInv, WorkInv, NumEpochs
<1>11. ASSUME NEW i \in DOMAIN work, ~resp'[work[i]].err
       PROVE  (/\ wpc = "map0" => work[i] \in todo \/ Prepared(work[i])
               /\ wpc = "lock" => Prepared(work[i])
               /\ wpc = "apply" /\ i >= idx => Prepared(work[i])
               /\ wpc = "apply" /\ i < idx => Applied(work[i], NumEpochs)
               /\ wpc = "map1" /\ i >= idx /\ work[i] \notin todo =>
                    ReplyVerifies(req[work[i]], local[work[i]].numVers, resp[work[i]]))'
    <2>1. CASE Pending(i)
        BY <2>1, <1>2, <1>4, <1>5, <1>11 DEF IInv, WorkInv, NumEpochs
    <2>2. CASE wpc = "map1" /\ i < idx
        BY <2>2 DEF IInv, Types, TypeOK
    <2> QED  BY <2>1, <2>2, <1>8
<1> QED  BY <1>3, <1>9, <1>10, <1>11 DEF WorkInv

\* Put queues a thread that is not in the queue or the batch yet.
LEMMA CallPutStep ==
    ASSUME IInv, NEW t \in Thread, CallPut(t)
    PROVE  IInv'
<1> USE DEF IInv, CallPut, Goto, lockVars, servVars, workerVars
<1>1. Types'
    BY DEF Types, TypeOK, Requests
<1>2. PhaseInv'
    BY DEF PhaseInv
<1>3. ThreadInv'
    BY DEF ThreadInv, Types, TypeOK
<1>4. QueueInv'
    <2>1. /\ workQ \in Seq(Thread)
          /\ pc' = [pc EXCEPT ![t] = "do"]
          /\ pc[t] # "do"
          /\ pc \in [Thread -> {"idle", "do", "rlock", "read", "ret"}]
        BY DEF Types, TypeOK
    <2>2. /\ DOMAIN workQ' = DOMAIN workQ \cup {Len(workQ) + 1}
          /\ workQ'[Len(workQ) + 1] = t
          /\ \A i \in DOMAIN workQ : workQ'[i] = workQ[i] /\ workQ[i] \in Thread
        BY <2>1
    <2>3. \A i \in DOMAIN work : work[i] \in Thread
        BY DEF Types, TypeOK
    <2> QED  BY <2>1, <2>2, <2>3 DEF QueueInv, Pending
<1>5. BatchInv' /\ WorkInv'
    BY WorkFrame DEF Types, TypeOK
<1>6. MapInv' /\ VersionsInMap' /\ HistReplays'
    BY ServFrame
<1>7. NoPanic' /\ RepliesVerify'
    BY DEF NoPanic, RepliesVerify, Types, TypeOK
<1> QED  BY <1>1, <1>2, <1>3, <1>4, <1>5, <1>6, <1>7

\* A call of Get, SelfMon or Audit changes nothing but its thread.
LEMMA CallReadStep ==
    ASSUME IInv, NEW t \in Thread, CallRead(t)
    PROVE  IInv'
<1> USE DEF IInv, CallRead, Goto, lockVars, servVars, workerVars
<1>1. Types'
    BY DEF Types, TypeOK, Requests
<1>2. PhaseInv'
    BY DEF PhaseInv
<1>3. ThreadInv'
    BY DEF ThreadInv, Types, TypeOK
<1>4. QueueInv'
    BY QueueFrame DEF Types, TypeOK
<1>5. BatchInv' /\ WorkInv'
    BY WorkFrame DEF Types, TypeOK
<1>6. MapInv' /\ VersionsInMap' /\ HistReplays'
    BY ServFrame
<1>7. NoPanic' /\ RepliesVerify'
    BY DEF NoPanic, RepliesVerify, Types, TypeOK
<1> QED  BY <1>1, <1>2, <1>3, <1>4, <1>5, <1>6, <1>7

\* The snapshot that a reader takes is current: it holds the read lock.
LEMMA ReadUserStep ==
    ASSUME IInv, NEW t \in Thread, ReadUser(t)
    PROVE  IInv'
<1> USE DEF IInv, ReadUser, RLock, Goto, lockVars, servVars, workerVars
<1>0. req[t].uid \in Uid
    BY RequestType DEF Types, TypeOK
<1>1. Types'
    BY <1>0 DEF Types, TypeOK
<1>2. PhaseInv'
    BY DEF PhaseInv, Types, TypeOK
<1>3. ThreadInv'
    BY DEF ThreadInv, Types, TypeOK
<1>4. QueueInv'
    BY QueueFrame DEF Types, TypeOK
<1>5. BatchInv' /\ WorkInv'
    BY WorkFrame DEF Types, TypeOK
<1>6. MapInv' /\ VersionsInMap' /\ HistReplays'
    BY ServFrame
<1>7. NoPanic' /\ RepliesVerify'
    BY DEF NoPanic, RepliesVerify, Types, TypeOK
<1> QED  BY <1>1, <1>2, <1>3, <1>4, <1>5, <1>6, <1>7

\* While a reader holds the lock, the last digest is that of the map, and the
\* labels that its proofs are about are in it as they should be.
LEMMA Reading ==
    ASSUME IInv, NEW t \in Thread, pc[t] = "read", req[t].op # "audit"
    PROVE  /\ wpc # "apply"
           /\ req[t].uid \in Uid
           /\ local[t] = userInfo[req[t].uid]
           /\ local[t].numVers \in Nat
           /\ HistInMap(req[t].uid, local[t].numVers)
           /\ BoundNotInMap(req[t].uid, local[t].numVers)
           /\ resp[t].dig = GetDig(epochHist)
           /\ CheckSigDig(resp[t].dig, ServKey)
           /\ resp[t].dig.dig = Digest(keyMap)
<1>1. wpc # "apply" /\ req[t].op \in {"get", "selfmon"} /\ local[t] = userInfo[req[t].uid]
        /\ resp[t].dig = GetDig(epochHist)
    BY DEF IInv, ThreadInv, PhaseInv
<1>2. req[t].uid \in Uid
    BY <1>1, RequestType DEF IInv, Types, TypeOK
<1>3. local[t].numVers \in Nat
    BY DEF IInv, Types, TypeOK
<1>4. HistInMap(req[t].uid, local[t].numVers)
    BY <1>1, <1>2 DEF IInv, VersionsInMap
<1>5. BoundNotInMap(req[t].uid, local[t].numVers)
    BY <1>1, <1>2, <1>3 DEF IInv, VersionsInMap, BoundNotInMap, CompMapLabel
<1>6. Len(epochHist) \in Nat \ {0}
    BY DEF IInv, Types
<1>7. CheckSigDig(GetDig(epochHist), ServKey)
    BY <1>6 DEF IInv, HistReplays, NumEpochs, GetDig, CheckSigDig, Sign
<1>8. Digest(keyMap) = epochHist[Len(epochHist)].dig
    BY <1>1, EmptyMapFacts DEF IInv, MapInv, NumEpochs
<1> QED  BY <1>1, <1>2, <1>3, <1>4, <1>5, <1>7, <1>8 DEF GetDig

\* The proofs of a map verify against its digest.
LEMMA ProofVerifies ==
    ASSUME NEW km, NEW l
    PROVE  /\ l \in DOMAIN km => MerkleVerify(TRUE, l, km[l], MerkleProof(km, l), Digest(km))
           /\ \A v : l \notin DOMAIN km =>
                    MerkleVerify(FALSE, l, v, MerkleProof(km, l), Digest(km))
BY DEF MerkleVerify, MerkleProof, Digest

\* The reply of Get passes its client's checks.
LEMMA GetReplyVerifies ==
    ASSUME IInv, NEW t \in Thread, pc[t] = "read", req[t].op # "audit",
           NEW q, q.uid = req[t].uid,
           NEW r,
           r.dig = resp[t].dig,
           r.hist = GetHist(q.uid, local[t].numVers),
           r.isReg = (local[t].numVers > 0),
           r.latest = GetLatest(q.uid, local[t].numVers, local[t].plainPk),
           r.bound = GetBound(q.uid, local[t].numVers)
    PROVE  GetVerifies(q, r)
<1> DEFINE n == local[t].numVers
           lab(v) == CompMapLabel(q.uid, v)
           dig == r.dig.dig
<1>1. /\ n \in Nat
      /\ q.uid \in Uid
      /\ HistInMap(q.uid, n)
      /\ BoundNotInMap(q.uid, n)
      /\ CheckSigDig(r.dig, ServKey)
      /\ dig = Digest(keyMap)
      /\ local[t] = userInfo[q.uid]
    BY Reading
<1>2. /\ DOMAIN r.hist = 1..(n - 1)
      /\ \A i \in 1..(n - 1) : r.hist[i] =
            MembHide(lab(i - 1), keyMap[lab(i - 1)], MerkleProof(keyMap, lab(i - 1)))
    BY DEF GetHist
<1>3. n > 0 => Len(r.hist) = n - 1
    BY <1>1, <1>2
<1>4. n = 0 => Len(r.hist) = 0
    <2>1. n = 0 => DOMAIN r.hist = 1..0
        BY <1>1, <1>2
    <2> QED  BY <2>1
<1>5. CheckHist(q.uid, dig, r.hist)
    <2> SUFFICES ASSUME NEW i \in 1..(n - 1)
                 PROVE  CheckMembHide(q.uid, i - 1, dig, r.hist[i])
        BY <1>2 DEF CheckHist
    <2>1. lab(i - 1) \in DOMAIN keyMap
        BY <1>1 DEF HistInMap
    <2>2. MerkleVerify(TRUE, lab(i - 1), keyMap[lab(i - 1)], MerkleProof(keyMap, lab(i - 1)), dig)
        BY <1>1, <2>1, ProofVerifies
    <2>3. r.hist[i] = MembHide(lab(i - 1), keyMap[lab(i - 1)], MerkleProof(keyMap, lab(i - 1)))
        BY <1>2
    <2>4. /\ r.hist[i].labelProof = lab(i - 1)
          /\ r.hist[i].mapVal = keyMap[lab(i - 1)]
          /\ r.hist[i].merkleProof = MerkleProof(keyMap, lab(i - 1))
        BY <2>3 DEF MembHide
    <2> QED  BY <2>2, <2>4 DEF CheckMembHide, CheckLabel
<1>6. ASSUME n > 0
      PROVE  CheckMemb(q.uid, n - 1, dig, r.latest)
    <2> DEFINE label == lab(n - 1)
               open == CompCommitOpen(label, local[t].plainPk)
    <2>1. label \in DOMAIN keyMap
        BY <1>1, <1>6 DEF HistInMap
    <2>2. r.latest = Memb(label, keyMap[label].epoch, open, MerkleProof(keyMap, label))
        BY <1>1, <1>6 DEF GetLatest
    <2>3. keyMap[label] = CompMapVal(keyMap[label].epoch, open)
        <3>1. keyMap[label].commit.val = local[t].plainPk
            BY <1>1, <1>6 DEF IInv, VersionsInMap
        <3>2. keyMap[label].commit.rand = label
            BY <2>1 DEF IInv, MapInv
        <3>3. keyMap[label] \in MapVal
            BY <2>1, KeyMapType DEF IInv, Types
        <3> QED  BY <3>1, <3>2, <3>3 DEF MapVal, CommitOpen, CompMapVal, CompCommitOpen
    <2>4. MerkleVerify(TRUE, label, keyMap[label], MerkleProof(keyMap, label), dig)
        BY <1>1, <2>1, ProofVerifies
    <2> HIDE DEF label, open
    <2>5. /\ r.latest.labelProof = label
          /\ r.latest.pkOpen = open
          /\ r.latest.epochAdded = keyMap[label].epoch
          /\ r.latest.merkleProof = MerkleProof(keyMap, label)
        BY <2>2 DEF Memb
    <2> QED  BY <2>3, <2>4, <2>5 DEF CheckMemb, CheckLabel, label
<1>7. CheckNonMemb(q.uid, n, dig, r.bound)
    <2>1. MerkleVerify(FALSE, lab(n), NoPk, MerkleProof(keyMap, lab(n)), dig)
        BY <1>1, ProofVerifies DEF BoundNotInMap
    <2>2. /\ r.bound.labelProof = lab(n)
          /\ r.bound.merkleProof = MerkleProof(keyMap, lab(n))
        BY DEF GetBound, NonMemb
    <2> QED  BY <2>1, <2>2 DEF CheckNonMemb, CheckLabel
<1>8. CASE n > 0
    <2>1. r.isReg
        BY <1>8, Zenon
    <2>2. Len(r.hist) = n - 1 /\ n - 1 + 1 = n
        BY <1>1, <1>3, <1>8
    <2> QED  BY <1>1, <1>5, <1>6, <1>7, <1>8, <2>1, <2>2 DEF GetVerifies
<1>9. CASE n = 0
    <2>1. ~(n > 0)
        BY <1>9
    <2>2. ~r.isReg
        BY <2>1, Zenon
    <2>3. Len(r.hist) = 0
        BY <1>4, <1>9
    <2> QED  BY <1>1, <1>5, <1>7, <1>9, <2>2, <2>3 DEF GetVerifies
<1> QED  BY <1>1, <1>8, <1>9

\* The reply of SelfMon passes its client's checks.
LEMMA SelfMonReplyVerifies ==
    ASSUME IInv, NEW t \in Thread, pc[t] = "read", req[t].op # "audit",
           NEW q, q.uid = req[t].uid,
           NEW r,
           r.dig = resp[t].dig,
           r.bound = GetBound(q.uid, local[t].numVers)
    PROVE  SelfMonVerifies(q, local[t].numVers, r)
<1> DEFINE n == local[t].numVers
           label == CompMapLabel(q.uid, n)
<1>1. /\ BoundNotInMap(q.uid, n)
      /\ CheckSigDig(r.dig, ServKey)
      /\ r.dig.dig = Digest(keyMap)
    BY Reading
<1>2. MerkleVerify(FALSE, label, NoPk, MerkleProof(keyMap, label), r.dig.dig)
    BY <1>1, ProofVerifies DEF BoundNotInMap
<1>3. r.bound.labelProof = label /\ r.bound.merkleProof = MerkleProof(keyMap, label)
    BY DEF GetBound, NonMemb
<1> QED  BY <1>1, <1>2, <1>3 DEF SelfMonVerifies, CheckNonMemb, CheckLabel

\* Get's asserts hold and its reply passes its client's checks.
LEMMA GetStep ==
    ASSUME IInv, NEW t \in Thread, Get(t)
    PROVE  IInv'
<1> DEFINE uid == req[t].uid
           numVers == local[t].numVers
           reply == [err |-> FALSE, dig |-> resp[t].dig,
                     hist |-> GetHist(uid, numVers), isReg |-> numVers > 0,
                     latest |-> GetLatest(uid, numVers, local[t].plainPk),
                     bound |-> GetBound(uid, numVers)]
<1>0. /\ pc[t] = "read" /\ req[t].op = "get"
      /\ resp' = [resp EXCEPT ![t] = reply]
      /\ mu' = [mu EXCEPT !.readers = @ \ {t}]
      /\ pc' = [pc EXCEPT ![t] = "ret"]
      /\ UNCHANGED <<servVars, workQ, workerVars, req, local, panicked>>
    BY Reading DEF Get, RUnlock, Goto
<1>a. GetVerifies(req[t], reply)
    <2> DEFINE isReg == numVers > 0
    <2>1. /\ reply.dig = resp[t].dig
          /\ reply.hist = GetHist(uid, numVers)
          /\ reply.latest = GetLatest(uid, numVers, local[t].plainPk)
          /\ reply.bound = GetBound(uid, numVers)
        OBVIOUS
    <2>2. reply.isReg = isReg
        OBVIOUS
    <2> HIDE DEF reply
    <2> QED  BY <1>0, <2>1, <2>2, GetReplyVerifies
<1> HIDE DEF reply
<1> USE DEF IInv, servVars, workerVars
<1>1. Types'
    BY <1>0 DEF Types, TypeOK
<1>2. PhaseInv'
    BY <1>0 DEF PhaseInv, Types, TypeOK
<1>3. ThreadInv'
    BY <1>0 DEF ThreadInv, Types, TypeOK
<1>4. QueueInv'
    BY <1>0, QueueFrame DEF Types, TypeOK
<1>5. BatchInv' /\ WorkInv'
    BY <1>0, WorkFrame DEF Types, TypeOK
<1>6. MapInv' /\ VersionsInMap' /\ HistReplays'
    BY <1>0, ServFrame
<1>7. NoPanic' /\ RepliesVerify'
    BY <1>0, <1>a DEF NoPanic, RepliesVerify, ReplyVerifies, Types, TypeOK
<1> QED  BY <1>1, <1>2, <1>3, <1>4, <1>5, <1>6, <1>7

\* SelfMon's assert holds and its reply passes its client's checks.
LEMMA SelfMonStep ==
    ASSUME IInv, NEW t \in Thread, SelfMon(t)
    PROVE  IInv'
<1> DEFINE reply == [err |-> FALSE, dig |-> resp[t].dig,
                     bound |-> GetBound(req[t].uid, local[t].numVers)]
<1>0. /\ pc[t] = "read" /\ req[t].op = "selfmon"
      /\ resp' = [resp EXCEPT ![t] = reply]
      /\ mu' = [mu EXCEPT !.readers = @ \ {t}]
      /\ pc' = [pc EXCEPT ![t] = "ret"]
      /\ UNCHANGED <<servVars, workQ, workerVars, req, local, panicked>>
    BY Reading DEF SelfMon, RUnlock, Goto
<1>a. SelfMonVerifies(req[t], local[t].numVers, reply)
    BY <1>0, SelfMonReplyVerifies
<1> HIDE DEF reply
<1> USE DEF IInv, servVars, workerVars
<1>1. Types'
    BY <1>0 DEF Types, TypeOK
<1>2. PhaseInv'
    BY <1>0 DEF PhaseInv, Types, TypeOK
<1>3. ThreadInv'
    BY <1>0 DEF ThreadInv, Types, TypeOK
<1>4. QueueInv'
    BY <1>0, QueueFrame DEF Types, TypeOK
<1>5. BatchInv' /\ WorkInv'
    BY <1>0, WorkFrame DEF Types, TypeOK
<1>6. MapInv' /\ VersionsInMap' /\ HistReplays'
    BY <1>0, ServFrame
<1>7. NoPanic' /\ RepliesVerify'
    BY <1>0, <1>a DEF NoPanic, RepliesVerify, ReplyVerifies, Types, TypeOK
<1> QED  BY <1>1, <1>2, <1>3, <1>4, <1>5, <1>6, <1>7

\* Audit holds the read lock before it looks at the epochs.
LEMMA AuditLockStep ==
    ASSUME IInv, NEW t \in Thread, AuditLock(t)
    PROVE  IInv'
<1> USE DEF IInv, AuditLock, RLock, Goto, lockVars, servVars, workerVars
<1>1. Types'
    BY DEF Types, TypeOK
<1>2. PhaseInv'
    BY DEF PhaseInv, Types, TypeOK
<1>3. ThreadInv'
    BY DEF ThreadInv, Types, TypeOK
<1>4. QueueInv'
    BY QueueFrame DEF Types, TypeOK
<1>5. BatchInv' /\ WorkInv'
    BY WorkFrame DEF Types, TypeOK
<1>6. MapInv' /\ VersionsInMap' /\ HistReplays'
    BY ServFrame
<1>7. NoPanic' /\ RepliesVerify'
    BY DEF NoPanic, RepliesVerify, Types, TypeOK
<1> QED  BY <1>1, <1>2, <1>3, <1>4, <1>5, <1>6, <1>7

\* What Audit answers for an epoch.
AuditReply(epoch) ==
    IF epoch >= NumEpochs
    THEN ErrResp
    ELSE [err |-> FALSE, updates |-> epochHist[epoch + 1].updates,
          sig |-> epochHist[epoch + 1].sig]

\* Both of Audit's returns unlock, and nothing but the lock and the reply changes.
LEMMA AuditDoes ==
    ASSUME IInv, NEW t \in Thread, Audit(t)
    PROVE  /\ pc[t] = "read" /\ req[t].op = "audit" /\ req[t].epoch \in Nat
           /\ NumEpochs \in Nat \ {0} /\ wpc # "apply"
           /\ mu' = [mu EXCEPT !.readers = @ \ {t}]
           /\ resp' = [resp EXCEPT ![t] = AuditReply(req[t].epoch)]
           /\ pc' = [pc EXCEPT ![t] = "ret"]
           /\ UNCHANGED <<servVars, workQ, workerVars, req, local, panicked>>
<1>1. /\ pc[t] = "read" /\ req[t].op = "audit"
      /\ pc' = [pc EXCEPT ![t] = "ret"]
      /\ UNCHANGED <<servVars, workQ, workerVars, req, local, panicked>>
    BY DEF Audit, Goto
<1>2. req[t].epoch \in Nat
    <2>1. req[t] \in Requests
        BY <1>1 DEF IInv, Types, TypeOK, NoReq
    <2>2. req[t] \in [op : {"audit"}, epoch : 0..MaxEpochs]
        BY <1>1, <2>1 DEF Requests
    <2> QED  BY <2>2, MaxEpochsAssumption
<1>3. NumEpochs \in Nat \ {0}
    BY DEF IInv, Types, NumEpochs
<1>4. wpc # "apply"
    BY <1>1 DEF IInv, ThreadInv, PhaseInv
<1>5. mu' = [mu EXCEPT !.readers = @ \ {t}]
    BY DEF Audit, EarlyRUnlock, RUnlock
<1>6. resp' = [resp EXCEPT ![t] = AuditReply(req[t].epoch)]
    <2>1. CASE req[t].epoch >= NumEpochs
        BY <1>2, <1>3, <2>1 DEF Audit, AuditReply
    <2>2. CASE ~(req[t].epoch >= NumEpochs)
        BY <1>2, <1>3, <2>2 DEF Audit, AuditReply
    <2> QED  BY <2>1, <2>2
<1> QED  BY <1>1, <1>2, <1>3, <1>4, <1>5, <1>6

\* Audit, in range or not, changes nothing but its reply and gives back the lock.
LEMMA AuditStep ==
    ASSUME IInv, NEW t \in Thread, Audit(t)
    PROVE  IInv'
<1> DEFINE reply == AuditReply(req[t].epoch)
<1>0. /\ pc[t] = "read" /\ req[t].op = "audit"
      /\ mu' = [mu EXCEPT !.readers = @ \ {t}]
      /\ resp' = [resp EXCEPT ![t] = reply]
      /\ pc' = [pc EXCEPT ![t] = "ret"]
      /\ UNCHANGED <<servVars, workQ, workerVars, req, local, panicked>>
    BY AuditDoes
<1> HIDE DEF reply
<1> USE DEF IInv, servVars, workerVars
<1>1. Types'
    BY <1>0 DEF Types, TypeOK
<1>2. PhaseInv'
    BY <1>0 DEF PhaseInv, Types, TypeOK
<1>3. ThreadInv'
    BY <1>0 DEF ThreadInv, Types, TypeOK
<1>4. QueueInv'
    BY <1>0, QueueFrame DEF Types, TypeOK
<1>5. BatchInv' /\ WorkInv'
    BY <1>0, WorkFrame DEF Types, TypeOK
<1>6. MapInv' /\ VersionsInMap' /\ HistReplays'
    BY <1>0, ServFrame
<1>7. NoPanic' /\ RepliesVerify'
    BY <1>0 DEF NoPanic, RepliesVerify, ReplyVerifies, Types, TypeOK
<1> QED  BY <1>1, <1>2, <1>3, <1>4, <1>5, <1>6, <1>7

\* A thread whose call returns is neither in the queue nor in the batch.
LEMMA ReturnStep ==
    ASSUME IInv, NEW t \in Thread, Return(t)
    PROVE  IInv'
<1> USE DEF IInv, Return, Goto, lockVars, servVars, workerVars
<1>1. Types'
    BY DEF Types, TypeOK, NoLocal
<1>2. PhaseInv'
    BY DEF PhaseInv
<1>3. ThreadInv'
    BY DEF ThreadInv, Types, TypeOK
<1>4. QueueInv'
    BY QueueFrame DEF Types, TypeOK
<1>5. BatchInv' /\ WorkInv'
    BY WorkFrame DEF Types, TypeOK
<1>6. MapInv' /\ VersionsInMap' /\ HistReplays'
    BY ServFrame
<1>7. NoPanic' /\ RepliesVerify'
    BY DEF NoPanic, RepliesVerify, Types, TypeOK
<1> QED  BY <1>1, <1>2, <1>3, <1>4, <1>5, <1>6, <1>7

-----------------------------------------------------------------------------
(* Steps of the Worker. *)

\* The Worker takes the whole queue; what it goes on with has distinct users.
LEMMA WorkerGetStep ==
    ASSUME IInv, WorkerGet
    PROVE  IInv'
<1> DEFINE dups == {workQ[i] : i \in {j \in DOMAIN workQ : IsDup(workQ, j)}}
<1> USE DEF IInv, lockVars, servVars
<1>0. /\ wpc = "get" /\ workQ # <<>>
      /\ work' = workQ
      /\ workQ' = <<>>
      /\ resp' = [t \in Thread |->
                    IF t \in Range(workQ)
                    THEN IF t \in dups THEN ErrResp ELSE NoResp
                    ELSE resp[t]]
      /\ todo' = Range(workQ) \ dups
      /\ wpc' = "map0"
      /\ UNCHANGED <<lockVars, servVars, outs0, upd, idx, pc, req, local, panicked>>
    BY DEF WorkerGet
<1>a. /\ workQ \in Seq(Thread)
      /\ Range(workQ) \subseteq Thread
      /\ \A i \in DOMAIN workQ : workQ[i] \in Range(workQ) /\ pc[workQ[i]] = "do"
      /\ \A t \in Range(workQ) : pc[t] = "do"
    BY DEF Types, TypeOK, QueueInv, Range
<1> HIDE DEF dups
<1>1. Types'
    BY <1>0, <1>a DEF Types, TypeOK, PhaseInv
<1>2. PhaseInv'
    BY <1>0, <1>a DEF PhaseInv
<1>3. ThreadInv'
    BY <1>0, <1>a DEF ThreadInv, Types, TypeOK
<1>4. QueueInv'
    BY <1>0, <1>a DEF QueueInv, Pending
<1>b. ASSUME NEW i \in DOMAIN workQ, workQ[i] \in dups
      PROVE  resp'[workQ[i]].err
    BY <1>0, <1>a, <1>b DEF ErrResp
<1>5. BatchInv'
    <2> SUFFICES ASSUME NEW i \in DOMAIN workQ, ~resp'[workQ[i]].err, NEW j \in 1..(i - 1)
                 PROVE  req[workQ[j]].uid # req[workQ[i]].uid
        BY <1>0 DEF BatchInv
    <2>1. ~IsDup(workQ, i)
        BY <1>b DEF dups
    <2> QED  BY <2>1 DEF IsDup
<1>6. WorkInv'
    <2>1. \A t \in todo' : ~resp'[t].err
        BY <1>0, <1>a DEF NoResp
    <2>2. \A i \in DOMAIN workQ : ~resp'[workQ[i]].err => workQ[i] \in todo'
        BY <1>0, <1>a, <1>b
    <2> QED  BY <1>0, <2>1, <2>2 DEF WorkInv
<1>7. MapInv' /\ VersionsInMap' /\ HistReplays'
    BY <1>0 DEF MapInv, VersionsInMap, HistReplays, HistInMap, UpdatesThrough, NumEpochs, PhaseInv
<1>8. NoPanic' /\ RepliesVerify'
    BY <1>0, <1>a DEF NoPanic, RepliesVerify
<1> QED  BY <1>1, <1>2, <1>3, <1>4, <1>5, <1>6, <1>7, <1>8

\* mapper0 prepares one work from the current server.
LEMMA Mapper0Step ==
    ASSUME IInv, NEW t \in Thread, Mapper0(t)
    PROVE  IInv'
<1> USE DEF IInv, lockVars, servVars
<1>0. /\ wpc = "map0" /\ t \in todo
      /\ todo' = todo \ {t}
      /\ UNCHANGED <<lockVars, servVars, workQ, wpc, work, upd, idx, pc, req, local,
                     resp, panicked>>
    BY DEF Mapper0
<1>a. Prepared(t)'
    BY <1>0 DEF Mapper0, Prepared, NextEpoch, NumEpochs, Types
<1>b. \A s \in Thread : s # t => outs0'[s] = outs0[s]
    BY DEF Mapper0
<1>1. Types'
    BY <1>0 DEF Types, TypeOK, Mapper0
<1>2. PhaseInv'
    BY <1>0 DEF PhaseInv
<1>3. ThreadInv'
    BY <1>0 DEF ThreadInv
<1>4. QueueInv'
    BY <1>0, QueueFrame
<1>5. BatchInv'
    BY <1>0 DEF BatchInv
<1>6. WorkInv'
    <2>1. \A s \in Thread : s # t /\ Prepared(s) => Prepared(s)'
        BY <1>0, <1>b DEF Prepared, NumEpochs
    <2>2. \A i \in DOMAIN work : work[i] \in Thread
        BY DEF Types, TypeOK
    <2> QED  BY <1>0, <1>a, <2>1, <2>2 DEF WorkInv
<1>7. MapInv' /\ VersionsInMap' /\ HistReplays'
    BY <1>0, ServFrame
<1>8. NoPanic' /\ RepliesVerify'
    BY <1>0 DEF NoPanic, RepliesVerify
<1> QED  BY <1>1, <1>2, <1>3, <1>4, <1>5, <1>6, <1>7, <1>8

\* When the Worker asks for the lock every work is prepared.
LEMMA WorkerWaitLockStep ==
    ASSUME IInv, WorkerWaitLock
    PROVE  IInv'
<1> USE DEF IInv, WorkerWaitLock, servVars
<1>1. Types'
    BY DEF Types, TypeOK
<1>2. PhaseInv'
    BY DEF PhaseInv, Types
<1>3. ThreadInv'
    BY DEF ThreadInv, Types
<1>4. QueueInv'
    BY DEF QueueInv, Pending
<1>5. BatchInv'
    BY DEF BatchInv
<1>6. WorkInv'
    BY DEF WorkInv, Prepared, NumEpochs
<1>7. MapInv' /\ VersionsInMap' /\ HistReplays'
    BY DEF MapInv, VersionsInMap, HistReplays, HistInMap, UpdatesThrough, NumEpochs
<1>8. NoPanic' /\ RepliesVerify'
    BY DEF NoPanic, RepliesVerify
<1> QED  BY <1>1, <1>2, <1>3, <1>4, <1>5, <1>6, <1>7, <1>8

\* When the Worker has the lock no reader has it.
LEMMA WorkerLockStep ==
    ASSUME IInv, WorkerLock
    PROVE  IInv'
<1> USE DEF IInv, WorkerLock, servVars
<1>0. idx = 1
    BY DEF PhaseInv
<1>1. Types'
    BY DEF Types, TypeOK
<1>2. PhaseInv'
    BY DEF PhaseInv, Types
<1>3. ThreadInv'
    BY DEF ThreadInv, Types
<1>4. QueueInv'
    BY DEF QueueInv, Pending
<1>5. BatchInv'
    BY DEF BatchInv
<1>6. WorkInv'
    <2>1. \A i \in DOMAIN work : ~(i < idx)
        BY <1>0 DEF Types, TypeOK
    <2> QED  BY <2>1 DEF WorkInv, Prepared, NumEpochs
<1>7. MapInv' /\ VersionsInMap' /\ HistReplays'
    BY <1>0 DEF MapInv, VersionsInMap, HistReplays, HistInMap, UpdatesThrough, NumEpochs
<1>8. NoPanic' /\ RepliesVerify'
    BY DEF NoPanic, RepliesVerify
<1> QED  BY <1>1, <1>2, <1>3, <1>4, <1>5, <1>6, <1>7, <1>8

\* How a loop counter splits the works of a batch.
LEMMA LoopCounter ==
    ASSUME work \in Seq(Thread), idx \in 1..(Len(work) + 1)
    PROVE  \A i \in DOMAIN work : i # idx => (i >= idx + 1 <=> i >= idx) /\ (i < idx + 1 <=> i < idx)
<1>1. idx \in Nat /\ \A i \in DOMAIN work : i \in Nat
    OBVIOUS
<1> QED  BY <1>1

\* The work that the Worker is about to apply.
LEMMA Applying ==
    ASSUME IInv, wpc = "apply", idx \in DOMAIN work
    PROVE  /\ work[idx] \in Thread
           /\ idx \in Nat
           /\ req[work[idx]].uid \in Uid
           /\ req[work[idx]].pk \in Pk
           /\ ~resp[work[idx]].err => Prepared(work[idx])
<1>1. work[idx] \in Thread /\ idx \in Nat
    BY DEF IInv, Types, TypeOK
<1>2. req[work[idx]].op = "put"
    BY <1>1 DEF IInv, QueueInv, Pending, ThreadInv
<1>3. req[work[idx]].uid \in Uid /\ req[work[idx]].pk \in Pk
    BY <1>1, <1>2, RequestType DEF IInv, Types, TypeOK
<1>4. ~resp[work[idx]].err => Prepared(work[idx])
    BY <1>1 DEF IInv, WorkInv
<1> QED  BY <1>1, <1>3, <1>4

\* A refused work is skipped.
LEMMA WorkerSkipStep ==
    ASSUME IInv, WorkerApply, resp[work[idx]].err
    PROVE  IInv'
<1> USE DEF IInv, lockVars, servVars
<1>0. /\ wpc = "apply" /\ idx \in DOMAIN work
      /\ idx' = idx + 1
      /\ UNCHANGED <<lockVars, servVars, upd, workQ, wpc, work, outs0, todo, pc, req,
                     local, resp, panicked>>
    BY DEF WorkerApply
<1>1. Types'
    BY <1>0 DEF Types, TypeOK
<1>2. PhaseInv'
    BY <1>0 DEF PhaseInv, Types
<1>3. ThreadInv'
    BY <1>0 DEF ThreadInv
<1>4. QueueInv'
    BY <1>0 DEF QueueInv, Pending
<1>5. BatchInv'
    BY <1>0 DEF BatchInv
<1>6. WorkInv'
    <2>1. \A i \in DOMAIN work : i # idx => (i >= idx + 1 <=> i >= idx) /\ (i < idx + 1 <=> i < idx)
        BY LoopCounter DEF Types, TypeOK
    <2> QED  BY <1>0, <2>1 DEF WorkInv, Prepared, Applied, NumEpochs
<1>7. MapInv' /\ VersionsInMap' /\ HistReplays'
    <2>1. idx' # 1
        BY <1>0 DEF Types, TypeOK
    <2> QED  BY <1>0, <2>1 DEF MapInv, VersionsInMap, HistReplays, HistInMap, UpdatesThrough, NumEpochs
<1>8. NoPanic' /\ RepliesVerify'
    BY <1>0 DEF NoPanic, RepliesVerify
<1> QED  BY <1>1, <1>2, <1>3, <1>4, <1>5, <1>6, <1>7, <1>8

\* A work that goes on adds the next version of its user.
LEMMA WorkerApplyStep ==
    ASSUME IInv, WorkerApply, NEW t, t = work[idx], ~resp[t].err
    PROVE  IInv'
<1> USE DEF IInv, lockVars
<1> DEFINE uid == req[t].uid
           numVers == userInfo[uid].numVers
           label == CompMapLabel(uid, numVers)
           open == CompCommitOpen(label, req[t].pk)
           val == CompMapVal(NumEpochs, open)
<1>0. /\ wpc = "apply" /\ idx \in DOMAIN work
      /\ idx' = idx + 1
      /\ UNCHANGED <<lockVars, epochHist, workQ, wpc, work, outs0, todo, pc, req,
                     local, resp, panicked>>
    BY DEF WorkerApply
<1>a. t \in Thread /\ idx \in Nat /\ uid \in Uid /\ req[t].pk \in Pk /\ Prepared(t)
    BY <1>0, Applying
<1>b. numVers \in Nat /\ userInfo[uid].numVers = numVers /\ userInfo[uid] \in [numVers : Nat, plainPk : Pk \cup {NoPk}]
    BY <1>a DEF Types, TypeOK
<1>c. /\ outs0[t].latest = label /\ outs0[t].bound = CompMapLabel(uid, numVers + 1)
      /\ outs0[t].pkOpen = open /\ outs0[t].mapVal = val
    BY <1>a DEF Prepared
<1>d. /\ keyMap' = MapPut(keyMap, label, val)
      /\ upd' = MapPut(upd, label, val)
      /\ userInfo' = [userInfo EXCEPT ![uid] = NewUserState(@, req[t].pk)]
    BY <1>c DEF WorkerApply
<1>e. label \in MapLabel /\ label.uid = uid /\ label.ver = numVers
    BY <1>a, <1>b DEF CompMapLabel, MapLabel
<1>f. open \in CommitOpen /\ open.val = req[t].pk /\ open.rand = label
    BY <1>a, <1>e DEF CompCommitOpen, CommitOpen
<1>g. val \in MapVal /\ val.epoch = NumEpochs /\ val.commit = open
    BY <1>f DEF CompMapVal, MapVal, NumEpochs, Types
<1> HIDE DEF uid, numVers, label, open, val
<1>h. label \notin DOMAIN keyMap
    <2>1. label \in DOMAIN keyMap => label.ver < userInfo[uid].numVers
        BY <1>a, <1>e DEF VersionsInMap
    <2> QED  BY <1>b, <1>e, <2>1
<1>i. /\ keyMap' \in KeyMapSet
      /\ DOMAIN keyMap' = DOMAIN keyMap \cup {label}
      /\ keyMap'[label] = val
      /\ \A k \in DOMAIN keyMap : k # label => keyMap'[k] = keyMap[k]
      /\ Digest(keyMap') = Digest(keyMap) \cup {<<label, val>>}
    <2>1. keyMap \in KeyMapSet
        BY DEF Types
    <2> QED  BY <1>d, <1>e, <1>g, <1>h, <2>1, MapPutFacts
<1>j. /\ userInfo'[uid].numVers = numVers + 1
      /\ userInfo'[uid].plainPk = req[t].pk
      /\ \A u \in Uid : u # uid => userInfo'[u] = userInfo[u]
      /\ userInfo' \in [Uid -> [numVers : Nat, plainPk : Pk \cup {NoPk}]]
    <2>1. userInfo' = [userInfo EXCEPT ![uid] = [numVers |-> numVers + 1, plainPk |-> req[t].pk]]
        BY <1>b, <1>d DEF NewUserState
    <2> QED  BY <1>a, <1>b, <2>1 DEF Types, TypeOK
<1>k. label \notin DOMAIN upd
    <2>1. label \in DOMAIN upd => <<label, upd[label]>> \in Digest(upd)
        BY DEF Digest
    <2>2. Digest(upd) \subseteq Digest(keyMap)
        BY DEF MapInv
    <2> QED  BY <1>h, <2>1, <2>2 DEF Digest
<1>l. /\ upd' \in KeyMapSet
      /\ DOMAIN upd' = DOMAIN upd \cup {label}
      /\ upd'[label] = val
      /\ \A k \in DOMAIN upd : k # label => upd'[k] = upd[k]
      /\ Digest(upd') = Digest(upd) \cup {<<label, val>>}
    <2>1. upd \in KeyMapSet
        BY DEF Types
    <2>2. /\ MapPut(upd, label, val) \in KeyMapSet
          /\ DOMAIN MapPut(upd, label, val) = DOMAIN upd \cup {label}
          /\ MapPut(upd, label, val)[label] = val
          /\ \A k \in DOMAIN upd : k # label => MapPut(upd, label, val)[k] = upd[k]
          /\ Digest(MapPut(upd, label, val)) = Digest(upd) \cup {<<label, val>>}
        <3> HIDE DEF IInv
        <3> QED  BY <1>e, <1>g, <1>k, <2>1, MapPutFacts
    <2> QED  BY <1>d, <2>2
<1>1. Types'
    BY <1>0, <1>i, <1>j, <1>l, KeyMapType DEF Types, TypeOK
<1>2. PhaseInv'
    BY <1>0 DEF PhaseInv, Types
<1>3. ThreadInv'
    BY <1>0 DEF ThreadInv, PhaseInv
<1>4. QueueInv'
    BY <1>0 DEF QueueInv, Pending
<1>5. BatchInv'
    BY <1>0 DEF BatchInv
<1>6. WorkInv'
    <2>1. \A i \in DOMAIN work : i # idx /\ ~resp[work[i]].err => req[work[i]].uid # uid
        <3>1. \A i \in DOMAIN work : i < idx => i \in 1..(idx - 1)
            BY <1>a DEF Types, TypeOK
        <3>2. \A i \in DOMAIN work : i > idx => idx \in 1..(i - 1)
            BY <1>0, <1>a DEF Types, TypeOK
        <3>3. \A i \in DOMAIN work : i = idx \/ i < idx \/ i > idx
            BY <1>a DEF Types, TypeOK
        <3> QED  BY <1>0, <3>1, <3>2, <3>3 DEF BatchInv, uid
    <2>2. \A i \in DOMAIN work : ~resp[work[i]].err => req[work[i]].uid \in Uid
        <3>1. \A i \in DOMAIN work : work[i] \in Thread /\ req[work[i]].op = "put"
            BY <1>0 DEF QueueInv, Pending, ThreadInv, Types, TypeOK
        <3> QED  BY <3>1, RequestType DEF Types, TypeOK
    <2>3. ASSUME NEW i \in DOMAIN work, i # idx, ~resp[work[i]].err
          PROVE  /\ Prepared(work[i]) => Prepared(work[i])'
                 /\ Applied(work[i], NumEpochs) => Applied(work[i], NumEpochs)'
        <3>1. /\ req[work[i]].uid # uid
              /\ userInfo'[req[work[i]].uid] = userInfo[req[work[i]].uid]
            BY <2>1, <2>2, <2>3, <1>j
        <3>2. Prepared(work[i]) => Prepared(work[i])'
            BY <1>0, <3>1 DEF Prepared, NumEpochs
        <3>3. \A v : CompMapLabel(req[work[i]].uid, v) # label
            BY <3>1, <1>e DEF CompMapLabel
        <3>4. Applied(work[i], NumEpochs) => Applied(work[i], NumEpochs)'
            BY <1>0, <1>i, <3>1, <3>3 DEF Applied, NumEpochs
        <3> QED  BY <3>2, <3>4
    <2>4. Applied(t, NumEpochs)'
        <3>1. CompMapLabel(uid, numVers + 1 - 1) = label
            BY <1>b DEF label
        <3>2. req'[t].uid = uid /\ userInfo'[uid].numVers - 1 = numVers + 1 - 1 /\ numVers + 1 > 0
            BY <1>0, <1>b, <1>j DEF uid
        <3>3. outs0'[t] = outs0[t] /\ req'[t].pk = req[t].pk
            BY <1>0
        <3>4. open = CompCommitOpen(label, req[t].pk) /\ val = CompMapVal(NumEpochs, open)
            BY DEF open, val
        <3>5. NumEpochs' = NumEpochs /\ label \in DOMAIN keyMap' /\ keyMap'[label] = val
            BY <1>0, <1>i DEF NumEpochs
        <3> QED  BY <1>c, <1>j, <3>1, <3>2, <3>3, <3>4, <3>5 DEF Applied
    <2>5. \A i \in DOMAIN work : i # idx => (i >= idx + 1 <=> i >= idx) /\ (i < idx + 1 <=> i < idx)
        BY LoopCounter DEF Types, TypeOK
    <2>6. ~(idx >= idx + 1)
        BY <1>a
    <2>7. NumEpochs' = NumEpochs
        BY <1>0 DEF NumEpochs
    <2>8. ASSUME NEW i \in DOMAIN work, ~resp[work[i]].err
          PROVE  /\ i >= idx + 1 => Prepared(work[i])'
                 /\ i < idx + 1 => Applied(work[i], NumEpochs)'
        <3>1. CASE i = idx
            BY <3>1, <2>4, <2>6, <1>0
        <3>2. CASE i # idx
            BY <3>2, <2>3, <2>5, <2>8, <1>0 DEF WorkInv
        <3> QED  BY <3>1, <3>2
    <2> QED  BY <1>0, <2>7, <2>8 DEF WorkInv
<1>7. MapInv'
    <2>1. idx' # 1 /\ wpc' = "apply"
        BY <1>0 DEF Types, TypeOK
    <2>2. Digest(keyMap') = epochHist[NumEpochs].dig \cup Digest(upd')
        BY <1>i, <1>l DEF MapInv
    <2>3. \A entry \in epochHist[NumEpochs].dig : entry[1] # label
        BY <1>h DEF MapInv, Digest
    <2> QED  BY <1>0, <1>f, <1>g, <1>i, <1>l, <2>1, <2>2, <2>3 DEF MapInv, NumEpochs
<1>8. VersionsInMap'
    <2> DEFINE nv(u) == userInfo'[u].numVers
    <2>1. ASSUME NEW u \in Uid, NEW k \in DOMAIN keyMap', k.uid = u
          PROVE  k.ver < nv(u)
        <3>1. CASE k = label
            BY <2>1, <3>1, <1>b, <1>e, <1>j
        <3>2. CASE k # label
            <4>1. k \in DOMAIN keyMap /\ k.ver < userInfo[u].numVers
                BY <2>1, <3>2, <1>i DEF VersionsInMap
            <4>2. k.ver \in Nat
                BY <4>1, KeyMapType DEF Types, MapLabel
            <4>3. nv(u) = userInfo[u].numVers \/ (userInfo[u].numVers = numVers /\ nv(u) = numVers + 1)
                BY <1>b, <1>j
            <4> QED  BY <4>1, <4>2, <4>3, <1>b
        <3> QED  BY <3>1, <3>2
    <2>2. ASSUME NEW u \in Uid
          PROVE  \A ver \in 0..(nv(u) - 1) : CompMapLabel(u, ver) \in DOMAIN keyMap'
        <3>1. CASE u = uid
            <4>1. \A ver \in 0..numVers : ver = numVers \/ ver \in 0..(numVers - 1)
                BY <1>b
            <4>2. nv(u) - 1 = numVers
                BY <3>1, <1>b, <1>j
            <4>3. HistInMap(uid, numVers)
                BY <1>a, <1>b DEF VersionsInMap
            <4>4. \A ver \in 0..numVers : CompMapLabel(uid, ver) \in DOMAIN keyMap'
                BY <1>i, <4>1, <4>3 DEF HistInMap, label
            <4> QED  BY <3>1, <4>2, <4>4 DEF HistInMap
        <3>2. CASE u # uid
            <4>1. nv(u) = userInfo[u].numVers /\ HistInMap(u, userInfo[u].numVers)
                BY <3>2, <1>j DEF VersionsInMap
            <4> QED  BY <4>1, <1>i DEF HistInMap
        <3> QED  BY <3>1, <3>2
    <2>3. ASSUME NEW u \in Uid, nv(u) > 0
          PROVE  keyMap'[CompMapLabel(u, nv(u) - 1)].commit.val = userInfo'[u].plainPk
        <3>1. CASE u = uid
            <4>1. nv(u) - 1 = numVers
                BY <3>1, <1>b, <1>j
            <4> QED  BY <3>1, <4>1, <1>f, <1>g, <1>i, <1>j DEF label
        <3>2. CASE u # uid
            <4>1. CompMapLabel(u, nv(u) - 1) # label
                BY <3>2, <1>e DEF CompMapLabel
            <4>2. CompMapLabel(u, nv(u) - 1) \in DOMAIN keyMap
                <5>1. nv(u) \in Nat /\ nv(u) - 1 \in 0..(nv(u) - 1)
                    BY <2>3, <1>j
                <5>2. HistInMap(u, nv(u))
                    BY <3>2, <1>j DEF VersionsInMap
                <5> QED  BY <5>1, <5>2 DEF HistInMap
            <4> QED  BY <2>3, <3>2, <4>1, <4>2, <1>i, <1>j DEF VersionsInMap
        <3> QED  BY <3>1, <3>2
    <2> QED  BY <2>1, <2>2, <2>3 DEF VersionsInMap, HistInMap
<1>9. HistReplays'
    BY <1>0 DEF HistReplays, UpdatesThrough, NumEpochs
<1>10. NoPanic' /\ RepliesVerify'
    BY <1>0 DEF NoPanic, RepliesVerify
<1> QED  BY <1>1, <1>2, <1>3, <1>4, <1>5, <1>6, <1>7, <1>8, <1>9, <1>10

\* Signing an epoch extends the history by the digest of the map, which is what
\* the published updates replay to.
LEMMA PublishReplays ==
    ASSUME IInv, WorkerPublish
    PROVE  HistReplays'
<1> DEFINE N == NumEpochs
           info == EpochInfo(N, keyMap, upd)
<1>0. epochHist \in Seq(EpochInfoSet) /\ N \in Nat \ {0} /\ epochHist' = Append(epochHist, info)
    BY DEF IInv, Types, NumEpochs, WorkerPublish, UpdEpochHist
<1>1. /\ NumEpochs' = N + 1
      /\ \A i \in 1..N : epochHist'[i] = epochHist[i]
      /\ epochHist'[N + 1] = info
    <2> HIDE DEF info
    <2> QED  BY <1>0 DEF NumEpochs
<1>2. info.updates = upd /\ info.dig = Digest(keyMap) /\ info.sig = Sign(ServKey, N, Digest(keyMap))
    BY DEF EpochInfo
<1> HIDE DEF info
<1>3. /\ Digest(keyMap) = epochHist[N].dig \cup Digest(upd)
      /\ \A l \in DOMAIN upd : upd[l].epoch = N /\ \A entry \in epochHist[N].dig : entry[1] # l
    BY DEF IInv, MapInv
<1>4. epochHist[N].dig = UNION {Digest(epochHist[i].updates) : i \in 1..N}
    <2>1. N - 1 \in 0..(N - 1) /\ N - 1 + 1 = N
        BY <1>0
    <2> QED  BY <2>1 DEF IInv, HistReplays, UpdatesThrough, NumEpochs
<1>a. N \in Nat \ {0}
    BY <1>0
<1> HIDE DEF N
<1>5. ASSUME NEW e \in 0..(N - 1)
      PROVE  /\ epochHist'[e + 1] = epochHist[e + 1]
             /\ \A i \in 1..(e + 1) : epochHist'[i] = epochHist[i]
    <2>1. e + 1 \in 1..N /\ \A i \in 1..(e + 1) : i \in 1..N
        BY <1>a
    <2> QED  BY <1>1, <2>1
<1>6. ASSUME NEW e \in 0..(N - 1)
      PROVE  /\ epochHist'[e + 1].dig = UNION {Digest(epochHist'[i].updates) : i \in 1..(e + 1)}
             /\ CheckSigDig([epoch |-> e, dig |-> epochHist'[e + 1].dig,
                               sig |-> epochHist'[e + 1].sig], ServKey)
             /\ \A l \in DOMAIN epochHist'[e + 1].updates :
                    /\ epochHist'[e + 1].updates[l].epoch = e
                    /\ \A d \in 0..(e - 1) : l \notin DOMAIN epochHist'[d + 1].updates
    <2>1. /\ epochHist[e + 1].dig = UNION {Digest(epochHist[i].updates) : i \in 1..(e + 1)}
          /\ CheckSigDig([epoch |-> e, dig |-> epochHist[e + 1].dig,
                            sig |-> epochHist[e + 1].sig], ServKey)
          /\ \A l \in DOMAIN epochHist[e + 1].updates :
                /\ epochHist[e + 1].updates[l].epoch = e
                /\ \A d \in 0..(e - 1) : l \notin DOMAIN epochHist[d + 1].updates
        BY DEF IInv, HistReplays, UpdatesThrough, N
    <2>2. \A d \in 0..(e - 1) : epochHist'[d + 1] = epochHist[d + 1]
        <3>1. \A d \in 0..(e - 1) : d + 1 \in 1..N
            BY <1>a
        <3> QED  BY <1>1, <3>1
    <2>3. {Digest(epochHist'[i].updates) : i \in 1..(e + 1)}
            = {Digest(epochHist[i].updates) : i \in 1..(e + 1)}
        BY <1>5
    <2> QED  BY <1>5, <2>1, <2>2, <2>3
<1>7. /\ epochHist'[N + 1].dig = UNION {Digest(epochHist'[i].updates) : i \in 1..(N + 1)}
      /\ CheckSigDig([epoch |-> N, dig |-> epochHist'[N + 1].dig,
                        sig |-> epochHist'[N + 1].sig], ServKey)
      /\ \A l \in DOMAIN epochHist'[N + 1].updates :
            /\ epochHist'[N + 1].updates[l].epoch = N
            /\ \A d \in 0..(N - 1) : l \notin DOMAIN epochHist'[d + 1].updates
    <2>1. \A i \in 1..(N + 1) : i = N + 1 \/ i \in 1..N
        BY <1>a
    <2>2. UNION {Digest(epochHist'[i].updates) : i \in 1..(N + 1)}
            = (UNION {Digest(epochHist[i].updates) : i \in 1..N}) \cup Digest(upd)
        <3>1. N + 1 \in 1..(N + 1) /\ \A i \in 1..N : i \in 1..(N + 1)
            BY <1>a
        <3>2. \A i \in 1..(N + 1) :
                Digest(epochHist'[i].updates) =
                    IF i = N + 1 THEN Digest(upd) ELSE Digest(epochHist[i].updates)
            BY <1>1, <1>2, <2>1
        <3>3. N + 1 \notin 1..N
            BY <1>a
        <3>4. ASSUME NEW x
              PROVE  x \in UNION {Digest(epochHist'[i].updates) : i \in 1..(N + 1)}
                        <=> x \in (UNION {Digest(epochHist[i].updates) : i \in 1..N}) \cup Digest(upd)
            <4>1. x \in UNION {Digest(epochHist'[i].updates) : i \in 1..(N + 1)}
                    <=> \E i \in 1..(N + 1) : x \in Digest(epochHist'[i].updates)
                OBVIOUS
            <4>2. x \in UNION {Digest(epochHist[i].updates) : i \in 1..N}
                    <=> \E i \in 1..N : x \in Digest(epochHist[i].updates)
                OBVIOUS
            <4>3. (\E i \in 1..(N + 1) : x \in Digest(epochHist'[i].updates))
                    <=> (\E i \in 1..N : x \in Digest(epochHist[i].updates)) \/ x \in Digest(upd)
                <5>1. ASSUME NEW i \in 1..(N + 1), x \in Digest(epochHist'[i].updates), x \notin Digest(upd)
                      PROVE  i \in 1..N /\ x \in Digest(epochHist[i].updates)
                    BY <2>1, <3>2, <5>1
                <5>2. ASSUME NEW i \in 1..N, x \in Digest(epochHist[i].updates)
                      PROVE  i \in 1..(N + 1) /\ x \in Digest(epochHist'[i].updates)
                    <6>1. i \in 1..(N + 1) /\ i # N + 1
                        BY <3>1, <3>3
                    <6> QED  BY <6>1, <3>2, <5>2
                <5>3. x \in Digest(upd) => x \in Digest(epochHist'[N + 1].updates)
                    BY <3>1, <3>2
                <5> QED  BY <3>1, <5>1, <5>2, <5>3
            <4> QED  BY <4>1, <4>2, <4>3
        <3> QED  BY <3>4
    <2>3. CheckSigDig([epoch |-> N, dig |-> info.dig, sig |-> info.sig], ServKey)
        BY <1>2 DEF CheckSigDig
    <2>4. ASSUME NEW l \in DOMAIN upd, NEW d \in 0..(N - 1), l \in DOMAIN epochHist'[d + 1].updates
          PROVE  FALSE
        <3>1. d + 1 \in 1..N /\ l \in DOMAIN epochHist[d + 1].updates
            <4>1. d + 1 \in 1..N
                BY <1>a
            <4> QED  BY <1>1, <2>4, <4>1
        <3>2. <<l, epochHist[d + 1].updates[l]>> \in epochHist[N].dig
            BY <3>1, <1>4 DEF Digest
        <3> QED  BY <1>3, <3>2
    <2>5. epochHist'[N + 1].dig = UNION {Digest(epochHist'[i].updates) : i \in 1..(N + 1)}
        <3>1. epochHist'[N + 1].dig = Digest(keyMap)
            BY <1>1, <1>2
        <3>2. Digest(keyMap) = epochHist[N].dig \cup Digest(upd)
            BY <1>3
        <3> DEFINE before == UNION {Digest(epochHist[i].updates) : i \in 1..N}
                   after == UNION {Digest(epochHist'[i].updates) : i \in 1..(N + 1)}
        <3>3. epochHist[N].dig = before
            BY <1>4
        <3>4. after = before \cup Digest(upd)
            BY <2>2
        <3> HIDE DEF before, after
        <3>5. epochHist'[N + 1].dig = after
            BY <3>1, <3>2, <3>3, <3>4
        <3> QED  BY <3>5 DEF after
    <2>6. epochHist'[N + 1].updates = upd
        BY <1>1, <1>2
    <2>7. \A l \in DOMAIN upd : \A d \in 0..(N - 1) : l \notin DOMAIN epochHist'[d + 1].updates
        BY <2>4
    <2> QED  BY <1>1, <1>3, <2>3, <2>5, <2>6, <2>7
<1>8. \A e \in 0..N : e = N \/ e \in 0..(N - 1)
    BY <1>a
<1> QED
    <2>1. (N + 1) - 1 = N
        BY <1>a
    <2> QED  BY <1>1, <1>6, <1>7, <1>8, <2>1 DEF HistReplays, UpdatesThrough

\* The new epoch is signed and everything prepared is applied.
LEMMA WorkerPublishStep ==
    ASSUME IInv, WorkerPublish
    PROVE  IInv'
<1> USE DEF IInv
<1> DEFINE info == EpochInfo(NumEpochs, keyMap, upd)
<1>0. /\ wpc = "apply" /\ idx > Len(work)
      /\ epochHist' = Append(epochHist, info)
      /\ mu' = [mu EXCEPT !.writer = "none"]
      /\ todo' = {t \in Range(work) : ~resp[t].err}
      /\ upd' = EmptyMap
      /\ idx' = 1
      /\ wpc' = "map1"
      /\ UNCHANGED <<keyMap, userInfo, workQ, work, outs0, pc, req, local, resp, panicked>>
    BY DEF WorkerPublish, UpdEpochHist
<1>a. info \in EpochInfoSet
    <2>1. Digest(keyMap) \in DigestSet /\ NumEpochs \in Nat
        BY KeyMapType DEF Types, NumEpochs
    <2> QED  BY <2>1 DEF EpochInfo, EpochInfoSet, Sign, Types
<1>b. info.dig = Digest(keyMap)
    BY DEF EpochInfo
<1> HIDE DEF info
<1>c. /\ epochHist' \in Seq(EpochInfoSet)
      /\ epochHist' # <<>>
      /\ NumEpochs' = NumEpochs + 1
      /\ NumEpochs \in Nat
      /\ epochHist'[NumEpochs'] = info
    BY <1>0, <1>a DEF Types, NumEpochs
<1>d. /\ work \in Seq(Thread) /\ Len(work) > 0
      /\ Range(work) \subseteq Thread
      /\ \A i \in DOMAIN work : i < idx /\ i >= 1 /\ work[i] \in Range(work)
      /\ \A t \in Range(work) : \E i \in DOMAIN work : work[i] = t
    BY <1>0 DEF Types, TypeOK, PhaseInv, Range
<1>1. Types'
    <2>1. todo' \subseteq Thread
        BY <1>0, <1>d
    <2>2. Len(work) \in Nat /\ Len(work) > 0
        BY <1>d
    <2>3. 1 \in 1..(Len(work) + 1) /\ 1 <= Len(work)
        BY <2>2
    <2>4. mu' = [writer |-> "none", readers |-> mu.readers]
        BY <1>0 DEF Types
    <2>5. mu'.writer = "none" /\ mu'.readers = mu.readers
        BY <2>4
    <2>6. upd' \in KeyMapSet
        BY <1>0, EmptyMapFacts
    <2>7. TypeOK'
        BY <1>0, <2>1, <2>3, <2>5 DEF Types, TypeOK
    <2> QED  BY <1>0, <1>c, <2>4, <2>5, <2>6, <2>7 DEF Types
<1>2. PhaseInv'
    BY <1>0, <1>d DEF PhaseInv, Types
<1>3. ThreadInv'
    BY <1>0 DEF ThreadInv, PhaseInv, Types
<1>4. QueueInv'
    BY <1>0 DEF QueueInv, Pending
<1>5. BatchInv'
    BY <1>0 DEF BatchInv
<1>6. WorkInv'
    <2>1. ASSUME NEW t \in todo'
          PROVE  ~resp[t].err /\ Applied(t, NumEpochs)
        BY <1>0, <1>d, <2>1 DEF WorkInv
    <2>2. \A t : Applied(t, NumEpochs) => Applied(t, NumEpochs - 1)'
        <3>1. NumEpochs' - 1 = NumEpochs
            BY <1>c
        <3> QED  BY <1>0, <3>1 DEF Applied
    <2> QED  BY <1>0, <1>d, <2>1, <2>2 DEF WorkInv
<1>7. MapInv'
    BY <1>0, <1>b, <1>c, EmptyMapFacts DEF MapInv
<1>8. VersionsInMap'
    BY <1>0 DEF VersionsInMap, HistInMap
<1>9. HistReplays'
    BY PublishReplays
<1>10. NoPanic' /\ RepliesVerify'
    BY <1>0 DEF NoPanic, RepliesVerify
<1> QED  BY <1>1, <1>2, <1>3, <1>4, <1>5, <1>6, <1>7, <1>8, <1>9, <1>10

\* The reply of Put passes its client's checks.
LEMMA PutReplyVerifies ==
    ASSUME IInv, wpc = "map1", NEW t \in todo,
           NEW r,
           r.dig = GetDig(epochHist),
           r.latest = Memb(outs0[t].latest, NumEpochs - 1, outs0[t].pkOpen,
                           MerkleProof(keyMap, outs0[t].latest)),
           r.bound = NonMemb(outs0[t].bound, MerkleProof(keyMap, outs0[t].bound)),
           outs0[t].bound \notin DOMAIN keyMap
    PROVE  PutVerifies(req[t], r)
<1> DEFINE uid == req[t].uid
           ver == userInfo[uid].numVers - 1
           label == CompMapLabel(uid, ver)
           bound == CompMapLabel(uid, ver + 1)
           out0 == outs0[t]
<1>1. Applied(t, NumEpochs - 1)
    BY DEF IInv, WorkInv
<1>2. t \in Thread /\ uid \in Uid
    <2>1. t \in Thread /\ req[t].op = "put"
        BY DEF IInv, Types, TypeOK, PhaseInv, WorkInv, QueueInv, Pending, ThreadInv, Range
    <2> QED  BY <2>1, RequestType DEF IInv, Types, TypeOK
<1>3. userInfo[uid].numVers \in Nat
    BY <1>2 DEF IInv, Types, TypeOK
<1>4. /\ out0.latest = label /\ out0.bound = bound
      /\ out0.pkOpen = CompCommitOpen(label, req[t].pk)
      /\ label \in DOMAIN keyMap
      /\ keyMap[label] = CompMapVal(NumEpochs - 1, out0.pkOpen)
    <2>1. ver + 1 = userInfo[uid].numVers
        BY <1>3
    <2> QED  BY <1>1, <2>1 DEF Applied
<1>5. Len(epochHist) \in Nat \ {0}
    BY DEF IInv, Types
<1>6. CheckSigDig(r.dig, ServKey) /\ r.dig.epoch = NumEpochs - 1 /\ r.dig.dig = epochHist[NumEpochs].dig
    BY <1>5 DEF IInv, HistReplays, NumEpochs, GetDig, CheckSigDig, Sign
<1>7. r.dig.dig = Digest(keyMap)
    BY <1>6, EmptyMapFacts DEF IInv, MapInv
<1>8. /\ r.latest.labelProof = label
      /\ r.latest.epochAdded = NumEpochs - 1
      /\ r.latest.pkOpen = out0.pkOpen
      /\ r.latest.merkleProof = MerkleProof(keyMap, label)
    BY <1>4 DEF Memb
<1>9. r.bound.labelProof = bound /\ r.bound.merkleProof = MerkleProof(keyMap, bound)
    BY <1>4 DEF NonMemb
<1>10. MerkleVerify(TRUE, label, CompMapVal(NumEpochs - 1, out0.pkOpen),
                    MerkleProof(keyMap, label), r.dig.dig)
    BY <1>4, <1>7, ProofVerifies
<1>11. MerkleVerify(FALSE, bound, NoPk, MerkleProof(keyMap, bound), r.dig.dig)
    BY <1>4, <1>7, ProofVerifies
<1>12. label.ver = ver
    BY DEF CompMapLabel
<1>13. r.latest.pkOpen.val = req[t].pk
    BY <1>4, <1>8 DEF CompCommitOpen
<1> HIDE DEF ver, out0
<1>14. CheckMemb(uid, ver, r.dig.dig, r.latest)
    BY <1>8, <1>10 DEF CheckMemb, CheckLabel
<1>15. CheckNonMemb(uid, ver + 1, r.dig.dig, r.bound)
    BY <1>9, <1>11 DEF CheckNonMemb, CheckLabel
<1> QED  BY <1>6, <1>8, <1>12, <1>13, <1>14, <1>15 DEF PutVerifies

\* mapper1's asserts hold and its reply passes its client's checks.
LEMMA Mapper1Step ==
    ASSUME IInv, NEW t \in Thread, Mapper1(t)
    PROVE  IInv'
<1> USE DEF IInv, lockVars, servVars
<1> DEFINE reply ==
        [err |-> FALSE, dig |-> GetDig(epochHist),
         latest |-> Memb(outs0[t].latest, NumEpochs - 1, outs0[t].pkOpen,
                         MerkleProof(keyMap, outs0[t].latest)),
         bound |-> NonMemb(outs0[t].bound, MerkleProof(keyMap, outs0[t].bound))]
<1>0. /\ wpc = "map1" /\ t \in todo
      /\ todo' = todo \ {t}
      /\ UNCHANGED <<lockVars, servVars, workQ, wpc, work, outs0, upd, idx, pc, req, local>>
    BY DEF Mapper1
<1>a. Applied(t, NumEpochs - 1)
    BY <1>0 DEF WorkInv
<1>b. pc[t] = "do" /\ req[t].op = "put"
    BY <1>0 DEF Types, TypeOK, PhaseInv, WorkInv, QueueInv, Pending, ThreadInv, Range
<1>c. outs0[t].latest \in DOMAIN keyMap /\ outs0[t].bound \notin DOMAIN keyMap
    <2>1. req[t].uid \in Uid
        BY <1>b, RequestType DEF Types, TypeOK
    <2>2. userInfo[req[t].uid].numVers \in Nat
        BY <2>1 DEF Types, TypeOK
    <2> QED  BY <1>a, <2>1, <2>2 DEF Applied, VersionsInMap, CompMapLabel
<1>d. resp' = [resp EXCEPT ![t] = reply] /\ UNCHANGED panicked
    BY <1>c DEF Mapper1
<1>e. PutVerifies(req[t], reply)
    <2>1. /\ reply.dig = GetDig(epochHist)
          /\ reply.latest = Memb(outs0[t].latest, NumEpochs - 1, outs0[t].pkOpen,
                                 MerkleProof(keyMap, outs0[t].latest))
          /\ reply.bound = NonMemb(outs0[t].bound, MerkleProof(keyMap, outs0[t].bound))
        OBVIOUS
    <2> HIDE DEF reply
    <2> QED  BY <1>0, <1>c, <2>1, PutReplyVerifies
<1>f. ~reply.err
    OBVIOUS
<1> HIDE DEF reply
<1>1. Types'
    BY <1>0, <1>d DEF Types, TypeOK
<1>2. PhaseInv'
    BY <1>0 DEF PhaseInv
<1>3. ThreadInv'
    <2>1. \A s \in Thread : s # t => resp'[s] = resp[s]
        BY <1>d DEF Types
    <2> QED  BY <1>0, <1>b, <2>1 DEF ThreadInv
<1>4. QueueInv'
    BY <1>0, QueueFrame
<1>5. BatchInv'
    BY <1>0 DEF BatchInv
<1>6. WorkInv'
    <2>1. resp'[t] = reply /\ \A s \in Thread : s # t => resp'[s] = resp[s]
        BY <1>d DEF Types
    <2>2. \A s \in todo' : s # t /\ s \in todo /\ s \in Thread
        BY <1>0 DEF Types, TypeOK
    <2>3. \A s : Applied(s, NumEpochs - 1) => Applied(s, NumEpochs - 1)'
        BY <1>0 DEF Applied, NumEpochs
    <2>4. ReplyVerifies(req[t], local[t].numVers, reply)
        BY <1>b, <1>e DEF ReplyVerifies
    <2>5. ASSUME NEW i \in DOMAIN work, ~resp'[work[i]].err, i >= idx, work[i] \notin todo'
          PROVE  ReplyVerifies(req[work[i]], local[work[i]].numVers, resp'[work[i]])
        <3>1. CASE work[i] = t
            BY <2>1, <2>4, <3>1
        <3>2. CASE work[i] # t
            <4>1. work[i] \in Thread
                BY DEF Types, TypeOK
            <4>2. resp'[work[i]] = resp[work[i]]
                BY <2>1, <3>2, <4>1
            <4>3. work[i] \notin todo
                BY <1>0, <2>5, <3>2
            <4> QED  BY <1>0, <2>5, <4>2, <4>3 DEF WorkInv
        <3> QED  BY <3>1, <3>2
    <2> QED  BY <1>0, <2>1, <2>2, <2>3, <2>5 DEF WorkInv
<1>7. MapInv' /\ VersionsInMap' /\ HistReplays'
    BY <1>0, ServFrame
<1>8. NoPanic' /\ RepliesVerify'
    BY <1>0, <1>b, <1>d DEF NoPanic, RepliesVerify
<1> QED  BY <1>1, <1>2, <1>3, <1>4, <1>5, <1>6, <1>7, <1>8

\* A caller is woken with the reply made for it.
LEMMA WorkerFinishStep ==
    ASSUME IInv, WorkerFinish
    PROVE  IInv'
<1> USE DEF IInv, lockVars, servVars
<1> DEFINE t == work[idx]
<1>0. /\ wpc = "map1" /\ todo = {}
      /\ pc' = [pc EXCEPT ![work[idx]] = "ret"]
      /\ UNCHANGED <<lockVars, servVars, workQ, todo, upd, req, local, resp, panicked>>
    BY DEF WorkerFinish, Goto
<1>a. \/ idx = Len(work) /\ idx' = 1 /\ wpc' = "get" /\ work' = <<>>
         /\ outs0' = [s \in Thread |-> NoOut]
      \/ idx # Len(work) /\ idx' = idx + 1 /\ UNCHANGED <<wpc, work, outs0>>
    BY DEF WorkerFinish, LastWork
<1>b. /\ work \in Seq(Thread) /\ idx \in DOMAIN work /\ idx \in Nat /\ work[idx] \in Thread
      /\ \A i \in DOMAIN work : i \in Nat
    BY <1>0 DEF Types, TypeOK
<1>c. /\ pc[work[idx]] = "do"
      /\ \A i \in DOMAIN work : i >= idx + 1 => work[i] # work[idx] /\ pc[work[i]] = "do"
      /\ \A j \in DOMAIN workQ : workQ[j] # work[idx]
    BY <1>0, <1>b DEF QueueInv, Pending
<1>d. \A s \in Thread : s # work[idx] => pc'[s] = pc[s]
    BY <1>0 DEF Types, TypeOK
<1>1. Types'
    <2>1. Len(work) \in Nat /\ idx <= Len(work) /\ idx \in Nat
        BY <1>b
    <2>2. CASE wpc' = "get" /\ idx' = 1 /\ work' = <<>> /\ outs0' = [s \in Thread |-> NoOut]
        <3>1. work' \in Seq(Thread) /\ idx' \in 1..(Len(work') + 1)
            BY <2>2
        <3>2. outs0' = [s \in Thread |-> outs0'[s]]
            BY <2>2
        <3> QED  BY <1>0, <2>2, <3>1, <3>2 DEF Types, TypeOK
    <2>3. CASE idx # Len(work) /\ idx' = idx + 1 /\ UNCHANGED <<wpc, work, outs0>>
        <3>1. \A N \in Nat, k \in Nat : k <= N /\ k # N => k + 1 \in 1..(N + 1) /\ k + 1 <= N
            OBVIOUS
        <3>2. idx' \in 1..(Len(work') + 1) /\ idx' <= Len(work')
            BY <2>1, <2>3, <3>1
        <3> QED  BY <1>0, <2>3, <3>2 DEF Types, TypeOK
    <2> QED  BY <1>a, <2>2, <2>3
<1>2. PhaseInv'
    BY <1>0, <1>a, <1>b DEF PhaseInv
<1>3. ThreadInv'
    BY <1>0, <1>d DEF ThreadInv, Types, TypeOK
<1>4. QueueInv'
    <2>1. \A j \in DOMAIN workQ : workQ[j] \in Thread /\ pc'[workQ[j]] = "do"
        BY <1>c, <1>d DEF QueueInv, Types, TypeOK
    <2>2. CASE work' = <<>>
        BY <1>0, <2>1, <2>2 DEF QueueInv, Pending
    <2>3. CASE idx' = idx + 1 /\ UNCHANGED <<wpc, work, outs0>>
        <3>1. \A i \in DOMAIN work : i >= idx + 1 => i >= idx /\ pc'[work[i]] = "do"
            BY <1>b, <1>c, <1>d
        <3> QED  BY <1>0, <2>1, <2>3, <3>1 DEF QueueInv, Pending
    <2> QED  BY <1>a, <2>2, <2>3
<1>5. BatchInv'
    BY <1>0, <1>a DEF BatchInv
<1>6. WorkInv'
    <2>1. CASE wpc' = "get" /\ work' = <<>>
        BY <1>0, <2>1 DEF WorkInv
    <2>2. CASE idx' = idx + 1 /\ UNCHANGED <<wpc, work, outs0>>
        <3>1. \A i \in DOMAIN work : i >= idx + 1 => i >= idx
            BY <1>b
        <3> QED  BY <1>0, <2>2, <3>1 DEF WorkInv
    <2> QED  BY <1>a, <2>1, <2>2
<1>7. MapInv' /\ VersionsInMap' /\ HistReplays'
    BY <1>0, <1>a DEF MapInv, VersionsInMap, HistReplays, HistInMap, UpdatesThrough, NumEpochs
<1>8. NoPanic' /\ RepliesVerify'
    <2>1. ~resp[work[idx]].err =>
            ReplyVerifies(req[work[idx]], local[work[idx]].numVers, resp[work[idx]])
        BY <1>0, <1>b DEF WorkInv
    <2> QED  BY <1>0, <1>d, <2>1 DEF NoPanic, RepliesVerify
<1> QED  BY <1>1, <1>2, <1>3, <1>4, <1>5, <1>6, <1>7, <1>8

-----------------------------------------------------------------------------
(* The theorems. *)

\* NewServer establishes the invariant: the empty tree is signed as epoch 0.
LEMMA InitInv == Init => IInv
<1> SUFFICES ASSUME Init PROVE IInv
    OBVIOUS
<1> DEFINE info == EpochInfo(0, EmptyMap, EmptyMap)
<1>0. epochHist = <<info>> /\ work = <<>> /\ workQ = <<>> /\ wpc = "get" /\ idx = 1
    BY DEF Init
<1>1. info.updates = EmptyMap /\ info.dig = {} /\ info.sig = Sign(ServKey, 0, {})
    BY EmptyMapFacts DEF EpochInfo
<1>2. info \in EpochInfoSet
    <2>1. {} \in DigestSet /\ EmptyMap \in KeyMapSet
        BY EmptyMapFacts DEF DigestSet
    <2> QED  BY <2>1, EmptyMapFacts DEF EpochInfo, EpochInfoSet, Sign
<1> HIDE DEF info
<1>3. NumEpochs = 1 /\ epochHist[1] = info
    BY <1>0 DEF NumEpochs
<1>4. Types
    <2>1. TypeOK
        <3>1. DOMAIN keyMap = {}
            BY EmptyMapFacts DEF Init
        <3>2. userInfo \in [Uid -> [numVers : Nat, plainPk : Pk \cup {NoPk}]]
            BY DEF Init
        <3>3. local \in [Thread -> [numVers : Nat, plainPk : Pk \cup {NoPk}]]
            BY DEF Init, NoLocal
        <3>4. req \in [Thread -> Requests \cup {NoReq}]
            BY DEF Init
        <3>5. workQ \in Seq(Thread) /\ work \in Seq(Thread) /\ idx \in 1..(Len(work) + 1)
            BY <1>0
        <3> QED  BY <3>1, <3>2, <3>3, <3>4, <3>5 DEF Init, TypeOK
    <2>2. mu = [writer |-> mu.writer, readers |-> mu.readers]
        BY DEF Init
    <2>3. keyMap \in KeyMapSet /\ upd \in KeyMapSet
        BY EmptyMapFacts DEF Init
    <2>4. epochHist \in Seq(EpochInfoSet) /\ epochHist # <<>>
        BY <1>0, <1>2
    <2>5. resp = [t \in Thread |-> resp[t]] /\ outs0 = [t \in Thread |-> outs0[t]]
        BY DEF Init
    <2> QED  BY <2>1, <2>2, <2>3, <2>4, <2>5 DEF Types
<1>5. PhaseInv /\ ThreadInv /\ QueueInv /\ BatchInv
    BY DEF Init, PhaseInv, ThreadInv, QueueInv, BatchInv, Pending
<1>6. WorkInv
    BY DEF Init, WorkInv
<1>7. MapInv
    <2>1. keyMap = EmptyMap /\ upd = EmptyMap
        BY DEF Init
    <2> QED  BY <1>1, <1>3, <2>1, EmptyMapFacts DEF MapInv
<1>8. VersionsInMap
    <2>1. keyMap = EmptyMap /\ \A u \in Uid : userInfo[u].numVers = 0
        BY DEF Init
    <2> QED  BY <2>1, EmptyMapFacts DEF VersionsInMap, HistInMap
<1>9. HistReplays
    <2>1. \A e \in 0..(NumEpochs - 1) : e = 0
        BY <1>3
    <2>2. UpdatesThrough(0) = {}
        <3>1. \A i \in 1..(0 + 1) : epochHist[i].updates = EmptyMap
            BY <1>1, <1>3
        <3> QED  BY <3>1, EmptyMapFacts DEF UpdatesThrough
    <2>3. CheckSigDig([epoch |-> 0, dig |-> info.dig, sig |-> info.sig], ServKey)
        BY <1>1 DEF CheckSigDig
    <2>4. epochHist[0 + 1] = info
        BY <1>3
    <2> QED  BY <1>1, <2>1, <2>2, <2>3, <2>4, EmptyMapFacts DEF HistReplays
<1>10. NoPanic /\ RepliesVerify
    BY DEF Init, NoPanic, RepliesVerify
<1> QED  BY <1>4, <1>5, <1>6, <1>7, <1>8, <1>9, <1>10 DEF IInv

\* A step that changes no variable keeps the invariant.
LEMMA StutterInv ==
    ASSUME IInv, UNCHANGED vars
    PROVE  IInv'
<1> USE DEF vars
<1>1. Types' /\ PhaseInv' /\ ThreadInv'
    BY DEF IInv, Types, TypeOK, PhaseInv, ThreadInv
<1>2. QueueInv' /\ BatchInv'
    BY DEF IInv, QueueInv, Pending, BatchInv
<1>3. WorkInv'
    BY DEF IInv, WorkInv, Prepared, Applied, NumEpochs
<1>4. MapInv' /\ VersionsInMap' /\ HistReplays'
    BY ServFrame DEF servVars
<1>5. NoPanic' /\ RepliesVerify'
    BY DEF IInv, NoPanic, RepliesVerify
<1> QED  BY <1>1, <1>2, <1>3, <1>4, <1>5 DEF IInv

\* Every step of the server keeps the invariant.
LEMMA NextInv == IInv /\ [Next]_vars => IInv'
<1> SUFFICES ASSUME IInv, [Next]_vars PROVE IInv'
    OBVIOUS
<1>1. CASE WorkerGet
    BY <1>1, WorkerGetStep
<1>2. ASSUME NEW t \in Thread, Mapper0(t) PROVE IInv'
    BY <1>2, Mapper0Step
<1>3. CASE WorkerWaitLock
    BY <1>3, WorkerWaitLockStep
<1>4. CASE WorkerLock
    BY <1>4, WorkerLockStep
<1>5. CASE WorkerApply
    <2>1. CASE resp[work[idx]].err
        BY <1>5, <2>1, WorkerSkipStep
    <2>2. CASE ~resp[work[idx]].err
        BY <1>5, <2>2, WorkerApplyStep
    <2> QED  BY <2>1, <2>2
<1>6. CASE WorkerPublish
    BY <1>6, WorkerPublishStep
<1>7. ASSUME NEW t \in Thread, Mapper1(t) PROVE IInv'
    BY <1>7, Mapper1Step
<1>8. CASE WorkerFinish
    BY <1>8, WorkerFinishStep
<1>9. CASE Worker
    BY <1>1, <1>2, <1>3, <1>4, <1>5, <1>6, <1>7, <1>8, <1>9 DEF Worker
<1>10. ASSUME NEW t \in Thread, CallPut(t) \/ CallRead(t) PROVE IInv'
    BY <1>10, CallPutStep, CallReadStep
<1>11. ASSUME NEW t \in Thread, Serve(t) PROVE IInv'
    BY <1>11, ReadUserStep, GetStep, SelfMonStep, AuditLockStep, AuditStep, ReturnStep DEF Serve
<1>12. CASE UNCHANGED vars
    BY <1>12, StutterInv
<1> QED  BY <1>9, <1>10, <1>11, <1>12 DEF Next

\* The inductive invariant holds in every reachable state of the server.
THEOREM Invariance == Spec => []IInv
BY InitInv, NextInv, PTL DEF Spec

\* Type correctness of the server, for any numbers of threads, users and keys.
THEOREM TypeCorrect == Spec => []TypeOK
BY Invariance, PTL DEF IInv, Types

\* No std.Assert of getHist, getLatest, getBound or mapper1 fails, however
\* readers and the Worker interleave.
THEOREM NeverPanics == Spec => []NoPanic
BY Invariance, PTL DEF IInv

\* numVers is authoritative: the map has exactly the versions below it, also
\* between two iterations of the loop that applies a batch.
THEOREM VersionsAreInMap == Spec => []VersionsInMap
BY Invariance, PTL DEF IInv

\* An auditor that replays the published updates gets every signed digest; no
\* epoch repeats a label of an earlier one.
THEOREM HistoryReplays == Spec => []HistReplays
BY Invariance, PTL DEF IInv

\* An honest server is never accused: every reply of Put, Get and SelfMon passes
\* all the checks of its client.
THEOREM EveryReplyVerifies == Spec => []RepliesVerify
BY Invariance, PTL DEF IInv

-----------------------------------------------------------------------------
(* The server is linearizable: Server implements KeyDir.  A batch of Puts
   takes effect when the Worker signs its epoch, a read when it leaves the
   read lock, and every other step changes nothing that callers can see.
   The directory is read off the last signed digest.  What its versions are
   while the map is ahead of that digest, and what the waiting callers will
   be told, is what SimInv adds to the invariant. *)


\* What the batch has added so far are the labels of its works that are done.
AddedInv ==
    wpc = "apply" =>
        \A l \in DOMAIN upd : \E i \in DOMAIN work :
            i < idx /\ ~resp[work[i]].err /\ outs0[work[i]].latest = l

\* A Put is refused for another of its user's in the batch that is not.
RefusedInv ==
    wpc \in {"map0", "lock", "apply"} =>
        \A i \in DOMAIN work : resp[work[i]].err =>
            \E j \in DOMAIN work :
                ~resp[work[j]].err /\ req[work[j]].uid = req[work[i]].uid

\* mapper1 answers with the epoch just signed and the label that mapper0 made.
AnswerInv ==
    wpc = "map1" => \A i \in DOMAIN work :
        i >= idx /\ ~resp[work[i]].err /\ work[i] \notin todo =>
            /\ resp[work[i]].dig.epoch = NumEpochs - 1
            /\ resp[work[i]].latest.labelProof = outs0[work[i]].latest

SimInv == IInv /\ AddedInv /\ RefusedInv /\ AnswerInv
-----------------------------------------------------------------------------
(* Numbers, and the versions in a digest. *)

\* A set of numbers that is not empty has a least one.
LEMMA LeastNumber ==
    ASSUME NEW S \in SUBSET Nat, S # {}
    PROVE  \E m \in S : \A n \in S : m <= n
<1>1. PICK R : /\ IsWellFoundedOn(R, Nat)
               /\ \A m, n \in Nat : m < n => <<m, n>> \in R
  <2> DEFINE Less == OpToRel(<, Nat)
  <2>1. IsWellFoundedOn(Less, Nat)
    BY NatLessThanWellFounded
  <2>2. \A m, n \in Nat : m < n => <<m, n>> \in Less
    BY DEF OpToRel
  <2> QED
    BY <2>1, <2>2, Zenon
<1>2. S \subseteq Nat
  OBVIOUS
<1>3. PICK m \in S : \A n \in S : ~(<<n, m>> \in R)
  <2>1. IsWellFoundedOn(R, Nat)
    BY <1>1
  <2> QED
    BY <1>2, <2>1, WFMin, Zenon
<1>4. \A n \in S : ~(n < m)
  BY <1>1, <1>2, <1>3, Zenon
<1> QED
  BY <1>2, <1>4

\* The first n versions of a user, as the directory has them.
VersionsOf(km, u, n) ==
    [i \in 1..n |-> [epoch |-> km[CompMapLabel(u, i - 1)].epoch,
                     pk |-> km[CompMapLabel(u, i - 1)].commit.val]]

\* They are what the digest of a map says that has these versions and no other.
LEMMA VersionsInDigest ==
    ASSUME NEW km \in KeyMapSet, NEW u \in Uid, NEW n \in Nat,
           \A l \in DOMAIN km : l.uid = u => l.ver < n,
           \A ver \in 0..(n - 1) : CompMapLabel(u, ver) \in DOMAIN km
    PROVE  VersionsIn(Digest(km), u) = VersionsOf(km, u, n)
<1> DEFINE mine == {entry \in Digest(km) : entry[1].uid = u}
           f == [i \in 1..n |-> <<CompMapLabel(u, i - 1), km[CompMapLabel(u, i - 1)]>>]
<1>1. \A l \in DOMAIN km : l \in MapLabel
  BY KeyMapType
<1>2. ASSUME NEW entry \in mine
      PROVE  \E i \in 1..n : entry = f[i] /\ entry[1].ver = i - 1
  <2>1. PICK l \in DOMAIN km : entry = <<l, km[l]>> /\ l.uid = u
    BY DEF Digest
  <2>2. l.ver \in 0..(n - 1) /\ l.ver + 1 \in 1..n /\ l.ver + 1 - 1 = l.ver
    BY <1>1, <2>1 DEF MapLabel
  <2>3. l = CompMapLabel(u, l.ver)
    BY <1>1, <2>1 DEF MapLabel, CompMapLabel
  <2>4. f[l.ver + 1] = <<CompMapLabel(u, l.ver), km[CompMapLabel(u, l.ver)]>>
    BY <2>2
  <2> QED
    BY <2>1, <2>2, <2>3, <2>4
<1>3. ASSUME NEW i \in 1..n
      PROVE  f[i] \in mine /\ f[i][1].ver = i - 1
  <2>1. CompMapLabel(u, i - 1) \in DOMAIN km
    BY DEF CompMapLabel
  <2> QED
    BY <2>1 DEF Digest, CompMapLabel
<1>4. f \in Bijection(1..n, mine)
  <2> HIDE DEF mine
  <2>1. f \in [1..n -> mine]
    BY <1>3
  <2>2. \A i, j \in 1..n : f[i] = f[j] => i = j
    BY DEF CompMapLabel
  <2> HIDE DEF f
  <2> QED
    BY <1>2, <2>1, <2>2 DEF Bijection, Injection, Surjection, IsInjective
<1>5. Cardinality(mine) = n
  <2> HIDE DEF f, mine
  <2> QED
    BY <1>4, FS_CountingElements DEF ExistsBijection
<1>6. ASSUME NEW i \in 1..n
      PROVE  (CHOOSE entry \in mine : entry[1].ver = i - 1) = f[i]
  <2> HIDE DEF f, mine
  <2>1. \A j \in 1..n : f[j][1].ver = i - 1 => j = i
    BY <1>3
  <2>2. \A entry \in mine : entry[1].ver = i - 1 => entry = f[i]
    BY <1>2, <2>1
  <2> QED
    BY <1>3, <2>2
<1>7. VersionsIn(Digest(km), u) =
        [i \in 1..n |-> [epoch |-> f[i][2].epoch, pk |-> f[i][2].commit.val]]
  <2>1. VersionsIn(Digest(km), u) =
          [i \in 1..Cardinality(mine) |->
              [epoch |-> (CHOOSE entry \in mine : entry[1].ver = i - 1)[2].epoch,
               pk |-> (CHOOSE entry \in mine : entry[1].ver = i - 1)[2].commit.val]]
    BY DEF VersionsIn
  <2> HIDE DEF f, mine
  <2> QED
    BY <1>5, <1>6, <2>1
<1> QED
  BY <1>7 DEF VersionsOf
-----------------------------------------------------------------------------
(* The invariant holds. *)

\* The works of the batch are threads, and those not finished wait for the Worker.
LEMMA Works ==
    ASSUME IInv
    PROVE  /\ \A i \in DOMAIN work : work[i] \in Thread /\ i \in 1..Len(work)
           /\ \A i \in DOMAIN work : Pending(i) =>
                pc[work[i]] = "do" /\ req[work[i]].op = "put"
           /\ wpc # "map1" => \A i \in DOMAIN work : Pending(i)
           /\ idx \in Nat /\ Len(work) \in Nat /\ DOMAIN work = 1..Len(work)
           /\ NumEpochs \in Nat \ {0}
<1>1. /\ \A i \in DOMAIN work : work[i] \in Thread /\ i \in 1..Len(work)
      /\ idx \in Nat /\ Len(work) \in Nat /\ DOMAIN work = 1..Len(work)
  BY DEF IInv, Types, TypeOK
<1>2. \A i \in DOMAIN work : Pending(i) => pc[work[i]] = "do" /\ req[work[i]].op = "put"
  BY <1>1 DEF IInv, QueueInv, ThreadInv
<1>3. NumEpochs \in Nat \ {0}
  BY DEF IInv, Types, NumEpochs
<1> QED
  BY <1>1, <1>2, <1>3 DEF Pending

\* A thread's step leaves the Worker, what it works on and other threads alone.
LEMMA ThreadFrame ==
    ASSUME IInv, NEW t \in Thread, CallPut(t) \/ CallRead(t) \/ Serve(t)
    PROVE  /\ UNCHANGED <<servVars, workerVars>>
           /\ pc[t] # "do"
           /\ \A s \in Thread : s # t => pc'[s] = pc[s] /\ req'[s] = req[s] /\ resp'[s] = resp[s]
           /\ \A i \in DOMAIN work : Pending(i) =>
                /\ work[i] # t
                /\ resp'[work[i]] = resp[work[i]] /\ req'[work[i]] = req[work[i]]
<1>1. UNCHANGED <<servVars, workerVars>> /\ pc[t] # "do"
  BY DEF CallPut, CallRead, Serve, ReadUser, Get, SelfMon, AuditLock, Audit, Return
<1>2. /\ pc = [s \in Thread |-> pc[s]] /\ req = [s \in Thread |-> req[s]]
      /\ resp = [s \in Thread |-> resp[s]]
  BY DEF IInv, Types, TypeOK
<1>3. \A s \in Thread : s # t => pc'[s] = pc[s] /\ req'[s] = req[s] /\ resp'[s] = resp[s]
  BY <1>2 DEF CallPut, CallRead, Serve, ReadUser, Get, SelfMon, AuditLock, Audit, Return, Goto
<1>4. \A i \in DOMAIN work : Pending(i) => work[i] # t /\ work[i] \in Thread
  BY <1>1, Works
<1> QED
  BY <1>1, <1>3, <1>4

\* The labels that are added are those of works that are done.
LEMMA AddedStep ==
    ASSUME IInv, AddedInv, [Next]_vars
    PROVE  AddedInv'
<1>1. CASE WorkerApply
  <2> DEFINE t == work[idx]
  <2>1. /\ wpc = "apply" /\ idx \in DOMAIN work /\ idx' = idx + 1
        /\ UNCHANGED <<wpc, work, outs0, resp>>
    BY <1>1 DEF WorkerApply
  <2>2. \A i \in DOMAIN work : i < idx => i < idx + 1
    BY Works
  <2>3. CASE resp[t].err
    <3>1. upd' = upd
      BY <1>1, <2>3 DEF WorkerApply
    <3> QED
      BY <2>1, <2>2, <3>1 DEF AddedInv
  <2>4. CASE ~resp[t].err
    <3>1. \A l \in DOMAIN upd' : l \in DOMAIN upd \/ l = outs0[t].latest
      BY <1>1, <2>4 DEF WorkerApply, MapPut
    <3>2. idx < idx + 1
      BY Works
    <3> QED
      BY <2>1, <2>2, <2>4, <3>1, <3>2 DEF AddedInv
  <2> QED
    BY <2>3, <2>4
<1>2. CASE WorkerLock
  <2>1. upd' = EmptyMap
    BY <1>2 DEF IInv, MapInv, WorkerLock
  <2> QED
    BY <2>1, EmptyMapFacts DEF AddedInv
<1>3. CASE \/ WorkerGet \/ WorkerWaitLock \/ WorkerPublish \/ WorkerFinish
           \/ \E t \in Thread : Mapper0(t) \/ Mapper1(t)
  <2>1. wpc' # "apply"
    BY <1>3 DEF WorkerGet, WorkerWaitLock, WorkerPublish, WorkerFinish, Mapper0, Mapper1
  <2> QED
    BY <2>1 DEF AddedInv
<1>4. ASSUME NEW t \in Thread, CallPut(t) \/ CallRead(t) \/ Serve(t)
      PROVE  AddedInv'
  BY <1>4, ThreadFrame, Works DEF AddedInv, workerVars
<1>5. CASE UNCHANGED vars
  BY <1>5 DEF AddedInv, vars
<1> QED
  BY <1>1, <1>2, <1>3, <1>4, <1>5 DEF Next, Worker

\* Among the Puts of a user the first in the queue goes on.
LEMMA RefusedStep ==
    ASSUME IInv, RefusedInv, [Next]_vars
    PROVE  RefusedInv'
<1>1. CASE WorkerGet
  <2> DEFINE dups == {workQ[i] : i \in {j \in DOMAIN workQ : IsDup(workQ, j)}}
  <2>1. /\ work' = workQ /\ UNCHANGED req
        /\ \A s \in Range(workQ) : s \in Thread =>
            resp'[s] = IF s \in dups THEN ErrResp ELSE NoResp
    BY <1>1 DEF WorkerGet
  <2>2. \A i \in DOMAIN workQ : workQ[i] \in Range(workQ) /\ workQ[i] \in Thread
    BY DEF IInv, Types, TypeOK, Range
  <2>3. \A i, j \in DOMAIN workQ : workQ[i] = workQ[j] => i = j
    BY DEF IInv, QueueInv
  <2>4. DOMAIN workQ = 1..Len(workQ) /\ Len(workQ) \in Nat
    BY DEF IInv, Types, TypeOK
  <2>5. ASSUME NEW i \in DOMAIN workQ
        PROVE  \E m \in DOMAIN workQ :
                    workQ[m] \notin dups /\ req[workQ[m]].uid = req[workQ[i]].uid
    <3> DEFINE same == {j \in DOMAIN workQ : req[workQ[j]].uid = req[workQ[i]].uid}
    <3>1. same \in SUBSET Nat /\ same # {}
      BY <2>4
    <3>2. PICK m \in same : \A n \in same : m <= n
      <4> HIDE DEF same
      <4> QED
        BY <3>1, LeastNumber
    <3>3. \A j \in 1..(m - 1) : j \in DOMAIN workQ /\ ~(m <= j)
      BY <2>4
    <3>4. ~IsDup(workQ, m)
      BY <3>2, <3>3 DEF IsDup
    <3>5. workQ[m] \notin dups
      BY <2>3, <3>4
    <3> QED
      BY <3>5
  <2>6. \A s : s \notin dups => ~(IF s \in dups THEN ErrResp ELSE NoResp).err
    BY DEF NoResp
  <2> HIDE DEF dups
  <2> QED
    BY <2>1, <2>2, <2>5, <2>6 DEF RefusedInv
<1>2. CASE WorkerWaitLock \/ WorkerLock \/ WorkerApply \/ \E t \in Thread : Mapper0(t)
  <2>1. UNCHANGED <<work, req, resp>> /\ wpc \in {"map0", "lock", "apply"}
    BY <1>2 DEF WorkerWaitLock, WorkerLock, WorkerApply, Mapper0
  <2> QED
    BY <2>1 DEF RefusedInv
<1>3. CASE WorkerPublish \/ WorkerFinish \/ \E t \in Thread : Mapper1(t)
  <2>1. wpc' \notin {"map0", "lock", "apply"}
    BY <1>3 DEF WorkerPublish, WorkerFinish, Mapper1
  <2> QED
    BY <2>1 DEF RefusedInv
<1>4. ASSUME NEW t \in Thread, CallPut(t) \/ CallRead(t) \/ Serve(t)
      PROVE  RefusedInv'
  BY <1>4, ThreadFrame, Works DEF RefusedInv, workerVars
<1>5. CASE UNCHANGED vars
  BY <1>5 DEF RefusedInv, vars
<1> QED
  BY <1>1, <1>2, <1>3, <1>4, <1>5 DEF Next, Worker

\* The reply of mapper1 is about the epoch and the label of the Put.
LEMMA AnswerStep ==
    ASSUME IInv, AnswerInv, [Next]_vars, IInv'
    PROVE  AnswerInv'
<1>1. CASE WorkerPublish
  <2>1. /\ todo' = {t \in Range(work) : ~resp[t].err} /\ UNCHANGED <<work, resp>>
        /\ \A i \in DOMAIN work : work[i] \in Range(work)
    BY <1>1 DEF WorkerPublish, Range
  <2> QED
    BY <2>1 DEF AnswerInv
<1>2. ASSUME NEW t \in Thread, Mapper1(t)
      PROVE  AnswerInv'
  <2>1. /\ wpc = "map1" /\ todo' = todo \ {t}
        /\ UNCHANGED <<epochHist, wpc, work, idx, outs0>>
    BY <1>2 DEF Mapper1, servVars
  <2>2. outs0[t].latest \in DOMAIN keyMap /\ outs0[t].bound \notin DOMAIN keyMap
    BY <1>2 DEF Mapper1, IInv, NoPanic
  <2>3. \E label, open, proof, bound :
            resp' = [resp EXCEPT ![t] =
                [err |-> FALSE, dig |-> GetDig(epochHist),
                 latest |-> Memb(label, NumEpochs - 1, open, proof), bound |-> bound]]
            /\ label = outs0[t].latest
    BY <1>2, <2>2 DEF Mapper1
  <2>4. /\ resp'[t].dig.epoch = NumEpochs - 1
        /\ resp'[t].latest.labelProof = outs0[t].latest
        /\ \A s \in Thread : s # t => resp'[s] = resp[s]
    BY <2>3 DEF Memb, GetDig, NumEpochs, IInv, Types
  <2> QED
    BY <2>1, <2>4, Works DEF AnswerInv, NumEpochs
<1>3. CASE WorkerFinish
  <2>1. wpc' = "map1" => idx' = idx + 1 /\ UNCHANGED <<wpc, work, outs0, todo, resp, epochHist>>
    BY <1>3 DEF WorkerFinish, servVars
  <2>2. \A i \in DOMAIN work : i >= idx + 1 => i >= idx
    BY Works
  <2> QED
    BY <2>1, <2>2 DEF AnswerInv, NumEpochs
<1>4. CASE \/ WorkerGet \/ WorkerWaitLock \/ WorkerLock \/ WorkerApply
           \/ \E t \in Thread : Mapper0(t)
  <2>1. wpc' # "map1"
    BY <1>4 DEF WorkerGet, WorkerWaitLock, WorkerLock, WorkerApply, Mapper0
  <2> QED
    BY <2>1 DEF AnswerInv
<1>5. ASSUME NEW t \in Thread, CallPut(t) \/ CallRead(t) \/ Serve(t)
      PROVE  AnswerInv'
  BY <1>5, ThreadFrame DEF AnswerInv, Pending, workerVars, servVars, NumEpochs
<1>6. CASE UNCHANGED vars
  BY <1>6 DEF AnswerInv, vars, NumEpochs
<1> QED
  BY <1>1, <1>2, <1>3, <1>4, <1>5, <1>6 DEF Next, Worker

\* SimInv holds of every reachable state.
LEMMA SimInvariance == Spec => []SimInv
<1>1. Init => SimInv
  BY InitInv DEF Init, SimInv, AddedInv, RefusedInv, AnswerInv
<1>2. SimInv /\ [Next]_vars => SimInv'
  BY NextInv, AddedStep, RefusedStep, AnswerStep DEF SimInv
<1> QED
  BY <1>1, <1>2, PTL DEF Spec
-----------------------------------------------------------------------------
(* The directory that the last signed digest commits to. *)

\* A user's versions in the map, counted by numVers.
LEMMA UserVersions ==
    ASSUME IInv, NEW u \in Uid
    PROVE  /\ userInfo[u].numVers \in Nat
           /\ \A l \in DOMAIN keyMap : l \in MapLabel /\ (l.uid = u => l.ver < userInfo[u].numVers)
           /\ \A ver \in 0..(userInfo[u].numVers - 1) : CompMapLabel(u, ver) \in DOMAIN keyMap
           /\ keyMap \in KeyMapSet
<1>1. keyMap \in KeyMapSet /\ userInfo[u].numVers \in Nat
  BY DEF IInv, Types, TypeOK
<1>2. \A l \in DOMAIN keyMap : l \in MapLabel
  BY <1>1, KeyMapType
<1> QED
  BY <1>1, <1>2 DEF IInv, VersionsInMap, HistInMap

\* Unless a batch is being applied, it has the versions that the server has.
LEMMA VersionsNow ==
    ASSUME IInv, wpc # "apply", NEW u \in Uid
    PROVE  /\ epochHist[NumEpochs].dig = Digest(keyMap)
           /\ VersionsIn(epochHist[NumEpochs].dig, u) = VersionsOf(keyMap, u, userInfo[u].numVers)
<1>1. epochHist[NumEpochs].dig = Digest(keyMap)
  BY EmptyMapFacts DEF IInv, MapInv
<1> QED
  BY <1>1, UserVersions, VersionsInDigest

\* What an epoch added to the digests has that epoch.
LEMMA Published ==
    ASSUME IInv
    PROVE  /\ \A entry \in epochHist[NumEpochs].dig :
                \E e \in 0..(NumEpochs - 1) :
                    entry \in Digest(epochHist[e + 1].updates) /\ entry[2].epoch = e
           /\ \A e \in 0..(NumEpochs - 1) :
                /\ Digest(epochHist[e + 1].updates) \subseteq epochHist[NumEpochs].dig
                /\ \A l \in DOMAIN epochHist[e + 1].updates :
                        epochHist[e + 1].updates[l].epoch = e
<1>1. NumEpochs \in Nat \ {0}
  BY Works
<1>2. \A e \in 0..(NumEpochs - 1) :
          /\ epochHist[e + 1].dig = UpdatesThrough(e)
          /\ \A l \in DOMAIN epochHist[e + 1].updates : epochHist[e + 1].updates[l].epoch = e
  BY DEF IInv, HistReplays
<1>3. NumEpochs - 1 \in 0..(NumEpochs - 1) /\ NumEpochs - 1 + 1 = NumEpochs
  BY <1>1
<1>4. epochHist[NumEpochs].dig = UNION {Digest(epochHist[i].updates) : i \in 1..NumEpochs}
  BY <1>2, <1>3 DEF UpdatesThrough
<1>5. \A i \in 1..NumEpochs : i - 1 \in 0..(NumEpochs - 1) /\ i - 1 + 1 = i
  BY <1>1
<1>6. \A e \in 0..(NumEpochs - 1) : e + 1 \in 1..NumEpochs
  BY <1>1
<1>7. ASSUME NEW entry \in epochHist[NumEpochs].dig
      PROVE  \E e \in 0..(NumEpochs - 1) :
                entry \in Digest(epochHist[e + 1].updates) /\ entry[2].epoch = e
  <2>1. PICK i \in 1..NumEpochs : entry \in Digest(epochHist[i].updates)
    BY <1>4
  <2>2. PICK l \in DOMAIN epochHist[i].updates : entry = <<l, epochHist[i].updates[l]>>
    BY <2>1 DEF Digest
  <2>3. PICK e \in 0..(NumEpochs - 1) : e = i - 1 /\ e + 1 = i
    BY <1>5
  <2>4. epochHist[i].updates[l].epoch = e
    BY <1>2, <2>3
  <2> QED
    BY <2>1, <2>2, <2>3, <2>4
<1> QED
  BY <1>2, <1>4, <1>6, <1>7

\* The works that go on when the batch is signed, and those that do not.
Batch == {t \in Range(work) : ~resp[t].err}
BatchRefused == {t \in Range(work) : resp[t].err}

\* When a batch has been applied, each of its works has added one version of
\* its user, which the last digest does not have yet.
LEMMA BatchApplied ==
    ASSUME SimInv, wpc = "apply", idx > Len(work)
    PROVE  /\ \A t \in Batch :
                /\ t \in Thread /\ req[t].op = "put" /\ req[t].uid \in Uid
                /\ Applied(t, NumEpochs)
                /\ outs0[t].latest \in DOMAIN upd
           /\ \A l \in DOMAIN upd : \E t \in Batch : outs0[t].latest = l
<1>1. ASSUME NEW t \in Batch
      PROVE  /\ t \in Thread /\ req[t].op = "put" /\ req[t].uid \in Uid
             /\ Applied(t, NumEpochs)
             /\ outs0[t].latest \in DOMAIN upd
  <2>1. PICK i \in DOMAIN work : t = work[i] /\ ~resp[work[i]].err
    BY DEF Batch, Range
  <2>2. i < idx
    BY Works DEF SimInv
  <2>3. t \in Thread /\ req[t].op = "put" /\ Applied(t, NumEpochs)
    BY <2>1, <2>2, Works DEF SimInv, IInv, WorkInv
  <2>4. req[t].uid \in Uid
    BY <2>3, RequestType DEF SimInv, IInv, Types, TypeOK
  <2> DEFINE l == outs0[t].latest
  <2>5. l \in DOMAIN keyMap /\ keyMap[l].epoch = NumEpochs
    BY <2>3 DEF Applied, CompMapVal
  <2> HIDE DEF l
  <2>6. <<l, keyMap[l]>> \in epochHist[NumEpochs].dig \/ <<l, keyMap[l]>> \in Digest(upd)
    BY <2>5 DEF SimInv, IInv, MapInv, Digest
  <2>7. <<l, keyMap[l]>> \notin epochHist[NumEpochs].dig
    <3>1. \A e \in 0..(NumEpochs - 1) : e # NumEpochs
      BY Works DEF SimInv
    <3> QED
      BY <2>5, <3>1, Published DEF SimInv
  <2>8. l \in DOMAIN upd
    BY <2>6, <2>7 DEF Digest
  <2> QED
    BY <2>3, <2>4, <2>8 DEF l
<1>2. \A i \in DOMAIN work : ~resp[work[i]].err => work[i] \in Batch
  BY DEF Batch, Range
<1> QED
  BY <1>1, <1>2 DEF SimInv, AddedInv

\* The directory before the batch is signed: the versions that the server has,
\* but for those of the batch.
LEMMA VersionsBefore ==
    ASSUME SimInv, wpc = "apply", idx > Len(work), NEW u \in Uid, NEW n \in Nat,
           \/ n = userInfo[u].numVers /\ \A t \in Batch : req[t].uid # u
           \/ n = userInfo[u].numVers - 1 /\ \E t \in Batch : req[t].uid = u
    PROVE  VersionsIn(epochHist[NumEpochs].dig, u) = VersionsOf(keyMap, u, n)
<1> DEFINE last == epochHist[NumEpochs].dig
           old == [l \in DOMAIN keyMap \ DOMAIN upd |-> keyMap[l]]
           numVers == userInfo[u].numVers
<1>1. IInv
  BY DEF SimInv
<1>2. Digest(old) = last
  <2>1. /\ Digest(keyMap) = last \cup Digest(upd)
        /\ \A l \in DOMAIN upd : \A entry \in last : entry[1] # l
    BY <1>1 DEF IInv, MapInv
  <2> HIDE DEF last
  <2> QED
    BY <2>1 DEF Digest
<1>3. old \in KeyMapSet
  <2>1. PICK L \in SUBSET MapLabel : keyMap \in [L -> MapVal]
    BY <1>1, UserVersions DEF KeyMapSet
  <2>2. old \in [L \ DOMAIN upd -> MapVal]
    BY <2>1
  <2> HIDE DEF old
  <2> QED
    BY <2>2 DEF KeyMapSet
<1>4. ASSUME NEW l \in DOMAIN upd, l.uid = u
      PROVE  l.ver = numVers - 1 /\ \E t \in Batch : req[t].uid = u
  <2>1. PICK t \in Batch : outs0[t].latest = l /\ Applied(t, NumEpochs)
    BY BatchApplied
  <2> QED
    BY <1>4, <2>1 DEF Applied, CompMapLabel
<1>5. ASSUME NEW t \in Batch, req[t].uid = u
      PROVE  CompMapLabel(u, numVers - 1) \in DOMAIN upd
  BY <1>5, BatchApplied DEF Applied
<1>6. /\ numVers \in Nat
      /\ \A l \in DOMAIN keyMap : l \in MapLabel /\ (l.uid = u => l.ver < numVers)
      /\ \A ver \in 0..(numVers - 1) : CompMapLabel(u, ver) \in DOMAIN keyMap
  BY <1>1, UserVersions
<1> HIDE DEF numVers, last
<1>7. n = numVers \/ n = numVers - 1
  BY DEF numVers
<1>8. ASSUME NEW l \in DOMAIN old, l.uid = u
      PROVE  l.ver < n
  <2>1. l \in DOMAIN keyMap /\ l \notin DOMAIN upd /\ l.ver \in Nat /\ l.ver < numVers
    BY <1>6, <1>8 DEF MapLabel
  <2>2. CASE n = numVers
    BY <2>1, <2>2
  <2>3. CASE n # numVers
    <3>1. CompMapLabel(u, numVers - 1) \in DOMAIN upd
      BY <1>5, <2>3 DEF numVers
    <3>2. l = CompMapLabel(u, l.ver)
      BY <1>6, <1>8, <2>1 DEF MapLabel, CompMapLabel
    <3>3. l.ver # numVers - 1
      BY <2>1, <3>1, <3>2
    <3> QED
      BY <1>6, <1>7, <2>1, <2>3, <3>3
  <2> QED
    BY <2>2, <2>3
<1>9. ASSUME NEW ver \in 0..(n - 1)
      PROVE  /\ CompMapLabel(u, ver) \in DOMAIN old
             /\ old[CompMapLabel(u, ver)] = keyMap[CompMapLabel(u, ver)]
  <2>1. ver \in 0..(numVers - 1)
    BY <1>6, <1>7
  <2>2. CompMapLabel(u, ver).uid = u /\ CompMapLabel(u, ver).ver = ver
    BY DEF CompMapLabel
  <2>3. CompMapLabel(u, ver) \notin DOMAIN upd
    <3>1. CASE n = numVers - 1
      BY <1>4, <1>6, <2>2, <3>1
    <3>2. CASE n # numVers - 1
      BY <1>4, <2>2, <3>2 DEF numVers
    <3> QED
      BY <3>1, <3>2
  <2> QED
    BY <1>6, <2>1, <2>3
<1> HIDE DEF old
<1>10. VersionsIn(last, u) = VersionsOf(old, u, n)
  BY <1>2, <1>3, <1>8, <1>9, VersionsInDigest
<1>11. VersionsOf(old, u, n) = VersionsOf(keyMap, u, n)
  <2>1. \A i \in 1..n : i - 1 \in 0..(n - 1)
    OBVIOUS
  <2> QED
    BY <1>9, <2>1 DEF VersionsOf
<1> QED
  BY <1>10, <1>11 DEF last
-----------------------------------------------------------------------------
(* Calls. *)

\* What a waiting caller will be told once its epoch is signed.
PutResult(t) ==
    IF resp[t].err
    THEN [err |-> TRUE]
    ELSE [err |-> FALSE, epoch |-> NumEpochs - 1, ver |-> outs0[t].latest.ver]

\* What the reply r to the request q says.
Result(q, r) ==
    IF r.err
    THEN [err |-> TRUE]
    ELSE CASE q.op = "put" ->
                [err |-> FALSE, epoch |-> r.dig.epoch, ver |-> r.latest.labelProof.ver]
           [] q.op = "get" ->
                [err |-> FALSE, epoch |-> r.dig.epoch, vers |-> VersionsProved(r)]
           [] q.op = "selfmon" ->
                [err |-> FALSE, epoch |-> r.dig.epoch, numVers |-> r.bound.labelProof.ver]
           [] q.op = "audit" ->
                [err |-> FALSE,
                 added |-> {<<l.uid, l.ver, r.updates[l].commit.val>> :
                              l \in DOMAIN r.updates}]

\* A thread's result depends on its request and its reply.
LEMMA Results ==
    ASSUME NEW t
    PROVE  /\ ResultOf(t) = Result(req[t], resp[t])
           /\ ResultOf(t)' = Result(req'[t], resp'[t])
BY DEF ResultOf, Result, VersionsProved

\* A thread's call in the directory, now and after a step.
LEMMA Ops ==
    ASSUME NEW t
    PROVE  /\ /\ pc[t] = "idle" => OpOf(t) = Directory!Idle
              /\ pc[t] = "ret" => OpOf(t) = Directory!Done(req[t], ResultOf(t))
              /\ pc[t] \notin {"idle", "ret"} /\ Committed(t) =>
                    OpOf(t) = Directory!Done(req[t], PutResult(t))
              /\ pc[t] \notin {"idle", "ret"} /\ ~Committed(t) =>
                    OpOf(t) = Directory!Pending(req[t])
           /\ (/\ pc[t] = "idle" => OpOf(t) = Directory!Idle
               /\ pc[t] = "ret" => OpOf(t) = Directory!Done(req[t], ResultOf(t))
               /\ pc[t] \notin {"idle", "ret"} /\ Committed(t) =>
                    OpOf(t) = Directory!Done(req[t], PutResult(t))
               /\ pc[t] \notin {"idle", "ret"} /\ ~Committed(t) =>
                    OpOf(t) = Directory!Pending(req[t]))'
BY DEF OpOf, PutResult, Directory!Idle, Directory!Done, Directory!Pending

\* Only who waits for the Worker has a Put in a signed epoch.
LEMMA CommittedWaits ==
    ASSUME IInv, NEW t, Committed(t)
    PROVE  pc[t] = "do" /\ wpc = "map1"
<1>1. PICK i \in idx..Len(work) : work[i] = t /\ wpc = "map1"
  BY DEF Committed
<1>2. i \in DOMAIN work /\ i >= idx
  <2>1. /\ idx \in Nat \ {0} /\ Len(work) \in Nat /\ DOMAIN work = 1..Len(work)
    BY DEF IInv, Types, TypeOK
  <2> QED
    BY <2>1
<1> QED
  BY <1>1, <1>2, Works DEF Pending

\* What a call looks like from the directory depends on its thread, and once
\* its Put is in a signed epoch on what the Worker has for it.
LEMMA OpSame ==
    ASSUME NEW t, pc'[t] = pc[t], req'[t] = req[t], pc[t] = "ret" => resp'[t] = resp[t],
           Committed(t)' <=> Committed(t),
           Committed(t) => /\ resp'[t].err <=> resp[t].err
                           /\ outs0'[t] = outs0[t] /\ epochHist' = epochHist
    PROVE  OpOf(t)' = OpOf(t)
<1>1. CASE pc[t] = "idle"
  BY <1>1, Ops
<1>2. CASE pc[t] = "ret"
  <2>1. resp'[t] = resp[t] /\ req'[t] = req[t]
    BY <1>2
  <2>2. ResultOf(t)' = ResultOf(t)
    BY <2>1, Results
  <2> QED
    BY <1>2, <2>2, Ops
<1>3. CASE pc[t] \notin {"idle", "ret"} /\ Committed(t)
  <2>1. PutResult(t)' = PutResult(t)
    BY <1>3 DEF PutResult, NumEpochs
  <2> QED
    BY <1>3, <2>1, Ops
<1>4. CASE pc[t] \notin {"idle", "ret"} /\ ~Committed(t)
  BY <1>4, Ops
<1> QED
  BY <1>1, <1>2, <1>3, <1>4

\* A step that publishes nothing and changes no call is none of the directory.
LEMMA Quiet ==
    ASSUME epochHist' = epochHist, \A t \in Thread : OpOf(t)' = OpOf(t)
    PROVE  UNCHANGED Directory!vars
<1>1. [t \in Thread |-> OpOf(t)]' = [t \in Thread |-> OpOf(t)]
  OBVIOUS
<1>2. [u \in Uid |-> VersionsIn(epochHist[NumEpochs].dig, u)]'
        = [u \in Uid |-> VersionsIn(epochHist[NumEpochs].dig, u)]
  BY DEF NumEpochs, VersionsIn
<1>3. (NumEpochs - 1)' = NumEpochs - 1
  BY DEF NumEpochs
<1> QED
  BY <1>1, <1>2, <1>3 DEF Directory!vars

\* One that changes the call of one thread.
LEMMA OneCall ==
    ASSUME epochHist' = epochHist, NEW t \in Thread,
           \A s \in Thread : s # t => OpOf(s)' = OpOf(s)
    PROVE  /\ [s \in Thread |-> OpOf(s)]'
                = [[s \in Thread |-> OpOf(s)] EXCEPT ![t] = OpOf(t)']
           /\ [u \in Uid |-> VersionsIn(epochHist[NumEpochs].dig, u)]'
                = [u \in Uid |-> VersionsIn(epochHist[NumEpochs].dig, u)]
           /\ (NumEpochs - 1)' = NumEpochs - 1
<1>1. [s \in Thread |-> OpOf(s)]' = [[s \in Thread |-> OpOf(s)] EXCEPT ![t] = OpOf(t)']
  OBVIOUS
<1>2. [u \in Uid |-> VersionsIn(epochHist[NumEpochs].dig, u)]'
        = [u \in Uid |-> VersionsIn(epochHist[NumEpochs].dig, u)]
  BY DEF NumEpochs, VersionsIn
<1>3. (NumEpochs - 1)' = NumEpochs - 1
  BY DEF NumEpochs
<1> QED
  BY <1>1, <1>2, <1>3

\* A thread's step leaves the other threads' calls as they are.
LEMMA OtherCalls ==
    ASSUME IInv, NEW t \in Thread, CallPut(t) \/ CallRead(t) \/ Serve(t)
    PROVE  /\ epochHist' = epochHist
           /\ \A s \in Thread : s # t => OpOf(s)' = OpOf(s)
           /\ ~Committed(t) /\ ~Committed(t)'
<1>1. /\ epochHist' = epochHist /\ UNCHANGED <<wpc, work, idx, outs0>> /\ pc[t] # "do"
      /\ \A s \in Thread : s # t => pc'[s] = pc[s] /\ req'[s] = req[s] /\ resp'[s] = resp[s]
  BY ThreadFrame DEF servVars, workerVars
<1>2. \A s : Committed(s)' <=> Committed(s)
  BY <1>1 DEF Committed
<1>3. ~Committed(t)
  BY <1>1, CommittedWaits
<1> QED
  BY <1>1, <1>2, <1>3, OpSame

-----------------------------------------------------------------------------
(* Steps of threads. *)

\* A call is a call of the directory.
LEMMA CallSim ==
    ASSUME SimInv, NEW t \in Thread, CallPut(t) \/ CallRead(t)
    PROVE  Directory!Call(t)
<1>1. /\ epochHist' = epochHist /\ ~Committed(t)'
      /\ \A s \in Thread : s # t => OpOf(s)' = OpOf(s)
  BY OtherCalls DEF SimInv
<1>2. PICK r \in Requests : req' = [req EXCEPT ![t] = r]
  BY DEF CallPut, CallRead
<1>3. pc[t] = "idle" /\ pc'[t] \in {"do", "rlock"} /\ req'[t] = r
  <2>1. /\ pc = [s \in Thread |-> pc[s]] /\ req = [s \in Thread |-> req[s]]
    BY DEF SimInv, IInv, Types, TypeOK
  <2> QED
    BY <1>2, <2>1 DEF CallPut, CallRead, Goto
<1>4. OpOf(t) = Directory!Idle /\ OpOf(t)' = Directory!Pending(r)
  BY <1>1, <1>3, Ops
<1>5. r \in Directory!Requests
  BY <1>2 DEF Requests, Directory!Requests
<1> QED
  BY <1>1, <1>4, <1>5, OneCall DEF Directory!Call

\* A return is a return of the directory.
LEMMA ReturnSim ==
    ASSUME SimInv, NEW t \in Thread, Return(t)
    PROVE  Directory!Return(t)
<1>1. /\ epochHist' = epochHist
      /\ \A s \in Thread : s # t => OpOf(s)' = OpOf(s)
  BY OtherCalls DEF SimInv, Serve
<1>2. pc[t] = "ret" /\ pc'[t] = "idle"
  BY DEF Return, Goto, SimInv, IInv, Types, TypeOK
<1>3. OpOf(t) = Directory!Done(req[t], ResultOf(t)) /\ OpOf(t)' = Directory!Idle
  BY <1>2, Ops
<1> QED
  BY <1>1, <1>3, OneCall DEF Directory!Return, Directory!Done

\* Taking the read lock changes nothing that callers can see.
LEMMA ReadLockSim ==
    ASSUME SimInv, NEW t \in Thread, ReadUser(t) \/ AuditLock(t)
    PROVE  UNCHANGED Directory!vars
<1>1. /\ epochHist' = epochHist /\ ~Committed(t) /\ ~Committed(t)'
      /\ \A s \in Thread : s # t => OpOf(s)' = OpOf(s)
  BY OtherCalls DEF SimInv, Serve
<1>2. pc[t] = "rlock" /\ pc'[t] = "read" /\ req' = req
  BY DEF ReadUser, AuditLock, Goto, SimInv, IInv, Types, TypeOK
<1>3. OpOf(t)' = OpOf(t)
  BY <1>1, <1>2, Ops
<1> QED
  BY <1>1, <1>3, Quiet

\* A step in which a reader gets the directory's answer is a read of it.
LEMMA ReadSim ==
    ASSUME SimInv, NEW t \in Thread, Serve(t), pc[t] \in {"rlock", "read"}, pc'[t] = "ret",
           req' = req, req[t].op # "put", ResultOf(t)' = Directory!Answer(req[t])
    PROVE  Directory!Read(t)
<1>1. /\ epochHist' = epochHist /\ ~Committed(t)
      /\ \A s \in Thread : s # t => OpOf(s)' = OpOf(s)
  BY OtherCalls DEF SimInv
<1>2. OpOf(t) = Directory!Pending(req[t])
  BY <1>1, Ops
<1>3. OpOf(t)' = Directory!Done(req[t], Directory!Answer(req[t]))
  BY Ops
<1>4. Directory!Pending(req[t]).state = "pending" /\ Directory!Pending(req[t]).req = req[t]
  BY DEF Directory!Pending
<1> HIDE DEF OpOf
<1> QED
  BY <1>1, <1>2, <1>3, <1>4, OneCall DEF Directory!Read

\* The versions that the reply of Get proves are those of the map.
LEMMA ProvedVersions ==
    ASSUME IInv, NEW t \in Thread, pc[t] = "read", req[t].op # "audit", NEW r,
           r.hist = GetHist(req[t].uid, local[t].numVers),
           r.isReg <=> local[t].numVers > 0,
           r.latest = GetLatest(req[t].uid, local[t].numVers, local[t].plainPk)
    PROVE  VersionsProved(r) = VersionsOf(keyMap, req[t].uid, local[t].numVers)
<1> DEFINE u == req[t].uid
           n == local[t].numVers
<1>1. n \in Nat /\ u \in Uid /\ local[t] = userInfo[u]
  BY Reading
<1>2. CASE n = 0
  <2>1. VersionsProved(r) = [i \in 1..0 |-> VersionsProved(r)[i]] /\ 1..0 = {}
    BY <1>2 DEF VersionsProved
  <2>2. VersionsOf(keyMap, u, n) = [i \in 1..0 |-> VersionsOf(keyMap, u, n)[i]]
    BY <1>2 DEF VersionsOf
  <2> HIDE DEF u, n
  <2>3. \A i \in 1..0 : VersionsProved(r)[i] = VersionsOf(keyMap, u, n)[i]
    BY <2>1
  <2> QED
    BY <2>1, <2>2, <2>3 DEF u, n
<1>3. CASE n > 0
  <2> DEFINE last == CompMapLabel(u, n - 1)
  <2>1. /\ Len(r.hist) = n - 1
        /\ \A i \in 1..(n - 1) : r.hist[i].mapVal = keyMap[CompMapLabel(u, i - 1)]
    BY <1>1, <1>3 DEF GetHist, MembHide
  <2>2. /\ r.latest.epochAdded = keyMap[last].epoch
        /\ r.latest.pkOpen.val = local[t].plainPk
    BY <1>1, <1>3 DEF GetLatest, Memb, CompCommitOpen
  <2>3. keyMap[last].commit.val = local[t].plainPk
    BY <1>1, <1>3 DEF IInv, VersionsInMap
  <2>4. r.isReg /\ Len(r.hist) + 1 = n
    BY <1>1, <1>3, <2>1
  <2>5. VersionsProved(r) =
          [i \in 1..n |->
              IF i <= n - 1
              THEN [epoch |-> r.hist[i].mapVal.epoch, pk |-> r.hist[i].mapVal.commit.val]
              ELSE [epoch |-> r.latest.epochAdded, pk |-> r.latest.pkOpen.val]]
    BY <2>1, <2>4 DEF VersionsProved
  <2> HIDE DEF u, n
  <2>6. ASSUME NEW i \in 1..n
        PROVE  VersionsProved(r)[i] = VersionsOf(keyMap, u, n)[i]
    <3>1. CASE i <= n - 1
      <4>1. i \in 1..(n - 1)
        BY <1>1, <3>1
      <4> QED
        BY <2>1, <2>5, <3>1, <4>1 DEF VersionsOf
    <3>2. CASE ~(i <= n - 1)
      <4>1. i = n
        BY <1>1, <3>2
      <4> QED
        BY <2>2, <2>3, <2>5, <3>2, <4>1 DEF VersionsOf
    <3> QED
      BY <3>1, <3>2
  <2> QED
    BY <2>5, <2>6 DEF VersionsOf, u, n
<1> QED
  BY <1>1, <1>2, <1>3

\* Get answers with all versions of the user in the directory.
LEMMA GetSim ==
    ASSUME SimInv, NEW t \in Thread, Get(t)
    PROVE  Directory!Read(t)
<1> DEFINE q == req[t]
           n == local[t].numVers
           reply == [err |-> FALSE, dig |-> resp[t].dig,
                     hist |-> GetHist(q.uid, n), isReg |-> n > 0,
                     latest |-> GetLatest(q.uid, n, local[t].plainPk),
                     bound |-> GetBound(q.uid, n)]
<1>1. pc[t] = "read" /\ q.op = "get" /\ req' = req /\ IInv
  BY DEF Get, SimInv
<1>2. /\ wpc # "apply" /\ q.uid \in Uid /\ local[t] = userInfo[q.uid]
      /\ resp[t].dig = GetDig(epochHist)
      /\ HistInMap(q.uid, n) /\ BoundNotInMap(q.uid, n)
  BY <1>1, Reading
<1>3. resp'[t] = reply /\ pc'[t] = "ret"
  BY <1>1, <1>2 DEF Get, Goto, IInv, Types, TypeOK
<1>4. /\ ~reply.err /\ reply.dig.epoch = NumEpochs - 1
      /\ reply.hist = GetHist(q.uid, n)
      /\ reply.latest = GetLatest(q.uid, n, local[t].plainPk)
  BY <1>2 DEF GetDig, NumEpochs
<1>5. reply.isReg <=> n > 0
  OBVIOUS
<1> HIDE DEF reply
<1>6. VersionsProved(reply) = VersionsIn(epochHist[NumEpochs].dig, q.uid)
  BY <1>1, <1>2, <1>4, <1>5, ProvedVersions, VersionsNow
<1>7. ResultOf(t)' = [err |-> FALSE, epoch |-> NumEpochs - 1,
                      vers |-> VersionsIn(epochHist[NumEpochs].dig, q.uid)]
  BY <1>1, <1>3, <1>4, <1>6, Results DEF Result
<1>8. Directory!Answer(q) = [err |-> FALSE, epoch |-> NumEpochs - 1,
                             vers |-> VersionsIn(epochHist[NumEpochs].dig, q.uid)]
  BY <1>1, <1>2 DEF Directory!Answer
<1> QED
  BY <1>1, <1>3, <1>7, <1>8, ReadSim DEF Serve

\* SelfMon answers with the number of the user's versions in the directory.
LEMMA SelfMonSim ==
    ASSUME SimInv, NEW t \in Thread, SelfMon(t)
    PROVE  Directory!Read(t)
<1> DEFINE q == req[t]
           n == local[t].numVers
           reply == [err |-> FALSE, dig |-> resp[t].dig, bound |-> GetBound(q.uid, n)]
<1>1. pc[t] = "read" /\ q.op = "selfmon" /\ req' = req /\ IInv
  BY DEF SelfMon, SimInv
<1>2. /\ wpc # "apply" /\ q.uid \in Uid /\ local[t] = userInfo[q.uid] /\ n \in Nat
      /\ resp[t].dig = GetDig(epochHist) /\ BoundNotInMap(q.uid, n)
  BY <1>1, Reading
<1>3. resp'[t] = reply /\ pc'[t] = "ret"
  BY <1>1, <1>2 DEF SelfMon, Goto, IInv, Types, TypeOK
<1>4. ~reply.err /\ reply.dig.epoch = NumEpochs - 1 /\ reply.bound.labelProof.ver = n
  BY <1>2 DEF GetDig, NumEpochs, GetBound, NonMemb, CompMapLabel
<1> HIDE DEF reply
<1>5. Len(VersionsIn(epochHist[NumEpochs].dig, q.uid)) = n
  <2>1. VersionsIn(epochHist[NumEpochs].dig, q.uid) = VersionsOf(keyMap, q.uid, n)
    BY <1>1, <1>2, VersionsNow
  <2>2. Len(VersionsOf(keyMap, q.uid, n)) = n
    BY <1>2 DEF VersionsOf
  <2> QED
    BY <2>1, <2>2
<1>6. ResultOf(t)' = [err |-> FALSE, epoch |-> NumEpochs - 1, numVers |-> n]
  BY <1>1, <1>3, <1>4, Results DEF Result
<1>7. Directory!Answer(q) = [err |-> FALSE, epoch |-> NumEpochs - 1, numVers |-> n]
  BY <1>1, <1>2, <1>5 DEF Directory!Answer
<1> QED
  BY <1>1, <1>3, <1>6, <1>7, ReadSim DEF Serve

\* What an epoch published is what the directory says it added.
LEMMA AddedAt ==
    ASSUME IInv, wpc # "apply", NEW e \in 0..(NumEpochs - 1)
    PROVE  LET updates == epochHist[e + 1].updates
               vers(u) == VersionsIn(epochHist[NumEpochs].dig, u)
           IN  {<<l.uid, l.ver, updates[l].commit.val>> : l \in DOMAIN updates}
                 = UNION {{<<u, i - 1, vers(u)[i].pk>> :
                              i \in {j \in DOMAIN vers(u) : vers(u)[j].epoch = e}} :
                          u \in Uid}
<1> DEFINE updates == epochHist[e + 1].updates
           vers(u) == VersionsIn(epochHist[NumEpochs].dig, u)
           added == {<<l.uid, l.ver, updates[l].commit.val>> : l \in DOMAIN updates}
           byUser(u) == {<<u, i - 1, vers(u)[i].pk>> :
                            i \in {j \in DOMAIN vers(u) : vers(u)[j].epoch = e}}
<1>1. /\ Digest(updates) \subseteq Digest(keyMap)
      /\ \A l \in DOMAIN updates : updates[l].epoch = e
      /\ \A entry \in Digest(keyMap) : entry[2].epoch = e => entry \in Digest(updates)
  <2>1. epochHist[NumEpochs].dig = Digest(keyMap)
    BY EmptyMapFacts DEF IInv, MapInv
  <2>2. /\ Digest(updates) \subseteq Digest(keyMap)
        /\ \A l \in DOMAIN updates : updates[l].epoch = e
    BY <2>1, Published
  <2>3. ASSUME NEW entry \in Digest(keyMap), entry[2].epoch = e
        PROVE  entry \in Digest(updates)
    <3>1. PICK d \in 0..(NumEpochs - 1) :
              entry \in Digest(epochHist[d + 1].updates) /\ entry[2].epoch = d
      BY <2>1, Published
    <3> QED
      BY <2>3, <3>1
  <2> QED
    BY <2>2, <2>3
<1>2. \A l \in DOMAIN updates :
          /\ l \in DOMAIN keyMap /\ keyMap[l] = updates[l] /\ updates[l].epoch = e
  <2> HIDE DEF updates
  <2>1. ASSUME NEW l \in DOMAIN updates
        PROVE  l \in DOMAIN keyMap /\ keyMap[l] = updates[l]
    <3>1. <<l, updates[l]>> \in Digest(updates)
      BY DEF Digest
    <3>2. <<l, updates[l]>> \in Digest(keyMap)
      BY <1>1, <3>1
    <3> QED
      BY <3>2 DEF Digest
  <2> QED
    BY <1>1, <2>1
<1>3. \A l \in DOMAIN keyMap : keyMap[l].epoch = e =>
          l \in DOMAIN updates /\ updates[l] = keyMap[l]
  <2> HIDE DEF updates
  <2>1. ASSUME NEW l \in DOMAIN keyMap, keyMap[l].epoch = e
        PROVE  <<l, keyMap[l]>> \in Digest(updates)
    <3>1. <<l, keyMap[l]>> \in Digest(keyMap) /\ <<l, keyMap[l]>>[2].epoch = e
      BY <2>1 DEF Digest
    <3> QED
      BY <1>1, <3>1
  <2> QED
    BY <2>1 DEF Digest
<1>4. \A u \in Uid :
          /\ DOMAIN vers(u) = 1..userInfo[u].numVers /\ userInfo[u].numVers \in Nat
          /\ \A i \in DOMAIN vers(u) :
                /\ vers(u)[i].epoch = keyMap[CompMapLabel(u, i - 1)].epoch
                /\ vers(u)[i].pk = keyMap[CompMapLabel(u, i - 1)].commit.val
  <2> TAKE u \in Uid
  <2>1. /\ vers(u) = VersionsOf(keyMap, u, userInfo[u].numVers)
        /\ userInfo[u].numVers \in Nat
    BY VersionsNow, UserVersions
  <2> HIDE DEF vers
  <2> QED
    BY <2>1 DEF VersionsOf
<1> HIDE DEF updates, vers
<1>5. ASSUME NEW x \in added
      PROVE  \E u \in Uid : x \in byUser(u)
  <2>1. PICK l \in DOMAIN updates : x = <<l.uid, l.ver, updates[l].commit.val>>
    OBVIOUS
  <2>2. l \in DOMAIN keyMap /\ keyMap[l] = updates[l] /\ keyMap[l].epoch = e
    BY <1>2
  <2>3. l \in MapLabel /\ l.uid \in Uid /\ l.ver \in Nat
    BY <2>2, UserVersions DEF MapLabel, IInv, Types, TypeOK
  <2>4. PICK u \in Uid : u = l.uid
    BY <2>3
  <2>5. l.ver < userInfo[u].numVers
    BY <2>2, <2>4, UserVersions
  <2>6. PICK i \in Nat : i = l.ver + 1
    BY <2>3
  <2>7. i \in DOMAIN vers(u) /\ i - 1 = l.ver
    <3>1. DOMAIN vers(u) = 1..userInfo[u].numVers /\ userInfo[u].numVers \in Nat
      BY <1>4
    <3> QED
      BY <2>3, <2>5, <2>6, <3>1
  <2>8. l = CompMapLabel(u, i - 1)
    BY <2>3, <2>4, <2>7 DEF MapLabel, CompMapLabel
  <2>9. vers(u)[i].epoch = e /\ vers(u)[i].pk = updates[l].commit.val
    BY <1>4, <2>2, <2>7, <2>8
  <2> QED
    BY <2>1, <2>4, <2>7, <2>9
<1>6. ASSUME NEW u \in Uid, NEW x \in byUser(u)
      PROVE  x \in added
  <2>1. PICK i \in DOMAIN vers(u) : vers(u)[i].epoch = e /\ x = <<u, i - 1, vers(u)[i].pk>>
    OBVIOUS
  <2>2. PICK ver \in 0..(userInfo[u].numVers - 1) : ver = i - 1
    BY <1>4
  <2>3. PICK l \in DOMAIN keyMap : l = CompMapLabel(u, ver)
    BY UserVersions
  <2>4. keyMap[l].epoch = e /\ keyMap[l].commit.val = vers(u)[i].pk
    BY <1>4, <2>1, <2>2, <2>3
  <2>5. l \in DOMAIN updates /\ updates[l] = keyMap[l]
    BY <1>3, <2>4
  <2>6. l.uid = u /\ l.ver = ver
    BY <2>3 DEF CompMapLabel
  <2> QED
    BY <2>1, <2>2, <2>4, <2>5, <2>6
<1>7. added = UNION {byUser(u) : u \in Uid}
  <2> HIDE DEF added, byUser
  <2> QED
    BY <1>5, <1>6
<1> QED
  BY <1>7 DEF updates, vers

\* Audit answers with what the directory says the epoch added.
LEMMA AuditSim ==
    ASSUME SimInv, NEW t \in Thread, Audit(t)
    PROVE  Directory!Read(t)
<1> DEFINE q == req[t]
<1>1. IInv /\ pc[t] = "read" /\ q.op = "audit" /\ req' = req
  BY AuditDoes DEF SimInv
<1>2. q.epoch \in Nat /\ NumEpochs \in Nat \ {0}
  BY <1>1, AuditDoes
<1>3. wpc # "apply"
  BY <1>1, AuditDoes
<1>4. /\ pc'[t] = "ret"
      /\ resp'[t] = IF q.epoch >= NumEpochs
                    THEN ErrResp
                    ELSE [err |-> FALSE, updates |-> epochHist[q.epoch + 1].updates,
                          sig |-> epochHist[q.epoch + 1].sig]
  <2>1. /\ pc' = [pc EXCEPT ![t] = "ret"]
        /\ resp' = [resp EXCEPT ![t] = AuditReply(q.epoch)]
    BY <1>1, AuditDoes
  <2> QED
    BY <1>1, <2>1 DEF AuditReply, IInv, Types, TypeOK
<1>5. CASE q.epoch >= NumEpochs
  <2>1. ResultOf(t)' = [err |-> TRUE]
    BY <1>4, <1>5, Results DEF Result, ErrResp
  <2>2. q.epoch > NumEpochs - 1
    BY <1>2, <1>5
  <2>3. Directory!Answer(q) = [err |-> TRUE]
    BY <1>1, <2>2 DEF Directory!Answer, Directory!Refused
  <2> QED
    BY <1>1, <1>4, <2>1, <2>3, ReadSim DEF Serve
<1>6. CASE ~(q.epoch >= NumEpochs)
  <2> DEFINE updates == epochHist[q.epoch + 1].updates
             vers(u) == VersionsIn(epochHist[NumEpochs].dig, u)
             added == {<<l.uid, l.ver, updates[l].commit.val>> : l \in DOMAIN updates}
             byUser(u) == {<<u, i - 1, vers(u)[i].pk>> :
                              i \in {j \in DOMAIN vers(u) : vers(u)[j].epoch = q.epoch}}
  <2>1. ResultOf(t)' = [err |-> FALSE, added |-> added]
    BY <1>1, <1>4, <1>6, Results DEF Result
  <2>2. q.epoch \in 0..(NumEpochs - 1) /\ ~(q.epoch > NumEpochs - 1)
    BY <1>2, <1>6
  <2>3. added = UNION {byUser(u) : u \in Uid}
    BY <1>1, <1>3, <2>2, AddedAt
  <2>4. Directory!Answer(q) = [err |-> FALSE, added |-> UNION {byUser(u) : u \in Uid}]
    <3> DEFINE dir == [u \in Uid |-> vers(u)]
               inDir(u) == {<<u, i - 1, dir[u][i].pk>> :
                               i \in {j \in DOMAIN dir[u] : dir[u][j].epoch = q.epoch}}
    <3>1. Directory!Answer(q) = [err |-> FALSE, added |-> UNION {inDir(u) : u \in Uid}]
      BY <1>1, <2>2 DEF Directory!Answer
    <3>2. \A u \in Uid : dir[u] = vers(u)
      OBVIOUS
    <3> HIDE DEF dir, vers
    <3>3. \A u \in Uid : inDir(u) = byUser(u)
      BY <3>2
    <3> HIDE DEF inDir, byUser
    <3>4. {inDir(u) : u \in Uid} = {byUser(u) : u \in Uid}
      BY <3>3
    <3> QED
      BY <3>1, <3>4
  <2> QED
    BY <1>1, <1>4, <2>1, <2>3, <2>4, ReadSim DEF Serve
<1> QED
  BY <1>5, <1>6

-----------------------------------------------------------------------------
(* Steps of the Worker. *)

\* Taking the queue changes the replies of those that wait only.
LEMMA WorkerGetSim ==
    ASSUME SimInv, WorkerGet
    PROVE  UNCHANGED Directory!vars
<1>1. /\ wpc = "get" /\ wpc' = "map0" /\ UNCHANGED <<pc, req, epochHist>>
      /\ \A t \in Thread : t \notin Range(workQ) => resp'[t] = resp[t]
  BY DEF WorkerGet, servVars
<1>2. \A t \in Range(workQ) : pc[t] = "do"
  BY DEF SimInv, IInv, QueueInv, Range
<1>3. ASSUME NEW t \in Thread
      PROVE  OpOf(t)' = OpOf(t)
  <2>1. ~Committed(t) /\ ~Committed(t)'
    BY <1>1 DEF Committed
  <2>2. pc[t] = "ret" => resp'[t] = resp[t]
    BY <1>1, <1>2
  <2> QED
    BY <1>1, <2>1, <2>2, OpSame
<1> QED
  BY <1>1, <1>3, Quiet

\* Preparing and applying a batch changes nothing that callers can see.
LEMMA PrepareSim ==
    ASSUME WorkerWaitLock \/ WorkerLock \/ WorkerApply \/ \E t \in Thread : Mapper0(t)
    PROVE  UNCHANGED Directory!vars
<1>1. /\ wpc # "map1" /\ wpc' # "map1" /\ UNCHANGED <<pc, req, resp, epochHist>>
  BY DEF WorkerWaitLock, WorkerLock, WorkerApply, Mapper0, servVars
<1>2. ASSUME NEW t \in Thread
      PROVE  OpOf(t)' = OpOf(t)
  <2>1. ~Committed(t) /\ ~Committed(t)'
    BY <1>1 DEF Committed
  <2> QED
    BY <1>1, <2>1, OpSame
<1> QED
  BY <1>1, <1>2, Quiet

\* mapper1 completes the reply of a Put that its epoch has decided.
LEMMA Mapper1Sim ==
    ASSUME SimInv, NEW t \in Thread, Mapper1(t)
    PROVE  UNCHANGED Directory!vars
<1>1. /\ wpc = "map1" /\ t \in todo /\ UNCHANGED <<pc, req, epochHist, wpc, work, idx, outs0>>
  BY DEF Mapper1, servVars
<1>2. pc[t] = "do" /\ ~resp[t].err
  <2>1. idx = 1 /\ t \in Range(work) /\ ~resp[t].err
    BY <1>1 DEF SimInv, IInv, PhaseInv, WorkInv
  <2>2. PICK i \in DOMAIN work : work[i] = t
    BY <2>1 DEF Range
  <2>3. i >= idx
    BY <2>1, Works DEF SimInv
  <2> QED
    BY <2>1, <2>2, <2>3, Works DEF SimInv, Pending
<1>3. /\ ~resp'[t].err
      /\ \A s \in Thread : s # t => resp'[s] = resp[s]
  <2> DEFINE reply ==
          [err |-> FALSE, dig |-> GetDig(epochHist),
           latest |-> Memb(outs0[t].latest, NumEpochs - 1, outs0[t].pkOpen,
                           MerkleProof(keyMap, outs0[t].latest)),
           bound |-> NonMemb(outs0[t].bound, MerkleProof(keyMap, outs0[t].bound))]
  <2>1. resp' = [resp EXCEPT ![t] = reply] \/ resp' = resp
    BY DEF Mapper1
  <2>2. ~reply.err
    OBVIOUS
  <2>3. resp = [s \in Thread |-> resp[s]]
    BY DEF SimInv, IInv, Types
  <2> HIDE DEF reply
  <2> QED
    BY <1>2, <2>1, <2>2, <2>3
<1>4. ASSUME NEW s \in Thread
      PROVE  OpOf(s)' = OpOf(s)
  <2>1. Committed(s)' <=> Committed(s)
    BY <1>1 DEF Committed
  <2>2. /\ pc[s] = "ret" => resp'[s] = resp[s]
        /\ resp'[s].err <=> resp[s].err
    BY <1>2, <1>3
  <2> QED
    BY <1>1, <2>1, <2>2, OpSame
<1> QED
  BY <1>1, <1>4, Quiet

\* A caller is woken with what its epoch has decided.
LEMMA WorkerFinishSim ==
    ASSUME SimInv, WorkerFinish
    PROVE  UNCHANGED Directory!vars
<1>0. idx \in DOMAIN work /\ work[idx] \in Thread
  BY DEF SimInv, IInv, Types, TypeOK, WorkerFinish
<1>t. PICK t \in Thread : t = work[idx]
  BY <1>0
<1>1. /\ wpc = "map1" /\ todo = {} /\ UNCHANGED <<req, resp, epochHist>>
      /\ pc' = [pc EXCEPT ![t] = "ret"]
      /\ \/ idx = Len(work) /\ wpc' = "get"
         \/ idx # Len(work) /\ idx' = idx + 1 /\ UNCHANGED <<wpc, work, outs0>>
  BY <1>t DEF WorkerFinish, Goto, LastWork, servVars
<1>2. /\ idx \in Nat /\ Len(work) \in Nat /\ idx <= Len(work) /\ idx \in DOMAIN work
      /\ pc = [s \in Thread |-> pc[s]]
  BY <1>1 DEF SimInv, IInv, Types, TypeOK
<1>3. pc[t] = "do" /\ req[t].op = "put"
  <2>1. Pending(idx)
    BY <1>2 DEF Pending
  <2> QED
    BY <1>t, <1>2, <2>1, Works DEF SimInv
<1>4. pc'[t] = "ret" /\ \A s \in Thread : s # t => pc'[s] = pc[s]
  BY <1>1, <1>2, <1>3
<1>5. OpOf(t)' = OpOf(t)
  <2>1. Committed(t)
    BY <1>t, <1>1, <1>2 DEF Committed
  <2>2. OpOf(t) = Directory!Done(req[t], PutResult(t))
    BY <1>3, <2>1, Ops
  <2>3. OpOf(t)' = Directory!Done(req[t], Result(req[t], resp[t]))
    <3>1. pc'[t] = "ret" /\ req'[t] = req[t] /\ resp'[t] = resp[t]
      BY <1>1, <1>4
    <3> QED
      BY <3>1, Ops, Results
  <2>4. ~resp[t].err =>
            /\ resp[t].dig.epoch = NumEpochs - 1
            /\ resp[t].latest.labelProof = outs0[t].latest
    BY <1>t, <1>1, <1>2 DEF SimInv, AnswerInv
  <2>5. PutResult(t) = Result(req[t], resp[t])
    BY <1>3, <2>4 DEF PutResult, Result
  <2> QED
    BY <2>2, <2>3, <2>5
<1>6. ASSUME NEW s \in Thread, s # t
      PROVE  OpOf(s)' = OpOf(s)
  <2>1. CASE idx = Len(work) /\ wpc' = "get"
    <3>1. \A i \in idx..Len(work) : i = idx
      BY <1>2, <2>1
    <3>2. ~Committed(s) /\ ~Committed(s)'
      BY <1>t, <1>6, <2>1, <3>1 DEF Committed
    <3> QED
      BY <1>1, <1>4, <1>6, <3>2, OpSame
  <2>2. CASE idx # Len(work) /\ idx' = idx + 1 /\ UNCHANGED <<wpc, work, outs0>>
    <3>1. \A i : i \in (idx + 1)..Len(work) <=> i \in idx..Len(work) /\ i # idx
      BY <1>2, <2>2
    <3>2. Committed(s)' <=> Committed(s)
      BY <1>t, <1>6, <2>2, <3>1 DEF Committed
    <3> QED
      BY <1>1, <1>4, <1>6, <2>2, <3>2, OpSame
  <2> QED
    BY <1>1, <2>1, <2>2
<1> QED
  BY <1>1, <1>5, <1>6, Quiet

\* A user has at most one work that goes on.
LEMMA BatchUsers ==
    ASSUME SimInv, wpc = "apply"
    PROVE  /\ \A t1, t2 \in Batch : req[t1].uid = req[t2].uid => t1 = t2
           /\ \A t \in BatchRefused : \E b \in Batch : req[b].uid = req[t].uid
           /\ Batch # {} /\ Batch \cap BatchRefused = {}
           /\ \A t \in Range(work) : t \in Batch \/ t \in BatchRefused
<1>1. \A i \in DOMAIN work : work[i] \in Range(work)
  BY DEF Range
<1>2. ASSUME NEW t1 \in Batch, NEW t2 \in Batch, req[t1].uid = req[t2].uid
      PROVE  t1 = t2
  <2>1. PICK i \in DOMAIN work : t1 = work[i] /\ ~resp[work[i]].err
    BY DEF Batch, Range
  <2>2. PICK j \in DOMAIN work : t2 = work[j] /\ ~resp[work[j]].err
    BY DEF Batch, Range
  <2>3. i \in Nat \ {0} /\ j \in Nat \ {0}
    BY Works DEF SimInv
  <2>4. i \notin 1..(j - 1) /\ j \notin 1..(i - 1)
    BY <1>2, <2>1, <2>2 DEF SimInv, IInv, BatchInv
  <2>5. i = j
    BY <2>3, <2>4
  <2> QED
    BY <2>1, <2>2, <2>5
<1>3. ASSUME NEW t \in BatchRefused
      PROVE  \E b \in Batch : req[b].uid = req[t].uid
  <2>1. PICK i \in DOMAIN work : t = work[i] /\ resp[work[i]].err
    BY DEF BatchRefused, Range
  <2>2. PICK j \in DOMAIN work : ~resp[work[j]].err /\ req[work[j]].uid = req[work[i]].uid
    BY <2>1 DEF SimInv, RefusedInv
  <2> QED
    BY <1>1, <2>1, <2>2 DEF Batch
<1>4. \A t \in Range(work) : t \in Batch \/ t \in BatchRefused
  BY DEF Batch, BatchRefused
<1>5. Range(work) # {}
  <2>1. work # <<>> /\ work \in Seq(Thread)
    BY DEF SimInv, IInv, PhaseInv, Types, TypeOK
  <2>2. 1 \in DOMAIN work
    BY <2>1
  <2> QED
    BY <1>1, <2>2
<1>6. Batch \cap BatchRefused = {}
  BY DEF Batch, BatchRefused
<1> QED
  BY <1>2, <1>3, <1>4, <1>5, <1>6

\* The versions of a user after the batch: one more if it has a work in it.
LEMMA VersionsAfter ==
    ASSUME SimInv, WorkerPublish, NEW u \in Uid
    PROVE  LET before == VersionsIn(epochHist[NumEpochs].dig, u)
               after == VersionsIn(epochHist[NumEpochs].dig, u)'
           IN  /\ (\A t \in Batch : req[t].uid # u) => after = before
               /\ \A t \in Batch : req[t].uid = u =>
                    /\ after = Append(before, [epoch |-> NumEpochs, pk |-> req[t].pk])
                    /\ Len(before) = outs0[t].latest.ver
<1> DEFINE n == userInfo[u].numVers
           before == VersionsIn(epochHist[NumEpochs].dig, u)
<1>1. wpc = "apply" /\ idx > Len(work) /\ IInv
  BY DEF WorkerPublish, SimInv
<1>2. n \in Nat
  BY <1>1, UserVersions
<1>3. VersionsIn(epochHist[NumEpochs].dig, u)' = VersionsOf(keyMap, u, n)
  <2>1. (epochHist[NumEpochs].dig)' = Digest(keyMap)
    BY <1>1 DEF WorkerPublish, UpdEpochHist, EpochInfo, NumEpochs, IInv, Types
  <2>2. VersionsIn(epochHist[NumEpochs].dig, u)' = VersionsIn(Digest(keyMap), u)
    BY <2>1 DEF VersionsIn
  <2> QED
    BY <1>1, <2>2, UserVersions, VersionsInDigest
<1>4. (\A t \in Batch : req[t].uid # u) => before = VersionsOf(keyMap, u, n)
  BY <1>1, <1>2, VersionsBefore
<1>5. ASSUME NEW t \in Batch, req[t].uid = u
      PROVE  /\ VersionsOf(keyMap, u, n)
                  = Append(before, [epoch |-> NumEpochs, pk |-> req[t].pk])
             /\ Len(before) = outs0[t].latest.ver
  <2>1. Applied(t, NumEpochs)
    BY <1>1, BatchApplied
  <2>2. /\ n > 0 /\ outs0[t].latest = CompMapLabel(u, n - 1)
        /\ keyMap[CompMapLabel(u, n - 1)].epoch = NumEpochs
        /\ keyMap[CompMapLabel(u, n - 1)].commit.val = req[t].pk
    BY <1>5, <2>1 DEF Applied, CompMapVal, CompCommitOpen
  <2>3. PICK m \in Nat : m = n - 1 /\ m + 1 = n
    BY <1>2, <2>2
  <2>4. before = VersionsOf(keyMap, u, m)
    BY <1>1, <1>5, <2>3, VersionsBefore
  <2>5. Len(before) = m
    BY <2>3, <2>4 DEF VersionsOf
  <2>6. VersionsOf(keyMap, u, m + 1)
          = Append(VersionsOf(keyMap, u, m), [epoch |-> keyMap[CompMapLabel(u, m)].epoch,
                                              pk |-> keyMap[CompMapLabel(u, m)].commit.val])
    BY <2>3 DEF VersionsOf
  <2> QED
    BY <2>2, <2>3, <2>4, <2>5, <2>6 DEF CompMapLabel
<1> QED
  BY <1>3, <1>4, <1>5

\* Signing an epoch decides all the calls of its batch at once.
LEMMA PublishSim ==
    ASSUME SimInv, WorkerPublish
    PROVE  \E batch \in SUBSET Directory!PendingPuts :
             \E refused \in SUBSET Directory!PendingPuts : Directory!Commit(batch, refused)
<1> DEFINE op == [t \in Thread |-> OpOf(t)]
           dir == [u \in Uid |-> VersionsIn(epochHist[NumEpochs].dig, u)]
           epoch == NumEpochs - 1
<1>1. /\ wpc = "apply" /\ wpc' = "map1" /\ idx > Len(work) /\ idx' = 1
      /\ UNCHANGED <<work, outs0, pc, req, resp>> /\ IInv
  BY DEF WorkerPublish, SimInv
<1>2. NumEpochs' = NumEpochs + 1 /\ NumEpochs \in Nat
  BY <1>1 DEF WorkerPublish, UpdEpochHist, NumEpochs, IInv, Types
<1>3. PICK B, R : B = Batch /\ R = BatchRefused
  OBVIOUS
<1>4. ASSUME NEW t \in Range(work)
      PROVE  /\ t \in Thread /\ pc[t] = "do" /\ req[t].op = "put"
             /\ OpOf(t) = Directory!Pending(req[t])
             /\ OpOf(t)' = Directory!Done(req[t], PutResult(t)')
  <2>1. PICK i \in DOMAIN work : work[i] = t
    BY DEF Range
  <2>2. t \in Thread /\ pc[t] = "do" /\ req[t].op = "put" /\ i \in 1..Len(work)
    BY <1>1, <2>1, Works
  <2>3. ~Committed(t) /\ Committed(t)'
    BY <1>1, <2>1, <2>2 DEF Committed
  <2> QED
    BY <1>1, <2>2, <2>3, Ops
<1>5. ASSUME NEW t \in Thread, t \notin Range(work)
      PROVE  OpOf(t)' = OpOf(t)
  <2>1. \A i \in 1..Len(work) : work[i] # t
    BY <1>1, <1>5, Works DEF Range
  <2>2. ~Committed(t) /\ ~Committed(t)'
    BY <1>1, <2>1 DEF Committed
  <2> QED
    BY <1>1, <2>2, OpSame
<1>6. /\ B \subseteq Range(work) /\ R \subseteq Range(work)
      /\ \A t \in Range(work) : t \in B \/ t \in R
      /\ B # {} /\ B \cap R = {}
      /\ \A t1, t2 \in B : req[t1].uid = req[t2].uid => t1 = t2
      /\ \A t \in R : \E b \in B : req[b].uid = req[t].uid
  BY <1>1, <1>3, BatchUsers DEF Batch, BatchRefused
<1>7. /\ \A t \in B \cup R : op[t] = Directory!Pending(req[t]) /\ op[t].req = req[t]
      /\ B \in SUBSET Directory!PendingPuts /\ R \in SUBSET Directory!PendingPuts
  <2>1. \A t \in B \cup R : op[t] = Directory!Pending(req[t]) /\ t \in Thread
    BY <1>4, <1>6
  <2>2. \A t \in B \cup R : op[t].state = "pending" /\ op[t].req = req[t] /\ op[t].req.op = "put"
    BY <1>4, <1>6, <2>1 DEF Directory!Pending
  <2> QED
    BY <2>1, <2>2 DEF Directory!PendingPuts
<1>8. \A t \in B : req[t].uid \in Uid
  BY <1>1, <1>3, BatchApplied
<1>9. ASSUME NEW u \in Uid
      PROVE  dir'[u] = IF \E t \in B : op[t].req.uid = u
                       THEN Append(dir[u], [epoch |-> epoch + 1,
                                            pk |-> op[CHOOSE t \in B : op[t].req.uid = u].req.pk])
                       ELSE dir[u]
  <2>1. /\ dir[u] = VersionsIn(epochHist[NumEpochs].dig, u)
        /\ dir'[u] = VersionsIn(epochHist[NumEpochs].dig, u)'
    OBVIOUS
  <2>2. epoch + 1 = NumEpochs
    BY <1>2
  <2> HIDE DEF op, dir, epoch
  <2>3. CASE \E t \in B : op[t].req.uid = u
    <3>1. PICK t \in B : op[t].req.uid = u /\ t = CHOOSE s \in B : op[s].req.uid = u
      BY <2>3
    <3>2. req[t].uid = u /\ op[t].req.pk = req[t].pk
      BY <1>7, <3>1
    <3>3. dir'[u] = Append(dir[u], [epoch |-> NumEpochs, pk |-> req[t].pk])
      BY <1>3, <2>1, <3>2, VersionsAfter
    <3> QED
      BY <2>2, <2>3, <3>1, <3>2, <3>3
  <2>4. CASE ~ \E t \in B : op[t].req.uid = u
    <3>1. \A t \in B : req[t].uid # u
      BY <1>7, <2>4
    <3> QED
      BY <1>3, <2>1, <2>4, <3>1, VersionsAfter
  <2> QED
    BY <2>3, <2>4
<1>10. ASSUME NEW t \in Thread
       PROVE  OpOf(t)' = IF t \in B
                         THEN Directory!Done(op[t].req, [err |-> FALSE, epoch |-> epoch + 1,
                                                         ver |-> Len(dir[op[t].req.uid])])
                         ELSE IF t \in R THEN Directory!Done(op[t].req, Directory!Refused)
                         ELSE op[t]
  <2>1. epoch + 1 = NumEpochs /\ op[t] = OpOf(t)
    BY <1>2
  <2>2. \A u \in Uid : dir[u] = VersionsIn(epochHist[NumEpochs].dig, u)
    OBVIOUS
  <2> HIDE DEF op, dir, epoch
  <2>3. CASE t \in B
    <3>1. op[t].req = req[t] /\ req[t].uid \in Uid
      BY <1>7, <1>8, <2>3
    <3>2. Len(dir[req[t].uid]) = outs0[t].latest.ver
      BY <1>3, <2>2, <2>3, <3>1, VersionsAfter
    <3>3. ~resp'[t].err /\ outs0'[t] = outs0[t] /\ NumEpochs' - 1 = NumEpochs
      BY <1>1, <1>2, <1>3, <2>3 DEF Batch
    <3>4. PutResult(t)' = [err |-> FALSE, epoch |-> NumEpochs, ver |-> outs0[t].latest.ver]
      BY <3>3 DEF PutResult
    <3>5. OpOf(t)' = Directory!Done(req[t], PutResult(t)')
      BY <1>4, <1>6, <2>3
    <3>6. [err |-> FALSE, epoch |-> epoch + 1, ver |-> Len(dir[op[t].req.uid])] = PutResult(t)'
      BY <2>1, <3>1, <3>2, <3>4
    <3> QED
      BY <2>3, <3>1, <3>5, <3>6, Zenon
  <2>4. CASE t \in R
    <3>1. t \notin B /\ op[t].req = req[t]
      BY <1>6, <1>7, <2>4
    <3>2. PutResult(t)' = [err |-> TRUE]
      BY <1>1, <1>3, <2>4 DEF PutResult, BatchRefused
    <3> QED
      BY <1>4, <1>6, <2>4, <3>1, <3>2 DEF Directory!Refused
  <2>5. CASE t \notin B /\ t \notin R
    BY <1>5, <1>6, <2>1, <2>5
  <2> QED
    BY <2>3, <2>4, <2>5
<1>11. Directory!Commit(B, R)
  <2>1. \A t1, t2 \in B : op[t1].req.uid = op[t2].req.uid => t1 = t2
    <3> HIDE DEF op
    <3> QED
      BY <1>6, <1>7
  <2>2. \A t \in R : \E b \in B : op[b].req.uid = op[t].req.uid
    <3> HIDE DEF op
    <3> QED
      BY <1>6, <1>7
  <2>3. epoch' = epoch + 1
    BY <1>2
  <2>4. dir' = [u \in Uid |->
            IF \E t \in B : op[t].req.uid = u
            THEN Append(dir[u], [epoch |-> epoch + 1,
                                 pk |-> op[CHOOSE t \in B : op[t].req.uid = u].req.pk])
            ELSE dir[u]]
    <3>1. dir' = [u \in Uid |-> dir'[u]]
      OBVIOUS
    <3> HIDE DEF op, dir, epoch
    <3> QED
      BY <1>9, <3>1
  <2>5. op' = [t \in Thread |->
            IF t \in B
            THEN Directory!Done(op[t].req, [err |-> FALSE, epoch |-> epoch + 1,
                                            ver |-> Len(dir[op[t].req.uid])])
            ELSE IF t \in R THEN Directory!Done(op[t].req, Directory!Refused)
            ELSE op[t]]
    <3>1. op' = [t \in Thread |-> OpOf(t)']
      OBVIOUS
    <3> HIDE DEF op, dir, epoch
    <3> QED
      BY <1>10, <3>1
  <2> QED
    BY <1>6, <2>1, <2>2, <2>3, <2>4, <2>5 DEF Directory!Commit
<1> QED
  BY <1>7, <1>11
-----------------------------------------------------------------------------
(* The theorem. *)

\* Every step of the server is one of the directory or changes nothing there.
LEMMA StepSim ==
    ASSUME SimInv, [Next]_vars
    PROVE  [Directory!Next]_(Directory!vars)
<1>1. CASE WorkerPublish
  BY <1>1, PublishSim DEF Directory!Next
<1>2. CASE WorkerGet
  BY <1>2, WorkerGetSim
<1>3. CASE WorkerWaitLock \/ WorkerLock \/ WorkerApply \/ \E t \in Thread : Mapper0(t)
  BY <1>3, PrepareSim
<1>4. ASSUME NEW t \in Thread, Mapper1(t)
      PROVE  UNCHANGED Directory!vars
  BY <1>4, Mapper1Sim
<1>5. CASE WorkerFinish
  BY <1>5, WorkerFinishSim
<1>6. ASSUME NEW t \in Thread, CallPut(t) \/ CallRead(t) \/ Serve(t)
      PROVE  \/ Directory!Call(t) \/ Directory!Read(t) \/ Directory!Return(t)
             \/ UNCHANGED Directory!vars
  BY <1>6, CallSim, ReadLockSim, GetSim, SelfMonSim, AuditSim, ReturnSim DEF Serve
<1>7. CASE UNCHANGED vars
  <2>1. /\ epochHist' = epochHist /\ UNCHANGED <<pc, req, resp, wpc, work, idx, outs0>>
    BY <1>7 DEF vars
  <2>2. \A t : Committed(t)' <=> Committed(t)
    BY <2>1 DEF Committed
  <2> QED
    BY <2>1, <2>2, OpSame, Quiet
<1> HIDE DEF Directory!vars
<1> QED
  BY <1>1, <1>2, <1>3, <1>4, <1>5, <1>6, <1>7 DEF Next, Worker, Directory!Next

\* The directory of a new server is empty.
LEMMA InitSim ==
    ASSUME Init
    PROVE  Directory!Init
<1>1. NumEpochs = 1 /\ epochHist[NumEpochs].dig = {}
  BY EmptyMapFacts DEF Init, EpochInfo, NumEpochs
<1>2. NumEpochs - 1 = 0
  BY <1>1
<1>3. \A u : VersionsIn({}, u) = <<>>
  <2> TAKE u
  <2>1. {entry \in {} : entry[1].uid = u} = {}
    OBVIOUS
  <2>2. Cardinality({}) = 0
    BY FS_EmptySet
  <2> QED
    BY <2>1, <2>2 DEF VersionsIn
<1>4. \A t \in Thread : OpOf(t) = Directory!Idle
  BY Ops DEF Init
<1> QED
  BY <1>1, <1>2, <1>3, <1>4 DEF Directory!Init

\* Linearizable: the calls of the server behave as if each took effect at one
\* instant between its invocation and its return, the Puts of an epoch when the
\* Worker signs it and the reads under the read lock.
THEOREM ServerIsLinearizable == Spec => Linearizable
<1>1. Init => Directory!Init
  BY InitSim
<1>2. SimInv /\ [Next]_vars => [Directory!Next]_(Directory!vars)
  BY StepSim
<1> QED
  BY <1>1, <1>2, SimInvariance, PTL DEF Spec, Linearizable, Directory!Spec
=============================================================================
