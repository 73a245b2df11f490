----------------------------- MODULE WorkQProofs -----------------------------
(***************************************************************************)
(* The queue's safety, proved for any numbers of clients, works and works  *)
(* of a batch.                                                             *)
(*                                                                         *)
(* The argument: a work belongs to one client, whose call it is part of,   *)
(* and is in the queue or in the batch once, until it is done.  Hence each *)
(* condition variable has one goroutine that can sleep on it, so that a    *)
(* Signal wakes whoever has to be woken; and what a sleeper has to be told *)
(* of changes only under the mutex that it tested it under.                *)
(***************************************************************************)
EXTENDS WorkQ, TLAPS

Distinct(s) == \A i, j \in DOMAIN s : s[i] = s[j] => i = j

\* Where a client waits for one of its works.
WaitPlaces == {"lockw", "test", "enter", "asleep"}

Batches == UNION {Injection(1..n, Work) : n \in 0..MaxBatch}

\* The works that the Worker has taken or will take.
Unfinished == Range(work) \cup Range(batch)

\* Who holds a mutex is between its Lock and its Unlock.
MutexInv ==
    /\ \A c \in Client : mu[Queue] = c <=> pc[c] \in {"append", "signal"}
    /\ mu[Queue] = Worker <=> wpc \in {"testq", "enter"}
    /\ \A w \in Work :
        /\ \A c \in Client : mu[w] = c <=> pc[c] \in {"test", "enter"} /\ Awaited(c) = w
        /\ mu[w] = Worker <=> wpc \in {"setdone", "signal"} /\ Head(batch) = w

\* Who sleeps, and what it has seen before.
SleepInv ==
    /\ waiters[Queue] \subseteq {Worker}
    /\ Worker \in waiters[Queue] => wpc = "asleep"
    /\ \A w \in Work : \A p \in waiters[w] :
            p \in Client /\ pc[p] = "asleep" /\ Awaited(p) = w
    /\ wpc = "enter" => work = <<>>
    /\ \A c \in Client : pc[c] = "enter" => ~done[Awaited(c)]

\* The works of a call: nobody else's, and where they are.
OwnInv ==
    /\ \A c \in Client : mine[c] \in Batches
    /\ \A c, d \in Client : c # d => Range(mine[c]) \cap Range(mine[d]) = {}
    /\ \A c \in Client : pc[c] \notin WaitPlaces => left[c] = 0
    /\ \A c \in Client : pc[c] \in {"lockq", "append"} =>
            \A w \in Range(mine[c]) : ~done[w] /\ w \notin Unfinished
    /\ \A c \in Client : pc[c] \in WaitPlaces \cup {"ret"} =>
            \A i \in DOMAIN mine[c] :
                i > left[c] => done[mine[c][i]] /\ mine[c][i] \notin Unfinished

\* A work is queued or taken once, for a call, and done when it is finished.
QueueInv ==
    /\ Distinct(work) /\ Distinct(batch)
    /\ Range(work) \cap Range(batch) = {}
    /\ \A w \in Unfinished : \E c \in Client : Submitted(c) /\ w \in Range(mine[c])
    /\ wpc \in {"lockq", "testq", "enter", "asleep"} <=> batch = <<>>
    /\ \A w \in Range(work) : ~done[w]
    /\ \A w \in Range(batch) : done[w] <=> w = Head(batch) /\ wpc = "signal"

\* The answer is there before the flag is set.
AnswerInv ==
    /\ wpc \in {"lockw", "setdone", "signal"} => \A w \in Range(batch) : answered[w]
    /\ \A w \in Work : done[w] => answered[w]

IInv ==
    /\ TypeOK
    /\ MutexInv
    /\ SleepInv
    /\ OwnInv
    /\ QueueInv
    /\ AnswerInv
    /\ NoLostWakeup

-----------------------------------------------------------------------------
(* Facts about sequences. *)

\* The first element of a sequence without repetitions is not in the rest.
LEMMA TailFacts ==
    ASSUME NEW s \in Seq(Work), s # <<>>
    PROVE  /\ Tail(s) \in Seq(Work)
           /\ Head(s) \in Work
           /\ Range(s) = {Head(s)} \cup Range(Tail(s))
           /\ Distinct(s) => Distinct(Tail(s)) /\ Head(s) \notin Range(Tail(s))
<1>1. Tail(s) \in Seq(Work) /\ Len(Tail(s)) = Len(s) - 1 /\ Len(s) \in Nat \ {0}
  OBVIOUS
<1>2. Head(s) = s[1] /\ s[1] \in Work /\ DOMAIN s = 1..Len(s)
  OBVIOUS
<1>3. DOMAIN Tail(s) = 1..(Len(s) - 1)
  BY <1>1
<1>4. \A i \in DOMAIN Tail(s) : Tail(s)[i] = s[i + 1] /\ i + 1 \in DOMAIN s
  BY <1>1, <1>2, <1>3
<1>5. Range(s) = {Head(s)} \cup Range(Tail(s))
  <2>1. ASSUME NEW i \in DOMAIN s PROVE s[i] \in {Head(s)} \cup Range(Tail(s))
    <3>1. CASE i = 1
      BY <3>1, <1>2
    <3>2. CASE i # 1
      <4>1. i - 1 \in DOMAIN Tail(s) /\ Tail(s)[i - 1] = s[i]
        BY <3>2, <1>1, <1>2, <1>3, <1>4
      <4> QED
        BY <4>1 DEF Range
    <3> QED
      BY <3>1, <3>2
  <2>2. ASSUME NEW i \in DOMAIN Tail(s) PROVE Tail(s)[i] \in Range(s)
    BY <1>4 DEF Range
  <2>3. Head(s) \in Range(s)
    BY <1>1, <1>2 DEF Range
  <2> QED
    BY <2>1, <2>2, <2>3 DEF Range
<1>6. ASSUME Distinct(s) PROVE Distinct(Tail(s)) /\ Head(s) \notin Range(Tail(s))
  <2>1. Distinct(Tail(s))
    BY <1>3, <1>4, <1>6 DEF Distinct
  <2>2. ASSUME NEW i \in DOMAIN Tail(s), Tail(s)[i] = s[1] PROVE FALSE
    <3>1. i + 1 = 1
      BY <1>1, <1>2, <1>4, <1>6, <2>2 DEF Distinct
    <3> QED
      BY <3>1, <1>3
  <2> QED
    BY <1>2, <2>1, <2>2 DEF Range
<1> QED
  BY <1>1, <1>2, <1>5, <1>6

\* Two sequences without repetitions and without common elements.
LEMMA ConcatFacts ==
    ASSUME NEW s \in Seq(Work), NEW t \in Seq(Work)
    PROVE  /\ s \o t \in Seq(Work)
           /\ Range(s \o t) = Range(s) \cup Range(t)
           /\ Distinct(s) /\ Distinct(t) /\ Range(s) \cap Range(t) = {} => Distinct(s \o t)
<1>1. /\ s \o t \in Seq(Work) /\ DOMAIN (s \o t) = 1..(Len(s) + Len(t))
      /\ \A i \in 1..(Len(s) + Len(t)) :
            (s \o t)[i] = IF i <= Len(s) THEN s[i] ELSE t[i - Len(s)]
  OBVIOUS
<1>2. Range(s \o t) = Range(s) \cup Range(t)
  <2>1. ASSUME NEW i \in DOMAIN (s \o t) PROVE (s \o t)[i] \in Range(s) \cup Range(t)
    <3>1. CASE i <= Len(s)
      BY <1>1, <3>1 DEF Range
    <3>2. CASE ~(i <= Len(s))
      <4>1. i - Len(s) \in DOMAIN t /\ (s \o t)[i] = t[i - Len(s)]
        BY <1>1, <3>2
      <4> QED
        BY <4>1 DEF Range
    <3> QED
      BY <3>1, <3>2
  <2>2. ASSUME NEW i \in DOMAIN s PROVE s[i] \in Range(s \o t)
    <3>1. i \in DOMAIN (s \o t) /\ (s \o t)[i] = s[i]
      BY <1>1
    <3> QED
      BY <3>1 DEF Range
  <2>3. ASSUME NEW i \in DOMAIN t PROVE t[i] \in Range(s \o t)
    <3>1. i + Len(s) \in DOMAIN (s \o t) /\ (s \o t)[i + Len(s)] = t[i]
      BY <1>1
    <3> QED
      BY <3>1 DEF Range
  <2> QED
    BY <2>1, <2>2, <2>3 DEF Range
<1>3. ASSUME Distinct(s), Distinct(t), Range(s) \cap Range(t) = {} PROVE Distinct(s \o t)
  <2> SUFFICES ASSUME NEW i \in DOMAIN (s \o t), NEW j \in DOMAIN (s \o t),
                      (s \o t)[i] = (s \o t)[j]
               PROVE  i = j
    BY DEF Distinct
  <2>1. i \in 1..(Len(s) + Len(t)) /\ j \in 1..(Len(s) + Len(t))
    BY <1>1
  <2>2. \A k \in DOMAIN s, l \in DOMAIN t : s[k] # t[l]
    BY <1>3 DEF Range
  <2>3. CASE i <= Len(s) /\ j <= Len(s)
    BY <1>1, <1>3, <2>1, <2>3 DEF Distinct
  <2>4. CASE i > Len(s) /\ j > Len(s)
    <3>1. i - Len(s) \in DOMAIN t /\ j - Len(s) \in DOMAIN t
      BY <2>1, <2>4
    <3>2. t[i - Len(s)] = t[j - Len(s)]
      BY <1>1, <2>1, <2>4
    <3>3. i - Len(s) = j - Len(s)
      BY <1>3, <3>1, <3>2 DEF Distinct
    <3> QED
      BY <2>1, <3>3
  <2>5. CASE i <= Len(s) /\ j > Len(s)
    BY <1>1, <2>1, <2>2, <2>5
  <2>6. CASE i > Len(s) /\ j <= Len(s)
    BY <1>1, <2>1, <2>2, <2>6
  <2> QED
    BY <2>1, <2>3, <2>4, <2>5, <2>6
<1> QED
  BY <1>1, <1>2, <1>3

\* The works of a call.
LEMMA BatchFacts ==
    ASSUME NEW works \in Batches
    PROVE  works \in Seq(Work) /\ Distinct(works)
<1>1. PICK n \in 0..MaxBatch : works \in Injection(1..n, Work)
  BY DEF Batches
<1>2. works \in [1..n -> Work] /\ n \in Nat
  BY <1>1, MaxBatchAssumption DEF Injection
<1> QED
  BY <1>1, <1>2 DEF Injection, IsInjective, Distinct

\* The work that a client waits for is one of its own.
LEMMA AwaitedFacts ==
    ASSUME IInv
    PROVE  /\ \A c \in Client : pc[c] \in WaitPlaces =>
                Awaited(c) \in Range(mine[c]) /\ Awaited(c) \in Work
           /\ \A c, d \in Client : pc[c] \in WaitPlaces /\ pc[d] \in WaitPlaces =>
                (Awaited(c) = Awaited(d) => c = d)
<1>1. ASSUME NEW c \in Client, pc[c] \in WaitPlaces
      PROVE  Awaited(c) \in Range(mine[c]) /\ Awaited(c) \in Work
  <2>1. left[c] \in 1..Len(mine[c]) /\ mine[c] \in Seq(Work)
    BY <1>1 DEF IInv, TypeOK, WaitPlaces
  <2> QED
    BY <2>1 DEF Awaited, Range
<1> QED
  BY <1>1 DEF IInv, OwnInv

\* Unfinished works are works, and so are those of calls.
LEMMA WorkType ==
    ASSUME TypeOK
    PROVE  /\ Unfinished \subseteq Work
           /\ \A c \in Client : Range(mine[c]) \subseteq Work
           /\ batch # <<>> => Head(batch) \in Range(batch) /\ Head(batch) \in Work
<1>1. \A s \in Seq(Work) : Range(s) \subseteq Work
  BY DEF Range
<1>2. batch # <<>> => Head(batch) \in Range(batch)
  BY TailFacts DEF TypeOK
<1> QED
  BY <1>1, <1>2 DEF TypeOK, Unfinished

-----------------------------------------------------------------------------
(* Steps of clients. *)

\* Do takes the mutex of the queue.
LEMMA LockQueueIInv ==
    ASSUME IInv, NEW c \in Client, LockQueue(c)
    PROVE  IInv'
<1>1. TypeOK'
  BY DEF IInv, TypeOK, Process, LockQueue, Lock, Goto, workerVars
<1>2. MutexInv'
  BY NamesAssumption DEF IInv, TypeOK, MutexInv, Mutex, Awaited, LockQueue, Lock, Goto, workerVars
<1>3. SleepInv'
  BY DEF IInv, SleepInv, Awaited, LockQueue, Goto, workerVars
<1>4. OwnInv'
  BY DEF IInv, OwnInv, Unfinished, WaitPlaces, LockQueue, Goto, workerVars
<1>5. QueueInv'
  BY DEF IInv, QueueInv, Unfinished, Submitted, LockQueue, Goto, workerVars
<1>6. AnswerInv'
  BY DEF IInv, AnswerInv, LockQueue, workerVars
<1>7. NoLostWakeup'
  BY NamesAssumption DEF IInv, NoLostWakeup, Awaited, LockQueue, Lock, Goto, workerVars
<1> QED
  BY <1>1, <1>2, <1>3, <1>4, <1>5, <1>6, <1>7 DEF IInv

\* The works of the call join the queue, where none of them was.
LEMMA AppendWorkIInv ==
    ASSUME IInv, NEW c \in Client, AppendWork(c)
    PROVE  IInv'
<1>a. /\ work' = work \o mine[c] /\ work' \in Seq(Work)
      /\ Range(work') = Range(work) \cup Range(mine[c])
      /\ Distinct(mine[c])
  BY ConcatFacts, BatchFacts DEF IInv, TypeOK, OwnInv, AppendWork
<1>b. /\ Unfinished' = Unfinished \cup Range(mine[c])
      /\ Range(mine[c]) \cap Unfinished = {} /\ \A w \in Range(mine[c]) : ~done[w]
  BY <1>a DEF IInv, OwnInv, AppendWork, Unfinished, workerVars
<1>c. /\ pc[c] = "append" /\ pc' = [pc EXCEPT ![c] = "signal"]
      /\ UNCHANGED <<mine, left, done, batch, wpc>>
  BY DEF AppendWork, Goto, workerVars
<1>1. TypeOK'
  BY DEF IInv, TypeOK, AppendWork, Goto, workerVars
<1>2. MutexInv'
  BY AwaitedFacts DEF IInv, MutexInv, Awaited, AppendWork, Goto, workerVars
<1>3. SleepInv'
  BY NamesAssumption DEF IInv, MutexInv, SleepInv, Awaited, AppendWork, Goto, workerVars
<1>4. OwnInv'
  <2>1. \A d \in Client : pc'[d] # "signal" => d # c /\ pc'[d] = pc[d]
    BY <1>c DEF IInv, TypeOK
  <2>2. \A d \in Client : d # c => Range(mine[d]) \cap Range(mine[c]) = {}
    BY DEF IInv, OwnInv
  <2>3. \A d \in Client : \A i \in DOMAIN mine[d] : mine[d][i] \in Range(mine[d])
    BY DEF Range
  <2>4. ASSUME NEW d \in Client, pc'[d] \in {"lockq", "append"}, NEW w \in Range(mine'[d])
        PROVE  ~done'[w] /\ w \notin Unfinished'
    BY <1>b, <1>c, <2>1, <2>2, <2>4 DEF IInv, OwnInv
  <2>5. ASSUME NEW d \in Client, pc'[d] \in WaitPlaces \cup {"ret"},
               NEW i \in DOMAIN mine'[d], i > left'[d]
        PROVE  done'[mine'[d][i]] /\ mine'[d][i] \notin Unfinished'
    BY <1>b, <1>c, <2>5 DEF IInv, OwnInv, WaitPlaces
  <2>6. \A d \in Client : pc'[d] \notin WaitPlaces => left'[d] = 0
    BY <1>c DEF IInv, TypeOK, OwnInv, WaitPlaces
  <2> QED
    BY <1>c, <2>4, <2>5, <2>6 DEF IInv, OwnInv
<1>5. QueueInv'
  <2>1. Distinct(work') /\ Range(work') \cap Range(batch') = {}
    BY <1>a, <1>b, <1>c, ConcatFacts DEF IInv, QueueInv, Unfinished
  <2>2. ASSUME NEW w \in Unfinished'
        PROVE  \E d \in Client : Submitted(d)' /\ w \in Range(mine'[d])
    <3>1. CASE w \in Unfinished
      BY <1>c, <3>1 DEF IInv, TypeOK, QueueInv, Submitted
    <3>2. CASE w \in Range(mine[c])
      BY <1>c, <3>2 DEF IInv, TypeOK, Submitted
    <3> QED
      BY <1>b, <3>1, <3>2
  <2> QED
    BY <1>a, <1>b, <1>c, <2>1, <2>2 DEF IInv, QueueInv
<1>6. AnswerInv'
  BY DEF IInv, AnswerInv, AppendWork, workerVars
<1>7. NoLostWakeup'
  BY DEF IInv, TypeOK, MutexInv, NoLostWakeup, Awaited, AppendWork, Goto, workerVars
<1> QED
  BY <1>1, <1>2, <1>3, <1>4, <1>5, <1>6, <1>7 DEF IInv

\* Signal wakes the Worker if it sleeps: it is the only one that can.
LEMMA SignalQueueIInv ==
    ASSUME IInv, NEW c \in Client, SignalQueue(c)
    PROVE  IInv'
<1>a. waiters' = [waiters EXCEPT ![Queue] = {}]
  <2>1. CASE waiters[Queue] = {}
    BY <2>1 DEF IInv, TypeOK, Mutex, SignalQueue, Signal
  <2>2. CASE waiters[Queue] = {Worker}
    BY <2>2 DEF IInv, TypeOK, Mutex, SignalQueue, Signal
  <2> QED
    BY <2>1, <2>2 DEF IInv, SleepInv
<1>b. /\ pc[c] = "signal"
      /\ mu' = [mu EXCEPT ![Queue] = NoOne]
      /\ left' = [left EXCEPT ![c] = Len(mine[c])]
      /\ pc' = [pc EXCEPT ![c] = IF Len(mine[c]) = 0 THEN "ret" ELSE "lockw"]
      /\ UNCHANGED <<work, done, answered, mine, wpc, batch>>
  BY DEF SignalQueue, Unlock, WaitFor, Goto, workerVars
<1>1. TypeOK'
  <2>1. /\ mu' \in [Mutex -> Process \cup {NoOne}] /\ waiters' \in [Mutex -> SUBSET Process]
        /\ left' \in [Client -> Nat]
    BY <1>a, <1>b DEF IInv, TypeOK, Mutex
  <2>2. ASSUME NEW d \in Client
        PROVE  /\ left'[d] <= Len(mine'[d])
               /\ pc'[d] \in {"lockw", "test", "enter", "asleep"} => left'[d] # 0
    BY <1>b DEF IInv, TypeOK
  <2> QED
    BY <1>b, <2>1, <2>2 DEF IInv, TypeOK
<1>2. MutexInv'
  BY NamesAssumption DEF IInv, TypeOK, MutexInv, Mutex, Awaited, SignalQueue, Unlock,
     WaitFor, Goto, workerVars
<1>3. SleepInv'
  <2>1. \A d \in Client : pc'[d] \in {"enter", "asleep"} =>
            pc[d] = pc'[d] /\ Awaited(d)' = Awaited(d)
    BY <1>b DEF IInv, TypeOK, Awaited
  <2>2. /\ waiters'[Queue] = {} /\ \A w \in Work : waiters'[w] = waiters[w]
    BY <1>a, NamesAssumption DEF IInv, TypeOK, Mutex
  <2>3. ASSUME NEW w \in Work, NEW p \in waiters'[w]
        PROVE  p \in Client /\ pc'[p] = "asleep" /\ Awaited(p)' = w
    <3>1. p \in Client /\ pc[p] = "asleep" /\ Awaited(p) = w /\ p # c
      BY <1>b, <2>2, <2>3 DEF IInv, SleepInv
    <3> QED
      BY <1>b, <3>1 DEF IInv, TypeOK, Awaited
  <2> QED
    BY <1>b, <2>1, <2>2, <2>3 DEF IInv, SleepInv
<1>4. OwnInv'
  BY DEF IInv, TypeOK, OwnInv, Unfinished, WaitPlaces, SignalQueue, WaitFor, Goto, workerVars
<1>5. QueueInv'
  BY DEF IInv, QueueInv, Unfinished, Submitted, SignalQueue, WaitFor, Goto, workerVars
<1>6. AnswerInv'
  BY DEF IInv, AnswerInv, SignalQueue, workerVars
<1>7. NoLostWakeup'
  <2>1. Worker \notin waiters'[Queue]
    BY <1>a DEF IInv, TypeOK, Mutex
  <2>2. \A d \in Client : pc'[d] = "asleep" => d # c /\ pc[d] = "asleep" /\ Awaited(d)' = Awaited(d)
    BY <1>b DEF IInv, TypeOK, Awaited
  <2>3. \A w \in Work : waiters'[w] = waiters[w]
    BY <1>a, NamesAssumption DEF IInv, TypeOK, Mutex
  <2>4. \A d \in Client : pc[d] = "asleep" => Awaited(d) \in Work
    BY AwaitedFacts DEF WaitPlaces
  <2> QED
    BY <1>b, <2>1, <2>2, <2>3, <2>4 DEF IInv, NoLostWakeup
<1> QED
  BY <1>1, <1>2, <1>3, <1>4, <1>5, <1>6, <1>7 DEF IInv

\* A client takes the mutex of the work that it waits for.
LEMMA LockWorkIInv ==
    ASSUME IInv, NEW c \in Client, LockWork(c)
    PROVE  IInv'
<1>1. TypeOK'
  BY DEF IInv, TypeOK, Process, LockWork, Lock, Goto, workerVars
<1>2. MutexInv'
  BY WorkType, NamesAssumption DEF IInv, TypeOK, MutexInv, Mutex, Awaited, LockWork, Lock,
     Goto, workerVars
<1>3. SleepInv'
  BY DEF IInv, SleepInv, Awaited, LockWork, Goto, workerVars
<1>4. OwnInv'
  BY DEF IInv, OwnInv, Unfinished, WaitPlaces, LockWork, Goto, workerVars
<1>5. QueueInv'
  BY DEF IInv, QueueInv, Unfinished, Submitted, LockWork, Goto, workerVars
<1>6. AnswerInv'
  BY DEF IInv, AnswerInv, LockWork, workerVars
<1>7. NoLostWakeup'
  BY DEF IInv, TypeOK, MutexInv, NoLostWakeup, Awaited, LockWork, Lock, Goto, workerVars
<1> QED
  BY <1>1, <1>2, <1>3, <1>4, <1>5, <1>6, <1>7 DEF IInv

\* A work that is done is left behind; otherwise the client goes on to sleep.
LEMMA TestDoneIInv ==
    ASSUME IInv, NEW c \in Client, TestDone(c)
    PROVE  IInv'
<1> DEFINE w == Awaited(c)
<1>a. /\ pc[c] = "test" /\ w \in Range(mine[c]) /\ w \in Work /\ mu[w] = c
      /\ left[c] \in 1..Len(mine[c]) /\ w = mine[c][left[c]]
  <2>1. pc[c] = "test" /\ pc[c] \in WaitPlaces
    BY DEF TestDone, WaitPlaces
  <2>2. w \in Range(mine[c]) /\ w \in Work
    BY <2>1, AwaitedFacts
  <2>3. mu[w] = c
    BY <2>1, <2>2 DEF IInv, MutexInv
  <2> QED
    BY <2>1, <2>2, <2>3 DEF IInv, TypeOK, Awaited
<1>b. UNCHANGED <<waiters, work, done, answered, mine, wpc, batch>>
  BY DEF TestDone, workerVars
<1>c. ASSUME ~done[w]
      PROVE  pc' = [pc EXCEPT ![c] = "enter"] /\ UNCHANGED <<mu, left>>
  BY <1>c DEF TestDone, Goto
<1>d. ASSUME done[w]
      PROVE  /\ mu' = [mu EXCEPT ![w] = NoOne]
             /\ left' = [left EXCEPT ![c] = left[c] - 1]
             /\ pc' = [pc EXCEPT ![c] = IF left[c] - 1 = 0 THEN "ret" ELSE "lockw"]
  BY <1>d DEF TestDone, Unlock, WaitFor, Goto
<1> HIDE DEF w
<1>e. \A d \in Client : d # c => pc'[d] = pc[d] /\ left'[d] = left[d]
  BY <1>c, <1>d DEF IInv, TypeOK
<1>f. \A d \in Client : d # c => Awaited(d)' = Awaited(d)
  BY <1>b, <1>e DEF Awaited
<1>g. pc'[c] # "asleep" /\ pc'[c] \in {"enter", "ret", "lockw"}
  BY <1>a, <1>c, <1>d DEF IInv, TypeOK
<1>1. TypeOK'
  <2>1. /\ mu' \in [Mutex -> Process \cup {NoOne}]
        /\ left' \in [Client -> Nat]
        /\ left'[c] <= Len(mine[c])
        /\ pc'[c] \in {"lockw", "test", "enter", "asleep"} => left'[c] # 0
        /\ pc' \in [Client -> {"idle", "lockq", "append", "signal", "lockw", "test",
                               "enter", "asleep", "ret"}]
    <3>1. CASE done[w]
      <4>1. mu' \in [Mutex -> Process \cup {NoOne}]
        BY <1>d, <3>1 DEF IInv, TypeOK
      <4>2. left[c] - 1 \in Nat /\ left[c] - 1 <= Len(mine[c]) /\ Len(mine[c]) \in Nat
        BY <1>a DEF IInv, TypeOK
      <4>3. left' \in [Client -> Nat] /\ left'[c] = left[c] - 1
        BY <1>d, <3>1, <4>2 DEF IInv, TypeOK
      <4>4. pc' \in [Client -> {"idle", "lockq", "append", "signal", "lockw", "test",
                               "enter", "asleep", "ret"}]
        BY <1>d, <3>1 DEF IInv, TypeOK
      <4>5. left[c] - 1 = 0 => pc'[c] = "ret"
        BY <1>d, <3>1 DEF IInv, TypeOK
      <4> QED
        BY <4>1, <4>2, <4>3, <4>4, <4>5
    <3>2. CASE ~done[w]
      BY <1>a, <1>c, <3>2 DEF IInv, TypeOK
    <3> QED
      BY <3>1, <3>2
  <2>2. ASSUME NEW d \in Client
        PROVE  /\ left'[d] <= Len(mine'[d])
               /\ pc'[d] \in {"lockw", "test", "enter", "asleep"} => left'[d] # 0
    BY <1>b, <1>e, <2>1 DEF IInv, TypeOK
  <2> QED
    BY <1>b, <2>1, <2>2 DEF IInv, TypeOK
<1>2. MutexInv'
  <2>1. CASE done[w]
    <3>0. pc'[c] \in {"ret", "lockw"}
      BY <1>d, <2>1 DEF IInv, TypeOK
    <3>1. /\ mu'[w] = NoOne /\ \A m \in Mutex : m # w => mu'[m] = mu[m]
          /\ w # Queue /\ Queue \in Mutex /\ Work \subseteq Mutex
          /\ pc'[c] \in {"ret", "lockw"}
      BY <1>a, <1>d, <2>1, NamesAssumption DEF IInv, TypeOK, Mutex
    <3>2. \A d \in Client : d # Worker /\ d # NoOne
      BY NamesAssumption
    <3>3. NoOne # Worker /\ mu[w] = c /\ pc[c] = "test" /\ Awaited(c) = w /\ w \in Work
      BY <1>a, NamesAssumption DEF w
    <3>4. \A d \in Client : mu'[Queue] = d <=> pc'[d] \in {"append", "signal"}
      BY <1>e, <3>1, <3>3 DEF IInv, MutexInv
    <3>5. mu'[Queue] = Worker <=> wpc' \in {"testq", "enter"}
      BY <1>b, <3>1 DEF IInv, MutexInv
    <3>6. ASSUME NEW v \in Work, NEW d \in Client
          PROVE  mu'[v] = d <=> pc'[d] \in {"test", "enter"} /\ Awaited(d)' = v
      <4>1. CASE d = c
        BY <3>1, <3>2, <3>3, <4>1 DEF IInv, MutexInv
      <4>2. CASE d # c
        BY <1>e, <1>f, <3>1, <3>2, <3>3 DEF IInv, MutexInv
      <4> QED
        BY <4>1, <4>2
    <3>7. ASSUME NEW v \in Work
          PROVE  mu'[v] = Worker <=> wpc' \in {"setdone", "signal"} /\ Head(batch') = v
      BY <1>b, <3>1, <3>2, <3>3 DEF IInv, MutexInv
    <3> QED
      BY <3>4, <3>5, <3>6, <3>7 DEF MutexInv
  <2>2. CASE ~done[w]
    <3>1. /\ mu' = mu /\ pc[c] = "test" /\ pc'[c] = "enter"
          /\ \A d \in Client : Awaited(d)' = Awaited(d)
      BY <1>a, <1>b, <1>c, <2>2 DEF IInv, TypeOK, Awaited
    <3> QED
      BY <1>b, <1>e, <3>1 DEF IInv, MutexInv
  <2> QED
    BY <2>1, <2>2
<1>3. SleepInv'
  <2>1. \A p \in Client : pc[p] = "asleep" => p # c
    BY <1>a
  <2>2. pc'[c] = "enter" => ~done[w] /\ Awaited(c)' = w
    BY <1>b, <1>c, <1>d DEF IInv, TypeOK, Awaited, w
  <2>3. \A d \in Client : pc'[d] = "enter" => ~done'[Awaited(d)']
    BY <1>b, <1>e, <1>f, <2>2 DEF IInv, SleepInv
  <2> QED
    BY <1>b, <1>e, <1>f, <2>1, <2>3 DEF IInv, SleepInv
<1>4. OwnInv'
  <2>1. Unfinished' = Unfinished
    BY <1>b DEF Unfinished
  <2>2. pc'[c] \notin WaitPlaces => left'[c] = 0
    BY <1>a, <1>c, <1>d DEF IInv, TypeOK, WaitPlaces
  <2>3. done[w] => w \notin Unfinished
    <3>1. w \in Range(batch) /\ done[w] => mu[w] = Worker
      BY <1>a, WorkType DEF IInv, MutexInv, QueueInv
    <3> QED
      BY <1>a, <3>1, NamesAssumption DEF IInv, QueueInv, Unfinished
  <2>4. ASSUME NEW i \in DOMAIN mine[c], i > left'[c]
        PROVE  done[mine[c][i]] /\ mine[c][i] \notin Unfinished
    <3>1. mine[c] \in Seq(Work) /\ i \in 1..Len(mine[c])
      BY DEF IInv, TypeOK
    <3>2. CASE i > left[c]
      BY <1>a, <3>2 DEF IInv, OwnInv, WaitPlaces
    <3>3. CASE ~(i > left[c])
      <4>1. done[w]
        BY <1>c, <2>4, <3>3
      <4>2. left'[c] = left[c] - 1
        BY <1>d, <4>1 DEF IInv, TypeOK
      <4>3. i = left[c]
        <5>1. i \in Int /\ left[c] \in Int
          BY <1>a, <3>1
        <5>2. i > left[c] - 1
          BY <2>4, <4>2
        <5> QED
          BY <3>3, <5>1, <5>2
      <4> QED
        BY <1>a, <2>3, <4>1, <4>3
    <3> QED
      BY <3>2, <3>3
  <2>5. \A d \in Client : pc'[d] \notin WaitPlaces => left'[d] = 0
    BY <1>e, <2>2 DEF IInv, OwnInv
  <2>6. \A d \in Client : pc'[d] \in {"lockq", "append"} => d # c /\ pc[d] = pc'[d]
    BY <1>e, <1>g
  <2>7. ASSUME NEW d \in Client, pc'[d] \in WaitPlaces \cup {"ret"},
               NEW i \in DOMAIN mine[d], i > left'[d]
        PROVE  done[mine[d][i]] /\ mine[d][i] \notin Unfinished
    BY <1>e, <2>4, <2>7 DEF IInv, OwnInv
  <2> QED
    BY <1>b, <2>1, <2>5, <2>6, <2>7 DEF IInv, OwnInv
<1>5. QueueInv'
  <2>1. \A d \in Client : Submitted(d) => Submitted(d)'
    BY <1>e, <1>g DEF Submitted
  <2> QED
    BY <1>b, <2>1 DEF IInv, QueueInv, Unfinished
<1>6. AnswerInv'
  BY DEF IInv, AnswerInv, TestDone, workerVars
<1>7. NoLostWakeup'
  <2>1. \A d \in Client : pc[d] = "signal" /\ mu[Queue] = d => pc'[d] = "signal" /\ mu'[Queue] = d
    <3>1. mu'[Queue] = mu[Queue]
      BY <1>a, <1>c, <1>d, NamesAssumption DEF IInv, TypeOK, Mutex
    <3> QED
      BY <1>a, <1>e, <3>1
  <2> QED
    BY <1>b, <1>e, <1>f, <1>g, <2>1 DEF IInv, NoLostWakeup
<1> QED
  BY <1>1, <1>2, <1>3, <1>4, <1>5, <1>6, <1>7 DEF IInv

\* Wait gives the mutex back and falls asleep at once, so that no signal is missed.
LEMMA EnterWaitIInv ==
    ASSUME IInv, NEW c \in Client, EnterWait(c)
    PROVE  IInv'
<1>1. TypeOK'
  BY DEF IInv, TypeOK, Process, EnterWait, Wait, Unlock, Goto, workerVars
<1>2. MutexInv'
  BY NamesAssumption DEF IInv, TypeOK, MutexInv, Mutex, Awaited, EnterWait, Wait, Unlock,
     Goto, workerVars
<1>3. SleepInv'
  BY NamesAssumption DEF IInv, TypeOK, SleepInv, Awaited, EnterWait, Wait, Goto, workerVars
<1>4. OwnInv'
  <2>1. /\ \A d \in Client : d # c => pc'[d] = pc[d]
        /\ pc[c] = "enter" /\ pc'[c] = "asleep"
        /\ UNCHANGED <<work, done, mine, left, batch>>
    BY DEF IInv, TypeOK, EnterWait, Goto, workerVars
  <2> QED
    BY <2>1 DEF IInv, OwnInv, Unfinished, WaitPlaces
<1>5. QueueInv'
  BY DEF IInv, QueueInv, Unfinished, Submitted, EnterWait, Goto, workerVars
<1>6. AnswerInv'
  BY DEF IInv, AnswerInv, EnterWait, workerVars
<1>7. NoLostWakeup'
  BY DEF IInv, TypeOK, MutexInv, SleepInv, NoLostWakeup, Awaited, EnterWait, Wait, Unlock,
     Goto, workerVars
<1> QED
  BY <1>1, <1>2, <1>3, <1>4, <1>5, <1>6, <1>7 DEF IInv

\* Who was signalled takes the mutex again and tests once more.
LEMMA WakeIInv ==
    ASSUME IInv, NEW c \in Client, Wake(c)
    PROVE  IInv'
<1>1. TypeOK'
  BY DEF IInv, TypeOK, Process, Wake, Lock, Goto, workerVars
<1>2. MutexInv'
  BY WorkType, NamesAssumption DEF IInv, TypeOK, MutexInv, Mutex, Awaited, Wake, Lock, Goto,
     workerVars
<1>3. SleepInv'
  BY DEF IInv, SleepInv, Awaited, Wake, Woken, Goto, workerVars
<1>4. OwnInv'
  BY DEF IInv, OwnInv, Unfinished, WaitPlaces, Wake, Goto, workerVars
<1>5. QueueInv'
  BY DEF IInv, QueueInv, Unfinished, Submitted, Wake, Goto, workerVars
<1>6. AnswerInv'
  BY DEF IInv, AnswerInv, Wake, workerVars
<1>7. NoLostWakeup'
  BY AwaitedFacts, WorkType, NamesAssumption
     DEF IInv, TypeOK, MutexInv, SleepInv, NoLostWakeup, Mutex, Process, WaitPlaces,
     Awaited, Wake, Woken, Lock, Goto, clientVars, workerVars
<1> QED
  BY <1>1, <1>2, <1>3, <1>4, <1>5, <1>6, <1>7 DEF IInv

\* A call returns with no work left in the queue or the batch.
LEMMA ReturnIInv ==
    ASSUME IInv, NEW c \in Client, Return(c)
    PROVE  IInv'
<1>a. /\ pc[c] = "ret" /\ pc'[c] = "idle" /\ mine'[c] = <<>> /\ Range(mine'[c]) = {}
      /\ UNCHANGED <<mu, waiters, work, done, answered, left, wpc, batch, Unfinished>>
  BY DEF IInv, TypeOK, Return, Goto, workerVars, Range, Unfinished
<1>b. \A d \in Client : d # c => pc'[d] = pc[d] /\ mine'[d] = mine[d]
  BY DEF IInv, TypeOK, Return, Goto
<1>c. \A d \in Client : d # c => Awaited(d)' = Awaited(d)
  BY <1>a, <1>b DEF Awaited
<1>d. left[c] = 0
  BY <1>a DEF IInv, OwnInv, WaitPlaces
<1>1. TypeOK'
  <2>1. mine' \in [Client -> Seq(Work)] /\ Len(mine'[c]) = 0
    BY <1>a DEF IInv, TypeOK, Return
  <2>2. ASSUME NEW d \in Client
        PROVE  /\ left'[d] <= Len(mine'[d])
               /\ pc'[d] \in {"lockw", "test", "enter", "asleep"} => left'[d] # 0
    BY <1>a, <1>b, <1>d, <2>1 DEF IInv, TypeOK
  <2> QED
    BY <1>a, <2>1, <2>2 DEF IInv, TypeOK, Return, Goto
<1>2. MutexInv'
  BY DEF IInv, MutexInv, Awaited, Return, Goto, workerVars
<1>3. SleepInv'
  BY DEF IInv, SleepInv, Awaited, Return, Goto, workerVars
<1>4. OwnInv'
  <2>1. mine'[c] \in Batches
    <3>1. <<>> \in Injection(1..0, Work) /\ 0 \in 0..MaxBatch
      BY MaxBatchAssumption DEF Injection, IsInjective
    <3> QED
      BY <1>a, <3>1 DEF Batches
  <2>2. \A d \in Client : pc'[d] \in {"lockq", "append", "ret"} \cup WaitPlaces => d # c
    BY <1>a DEF WaitPlaces
  <2>3. \A d \in Client : mine'[d] \in Batches /\ (pc'[d] \notin WaitPlaces => left'[d] = 0)
    BY <1>a, <1>b, <1>d, <2>1 DEF IInv, OwnInv
  <2>4. \A d, e \in Client : d # e => Range(mine'[d]) \cap Range(mine'[e]) = {}
    BY <1>a, <1>b DEF IInv, OwnInv
  <2> QED
    BY <1>a, <1>b, <2>2, <2>3, <2>4 DEF IInv, OwnInv
<1>5. QueueInv'
  <2>1. \A w \in Range(mine[c]) : w \notin Unfinished
    <3>1. \A i \in DOMAIN mine[c] : i > left[c]
      BY <1>d DEF IInv, TypeOK
    <3> QED
      BY <1>a, <3>1 DEF IInv, OwnInv, Range
  <2>2. ASSUME NEW w \in Unfinished
        PROVE  \E d \in Client : Submitted(d)' /\ w \in Range(mine'[d])
    <3>1. PICK d \in Client : Submitted(d) /\ w \in Range(mine[d])
      BY DEF IInv, QueueInv
    <3>2. d # c
      BY <2>1, <3>1
    <3> QED
      BY <1>b, <3>1, <3>2 DEF Submitted
  <2> QED
    BY <1>a, <2>2 DEF IInv, QueueInv
<1>6. AnswerInv'
  BY DEF IInv, AnswerInv, Return, workerVars
<1>7. NoLostWakeup'
  <2>1. \A d \in Client : pc'[d] = "asleep" => d # c
    BY <1>a
  <2>2. \A d \in Client : pc[d] = "signal" => d # c
    BY <1>a
  <2> QED
    BY <1>a, <1>b, <1>c, <2>1, <2>2 DEF IInv, NoLostWakeup
<1> QED
  BY <1>1, <1>2, <1>3, <1>4, <1>5, <1>6, <1>7 DEF IInv

-----------------------------------------------------------------------------
(* Steps of the Worker. *)

\* The Worker takes the mutex of the queue.
LEMMA GetLockIInv ==
    ASSUME IInv, GetLock
    PROVE  IInv'
<1>1. TypeOK'
  BY DEF IInv, TypeOK, Process, GetLock, Lock, clientVars
<1>2. MutexInv'
  BY NamesAssumption DEF IInv, TypeOK, MutexInv, Mutex, Awaited, GetLock, Lock, clientVars
<1>3. SleepInv'
  BY DEF IInv, SleepInv, Awaited, GetLock, clientVars
<1>4. OwnInv'
  BY DEF IInv, OwnInv, Unfinished, GetLock, clientVars
<1>5. QueueInv'
  BY DEF IInv, QueueInv, Unfinished, Submitted, GetLock, clientVars
<1>6. AnswerInv'
  BY DEF IInv, AnswerInv, GetLock
<1>7. NoLostWakeup'
  BY DEF IInv, SleepInv, NoLostWakeup, Awaited, GetLock, clientVars
<1> QED
  BY <1>1, <1>2, <1>3, <1>4, <1>5, <1>6, <1>7 DEF IInv

\* It takes all works, or goes on to sleep if there are none.
LEMMA GetIInv ==
    ASSUME IInv, Get
    PROVE  IInv'
<1>a. wpc = "testq" /\ UNCHANGED <<waiters, done, answered, pc, mine, left>>
  BY DEF Get, clientVars
<1>b. Range(<<>>) = {} /\ <<>> \in Seq(Work)
  BY DEF Range
<1>c. Unfinished' = Unfinished
  BY <1>a, <1>b DEF IInv, QueueInv, Get, Unfinished
<1>1. TypeOK'
  <2>1. mu' \in [Mutex -> Process \cup {NoOne}]
    BY DEF IInv, TypeOK, Get, Unlock
  <2>2. work' \in Seq(Work) /\ batch' \in Seq(Work) /\ wpc' \in {"enter", "serve"}
    BY <1>b DEF IInv, TypeOK, Get
  <2> QED
    BY <1>a, <2>1, <2>2 DEF IInv, TypeOK
<1>2. MutexInv'
  BY NamesAssumption DEF IInv, TypeOK, MutexInv, Mutex, Awaited, Get, Unlock, clientVars
<1>3. SleepInv'
  BY DEF IInv, SleepInv, Awaited, Get, clientVars
<1>4. OwnInv'
  BY <1>a, <1>c DEF IInv, OwnInv
<1>5. QueueInv'
  BY DEF IInv, QueueInv, Unfinished, Submitted, Get, clientVars
<1>6. AnswerInv'
  BY DEF IInv, AnswerInv, Get
<1>7. NoLostWakeup'
  BY DEF IInv, NoLostWakeup, Awaited, Get, clientVars
<1> QED
  BY <1>1, <1>2, <1>3, <1>4, <1>5, <1>6, <1>7 DEF IInv

\* It falls asleep when it gives the mutex back.
LEMMA GetEnterWaitIInv ==
    ASSUME IInv, GetEnterWait
    PROVE  IInv'
<1>1. TypeOK'
  BY DEF IInv, TypeOK, Process, GetEnterWait, Wait, Unlock, clientVars
<1>2. MutexInv'
  BY NamesAssumption DEF IInv, TypeOK, MutexInv, Mutex, Awaited, GetEnterWait, Wait, Unlock,
     clientVars
<1>3. SleepInv'
  BY DEF IInv, MutexInv, SleepInv, Awaited, GetEnterWait, Wait, clientVars
<1>4. OwnInv'
  BY DEF IInv, OwnInv, Unfinished, GetEnterWait, clientVars
<1>5. QueueInv'
  BY DEF IInv, QueueInv, Unfinished, Submitted, GetEnterWait, clientVars
<1>6. AnswerInv'
  BY DEF IInv, AnswerInv, GetEnterWait
<1>7. NoLostWakeup'
  BY DEF IInv, MutexInv, SleepInv, NoLostWakeup, Awaited, GetEnterWait, Wait, clientVars
<1> QED
  BY <1>1, <1>2, <1>3, <1>4, <1>5, <1>6, <1>7 DEF IInv

\* Woken, it takes the mutex again.
LEMMA GetWakeIInv ==
    ASSUME IInv, GetWake
    PROVE  IInv'
<1>1. TypeOK'
  BY DEF IInv, TypeOK, Process, GetWake, Lock, clientVars
<1>2. MutexInv'
  BY NamesAssumption DEF IInv, TypeOK, MutexInv, Mutex, Awaited, GetWake, Lock, clientVars
<1>3. SleepInv'
  BY DEF IInv, SleepInv, Awaited, GetWake, Woken, clientVars
<1>4. OwnInv'
  BY DEF IInv, OwnInv, Unfinished, GetWake, clientVars
<1>5. QueueInv'
  BY DEF IInv, QueueInv, Unfinished, Submitted, GetWake, clientVars
<1>6. AnswerInv'
  BY DEF IInv, AnswerInv, GetWake
<1>7. NoLostWakeup'
  BY DEF IInv, NoLostWakeup, Awaited, GetWake, Woken, clientVars
<1> QED
  BY <1>1, <1>2, <1>3, <1>4, <1>5, <1>6, <1>7 DEF IInv

\* The answers of a batch are set before any flag.
LEMMA RespondIInv ==
    ASSUME IInv, Respond
    PROVE  IInv'
<1>1. TypeOK'
  BY DEF IInv, TypeOK, Respond, clientVars
<1>2. MutexInv'
  BY DEF IInv, MutexInv, Awaited, Respond, clientVars
<1>3. SleepInv'
  BY DEF IInv, SleepInv, Awaited, Respond, clientVars
<1>4. OwnInv'
  BY DEF IInv, OwnInv, Unfinished, Respond, clientVars
<1>5. QueueInv'
  BY DEF IInv, QueueInv, Unfinished, Submitted, Respond, clientVars
<1>6. AnswerInv'
  <2>1. \A w \in Work : answered'[w] = (answered[w] \/ w \in Range(batch))
    BY DEF Respond
  <2>2. Range(batch) \subseteq Work /\ UNCHANGED <<done, batch>>
    BY WorkType DEF IInv, Unfinished, Respond
  <2> QED
    BY <2>1, <2>2 DEF IInv, AnswerInv
<1>7. NoLostWakeup'
  BY DEF IInv, NoLostWakeup, Awaited, Respond, clientVars
<1> QED
  BY <1>1, <1>2, <1>3, <1>4, <1>5, <1>6, <1>7 DEF IInv

\* Finish takes the mutex of the work.
LEMMA FinishLockIInv ==
    ASSUME IInv, FinishLock
    PROVE  IInv'
<1>1. TypeOK'
  BY DEF IInv, TypeOK, Process, FinishLock, Lock, clientVars
<1>2. MutexInv'
  <2>1. batch # <<>> /\ wpc = "lockw" /\ Head(batch) \in Work
    BY WorkType DEF IInv, QueueInv, FinishLock
  <2>2. /\ mu[Head(batch)] = NoOne /\ mu' = [mu EXCEPT ![Head(batch)] = Worker]
        /\ wpc' = "setdone" /\ UNCHANGED <<pc, mine, left, batch>>
    BY DEF FinishLock, Lock, clientVars
  <2>3. /\ mu'[Head(batch)] = Worker /\ mu'[Queue] = mu[Queue]
        /\ \A w \in Work : w # Head(batch) => mu'[w] = mu[w]
    BY <2>1, <2>2, NamesAssumption DEF IInv, TypeOK, Mutex
  <2>4. \A c \in Client : c # Worker /\ c # NoOne
    BY NamesAssumption
  <2> QED
    BY <2>1, <2>2, <2>3, <2>4 DEF IInv, MutexInv, Awaited
<1>3. SleepInv'
  BY DEF IInv, SleepInv, Awaited, FinishLock, clientVars
<1>4. OwnInv'
  BY DEF IInv, OwnInv, Unfinished, FinishLock, clientVars
<1>5. QueueInv'
  BY DEF IInv, QueueInv, Unfinished, Submitted, FinishLock, clientVars
<1>6. AnswerInv'
  BY DEF IInv, AnswerInv, FinishLock
<1>7. NoLostWakeup'
  BY DEF IInv, SleepInv, NoLostWakeup, Awaited, FinishLock, clientVars
<1> QED
  BY <1>1, <1>2, <1>3, <1>4, <1>5, <1>6, <1>7 DEF IInv

\* It sets the flag, under the mutex that its client tests it under.
LEMMA FinishSetIInv ==
    ASSUME IInv, FinishSet
    PROVE  IInv'
<1>a. batch # <<>> /\ wpc = "setdone" /\ Head(batch) \in Work /\ Head(batch) \in Range(batch)
  BY WorkType DEF IInv, QueueInv, FinishSet
<1>b. /\ done' = [done EXCEPT ![Head(batch)] = TRUE] /\ wpc' = "signal"
      /\ UNCHANGED <<mu, waiters, work, answered, pc, mine, left, batch>>
  BY DEF FinishSet, clientVars
<1>c. done'[Head(batch)] /\ \A w \in Work : w # Head(batch) => done'[w] = done[w]
  BY <1>a, <1>b DEF IInv, TypeOK
<1>1. TypeOK'
  BY DEF IInv, TypeOK, FinishSet, clientVars
<1>2. MutexInv'
  BY DEF IInv, MutexInv, Awaited, FinishSet, clientVars
<1>3. SleepInv'
  BY NamesAssumption DEF IInv, TypeOK, MutexInv, SleepInv, Process, Awaited, FinishSet, clientVars
<1>4. OwnInv'
  <2>1. Unfinished' = Unfinished /\ Head(batch) \in Unfinished
    BY <1>a, <1>b DEF Unfinished
  <2>2. \A c \in Client : Range(mine[c]) \subseteq Work
    BY WorkType DEF IInv
  <2>3. \A c \in Client : \A i \in DOMAIN mine[c] : mine[c][i] \in Work
    BY DEF IInv, TypeOK
  <2> QED
    BY <1>b, <1>c, <2>1, <2>2, <2>3 DEF IInv, OwnInv
<1>5. QueueInv'
  BY WorkType DEF IInv, TypeOK, QueueInv, Unfinished, Submitted, FinishSet, clientVars
<1>6. AnswerInv'
  <2>1. answered[Head(batch)]
    BY <1>a DEF IInv, AnswerInv
  <2> QED
    BY <1>a, <1>b, <1>c, <2>1 DEF IInv, AnswerInv
<1>7. NoLostWakeup'
  BY DEF IInv, NoLostWakeup, Awaited, FinishSet, clientVars
<1> QED
  BY <1>1, <1>2, <1>3, <1>4, <1>5, <1>6, <1>7 DEF IInv

\* It wakes the client if it sleeps, and is done with the work.
LEMMA FinishSignalIInv ==
    ASSUME IInv, FinishSignal
    PROVE  IInv'
<1> DEFINE w == Head(batch)
<1>a. /\ wpc = "signal" /\ batch # <<>> /\ w \in Work /\ w \in Range(batch) /\ w # Queue
      /\ mu[w] = Worker
  BY WorkType, NamesAssumption DEF IInv, QueueInv, MutexInv, FinishSignal
<1>b. /\ mu' = [mu EXCEPT ![w] = NoOne] /\ batch' = Tail(batch)
      /\ wpc' = (IF batch' = <<>> THEN "lockq" ELSE "lockw")
      /\ UNCHANGED <<work, done, answered, pc, mine, left>>
  BY DEF FinishSignal, Unlock, clientVars
<1>c. /\ batch' \in Seq(Work) /\ Range(batch) = {w} \cup Range(batch')
      /\ Distinct(batch') /\ w \notin Range(batch')
  BY <1>a, <1>b, TailFacts DEF IInv, TypeOK, QueueInv
<1>d. waiters' = [waiters EXCEPT ![w] = {}]
  <2>1. \A p, q \in waiters[w] : p = q
    BY <1>a, AwaitedFacts DEF IInv, SleepInv, WaitPlaces
  <2>2. CASE waiters[w] = {}
    BY <1>a, <2>2 DEF IInv, TypeOK, Mutex, FinishSignal, Signal
  <2>3. CASE waiters[w] # {}
    <3>1. PICK p \in waiters[w] : waiters' = [waiters EXCEPT ![w] = @ \ {p}]
      BY <2>3 DEF FinishSignal, Signal
    <3>2. waiters[w] \ {p} = {}
      BY <2>1
    <3> QED
      BY <1>a, <3>1, <3>2 DEF IInv, TypeOK, Mutex
  <2> QED
    BY <2>2, <2>3
<1> HIDE DEF w
<1>e. Unfinished' = Unfinished \ {w}
  <2>1. w \notin Range(work)
    BY <1>a DEF IInv, QueueInv
  <2> QED
    BY <1>b, <1>c, <2>1 DEF Unfinished
<1>f. /\ mu'[w] = NoOne /\ \A m \in Mutex : m # w => mu'[m] = mu[m]
      /\ waiters'[w] = {} /\ \A m \in Mutex : m # w => waiters'[m] = waiters[m]
      /\ w \in Mutex /\ Queue \in Mutex /\ Work \subseteq Mutex
  BY <1>a, <1>b, <1>d DEF IInv, TypeOK, Mutex
<1>g. \A c \in Client : Awaited(c)' = Awaited(c)
  BY <1>b DEF Awaited
<1>1. TypeOK'
  <2>1. /\ mu' \in [Mutex -> Process \cup {NoOne}]
        /\ waiters' \in [Mutex -> SUBSET Process]
    BY <1>b, <1>d DEF IInv, TypeOK
  <2> QED
    BY <1>b, <1>c, <2>1 DEF IInv, TypeOK
<1>2. MutexInv'
  <2>1. wpc' \in {"lockq", "lockw"}
    BY <1>b
  <2>2. \A c \in Client : c # Worker /\ c # NoOne
    BY NamesAssumption
  <2>3. NoOne # Worker
    BY NamesAssumption
  <2>4. \A v \in Work : v # w => mu[v] # Worker
    BY <1>a DEF IInv, MutexInv, w
  <2>5. \A c \in Client : mu'[Queue] = c <=> pc'[c] \in {"append", "signal"}
    BY <1>a, <1>b, <1>f DEF IInv, MutexInv
  <2>6. mu'[Queue] = Worker <=> wpc' \in {"testq", "enter"}
    BY <1>a, <1>f, <2>1 DEF IInv, MutexInv
  <2>7. \A v \in Work, c \in Client :
            mu'[v] = c <=> pc'[c] \in {"test", "enter"} /\ Awaited(c)' = v
    BY <1>a, <1>b, <1>f, <1>g, <2>2 DEF IInv, MutexInv
  <2>8. \A v \in Work : mu'[v] # Worker
    BY <1>f, <2>3, <2>4
  <2> QED
    BY <2>1, <2>5, <2>6, <2>7, <2>8 DEF MutexInv
<1>3. SleepInv'
  <2>1. wpc = "signal" /\ wpc' \in {"lockq", "lockw"} /\ w # Queue
    BY <1>a, <1>b, WorkType DEF FinishSignal
  <2>2. waiters'[Queue] = waiters[Queue]
    BY <1>f, <2>1
  <2>3. Worker \notin waiters[Queue]
    BY <2>1 DEF IInv, SleepInv
  <2>4. \A v \in Work : waiters'[v] \subseteq waiters[v]
    BY <1>f
  <2> QED
    BY <1>b, <1>g, <2>2, <2>3, <2>4 DEF IInv, SleepInv
<1>4. OwnInv'
  BY <1>b, <1>e DEF IInv, OwnInv
<1>5. QueueInv'
  <2>1. wpc' \in {"lockq", "testq", "enter", "asleep"} <=> batch' = <<>>
    BY <1>b
  <2>2. wpc' # "signal" /\ \A v \in Range(batch') : ~done[v]
    BY <1>b, <1>c DEF IInv, QueueInv, w
  <2>3. \A v \in Unfinished' : \E c \in Client : Submitted(c)' /\ v \in Range(mine'[c])
    BY <1>b, <1>e DEF IInv, QueueInv, Submitted
  <2> QED
    BY <1>b, <1>c, <2>1, <2>2, <2>3 DEF IInv, QueueInv
<1>6. AnswerInv'
  BY <1>a, <1>b, <1>c DEF IInv, AnswerInv
<1>7. NoLostWakeup'
  <2>1. Worker \notin waiters[Queue]
    BY <1>a DEF IInv, SleepInv
  <2>2. ASSUME NEW c \in Client, pc[c] = "asleep", c \in waiters'[Awaited(c)], done[Awaited(c)]
        PROVE  FALSE
    <3>1. Awaited(c) \in Work /\ Awaited(c) # w
      BY <1>f, <2>2, AwaitedFacts DEF WaitPlaces
    <3>2. Awaited(c) = w
      BY <1>f, <2>2, <3>1 DEF IInv, NoLostWakeup, w
    <3> QED
      BY <3>1, <3>2
  <2> QED
    BY <1>a, <1>b, <1>f, <1>g, <2>1, <2>2 DEF NoLostWakeup
<1> QED
  BY <1>1, <1>2, <1>3, <1>4, <1>5, <1>6, <1>7 DEF IInv

-----------------------------------------------------------------------------
(* A new call. *)

\* One work is a batch too.
LEMMA SingleBatch == ASSUME NEW w \in Work PROVE <<w>> \in Batches
<1>1. <<w>> \in Injection(1..1, Work)
  BY DEF Injection, IsInjective
<1>2. 1 \in 0..MaxBatch
  BY MaxBatchAssumption
<1> QED
  BY <1>1, <1>2 DEF Batches

\* A call submits works that nobody else has.
LEMMA NewWorksIInv ==
    ASSUME IInv, NEW c \in Client, NEW works \in Batches, NewWorks(c, works)
    PROVE  IInv'
<1>a. works \in Seq(Work) /\ Range(works) \subseteq Work
  BY BatchFacts DEF Range
<1>b. /\ pc[c] = "idle" /\ pc' = [pc EXCEPT ![c] = "lockq"]
      /\ mine' = [mine EXCEPT ![c] = works]
      /\ UNCHANGED <<mu, waiters, work, left, wpc, batch, Unfinished>>
  BY DEF NewWorks, Goto, workerVars, Unfinished
<1>c. /\ mine'[c] = works /\ pc'[c] = "lockq" /\ left[c] = 0
      /\ \A d \in Client : d # c => mine'[d] = mine[d] /\ pc'[d] = pc[d]
  <2>1. mine'[c] = works /\ \A d \in Client : d # c => mine'[d] = mine[d]
    BY <1>b DEF IInv, TypeOK
  <2>2. pc'[c] = "lockq" /\ \A d \in Client : d # c => pc'[d] = pc[d]
    BY <1>b DEF IInv, TypeOK
  <2>3. left[c] = 0
    BY <1>b DEF IInv, OwnInv, WaitPlaces
  <2> QED
    BY <2>1, <2>2, <2>3
<1>d. /\ \A d \in Client : Range(works) \cap Range(mine[d]) = {}
      /\ Range(works) \cap Unfinished = {}
  <2>1. Range(works) \cap InUse = {}
    BY DEF NewWorks
  <2>2. \A d \in Client : Range(mine[d]) \subseteq InUse
    BY DEF InUse
  <2>3. Unfinished \subseteq InUse
    BY DEF InUse, Unfinished
  <2> QED
    BY <2>1, <2>2, <2>3
<1>e. /\ done' \in [Work -> BOOLEAN] /\ answered' \in [Work -> BOOLEAN]
      /\ \A w \in Range(works) : ~done'[w]
      /\ \A w \in Work : w \notin Range(works) => done'[w] = done[w] /\ answered'[w] = answered[w]
  BY <1>a DEF IInv, TypeOK, NewWorks
<1>f. \A d \in Client : d # c => Awaited(d)' = Awaited(d)
  BY <1>b, <1>c DEF Awaited
<1>g. \A d \in Client : \A w \in Range(mine[d]) :
            w \in Work /\ done'[w] = done[w] /\ answered'[w] = answered[w]
  BY <1>d, <1>e, WorkType DEF IInv
<1>h. \A w \in Unfinished : w \in Work /\ done'[w] = done[w] /\ answered'[w] = answered[w]
  BY <1>d, <1>e, WorkType DEF IInv
<1>1. TypeOK'
  <2>1. mine' \in [Client -> Seq(Work)]
    BY <1>a, <1>b DEF IInv, TypeOK
  <2>2. ASSUME NEW d \in Client
        PROVE  /\ left'[d] <= Len(mine'[d])
               /\ pc'[d] \in {"lockw", "test", "enter", "asleep"} => left'[d] # 0
    <3>1. Len(works) \in Nat
      BY <1>a
    <3> QED
      BY <1>b, <1>c, <3>1 DEF IInv, TypeOK
  <2> QED
    BY <1>b, <1>e, <2>1, <2>2 DEF IInv, TypeOK
<1>2. MutexInv'
  BY <1>b, <1>c, <1>f DEF IInv, MutexInv
<1>3. SleepInv'
  <2>1. \A d \in Client : pc'[d] \in {"enter", "asleep"} => d # c /\ pc[d] = pc'[d]
    BY <1>c
  <2>2. \A d \in Client : pc'[d] = "enter" => ~done'[Awaited(d)']
    <3>1. \A d \in Client : pc[d] = "enter" => Awaited(d) \in Range(mine[d])
      BY AwaitedFacts DEF WaitPlaces
    <3> QED
      BY <1>f, <1>g, <2>1, <3>1 DEF IInv, SleepInv
  <2>3. \A w \in Work : \A p \in waiters[w] :
            p \in Client /\ pc'[p] = "asleep" /\ Awaited(p)' = w
    BY <1>b, <1>c, <1>f DEF IInv, SleepInv
  <2> QED
    BY <1>b, <2>2, <2>3 DEF IInv, SleepInv
<1>4. OwnInv'
  <2>1. \A d, e \in Client : d # e => Range(mine'[d]) \cap Range(mine'[e]) = {}
    BY <1>c, <1>d DEF IInv, OwnInv
  <2>2. ASSUME NEW d \in Client, pc'[d] \in {"lockq", "append"}, NEW w \in Range(mine'[d])
        PROVE  ~done'[w] /\ w \notin Unfinished
    BY <1>c, <1>d, <1>e, <1>g, <2>2 DEF IInv, OwnInv
  <2>3. ASSUME NEW d \in Client, pc'[d] \in WaitPlaces \cup {"ret"},
               NEW i \in DOMAIN mine'[d], i > left'[d]
        PROVE  done'[mine'[d][i]] /\ mine'[d][i] \notin Unfinished
    <3>1. d # c /\ mine'[d] = mine[d] /\ pc'[d] = pc[d]
      BY <1>c, <2>3 DEF WaitPlaces
    <3>2. mine[d][i] \in Range(mine[d])
      BY <2>3, <3>1 DEF Range
    <3> QED
      BY <1>b, <1>g, <2>3, <3>1, <3>2 DEF IInv, OwnInv
  <2>4. \A d \in Client : mine'[d] \in Batches /\ (pc'[d] \notin WaitPlaces => left'[d] = 0)
    BY <1>b, <1>c DEF IInv, OwnInv
  <2> QED
    BY <1>b, <2>1, <2>2, <2>3, <2>4 DEF OwnInv
<1>5. QueueInv'
  <2>1. ASSUME NEW w \in Unfinished
        PROVE  \E d \in Client : Submitted(d)' /\ w \in Range(mine'[d])
    <3>1. PICK d \in Client : Submitted(d) /\ w \in Range(mine[d])
      BY DEF IInv, QueueInv
    <3> QED
      BY <1>b, <1>c, <3>1 DEF Submitted
  <2> QED
    BY <1>b, <1>h, <2>1 DEF IInv, QueueInv, Unfinished
<1>6. AnswerInv'
  BY <1>a, <1>b, <1>e, <1>h DEF IInv, AnswerInv, Unfinished
<1>7. NoLostWakeup'
  <2>1. \A d \in Client : pc'[d] = "asleep" => d # c
    BY <1>c
  <2>2. \A d \in Client : pc[d] = "signal" => d # c
    BY <1>b
  <2>3. \A d \in Client : pc[d] = "asleep" => Awaited(d) \in Range(mine[d])
    BY AwaitedFacts DEF WaitPlaces
  <2> QED
    BY <1>b, <1>f, <1>g, <2>3 DEF IInv, NoLostWakeup
<1> QED
  BY <1>1, <1>2, <1>3, <1>4, <1>5, <1>6, <1>7 DEF IInv

-----------------------------------------------------------------------------
(* The theorems. *)

\* It holds when the queue is made.
LEMMA InitIInv == ASSUME Init PROVE IInv
<1>1. Range(<<>>) = {} /\ Distinct(<<>>) /\ <<>> \in Seq(Work) /\ Unfinished = {}
  BY DEF Init, Range, Distinct, Unfinished
<1>2. <<>> \in Batches
  <2>1. <<>> \in Injection(1..0, Work) /\ 0 \in 0..MaxBatch
    BY MaxBatchAssumption DEF Injection, IsInjective
  <2> QED
    BY <2>1 DEF Batches
<1>3. TypeOK
  BY <1>1 DEF Init, TypeOK, Mutex, Process
<1>4. MutexInv
  BY NamesAssumption DEF Init, MutexInv, Mutex
<1>5. SleepInv /\ AnswerInv /\ NoLostWakeup
  BY DEF Init, SleepInv, AnswerInv, NoLostWakeup, Mutex
<1>6. OwnInv /\ QueueInv
  BY <1>1, <1>2 DEF Init, OwnInv, QueueInv, WaitPlaces
<1> QED
  BY <1>3, <1>4, <1>5, <1>6 DEF IInv

\* A stuttering step keeps it.
LEMMA StutterIInv == ASSUME IInv, UNCHANGED vars PROVE IInv'
BY DEF IInv, vars, TypeOK, MutexInv, SleepInv, OwnInv, QueueInv, AnswerInv, NoLostWakeup,
   Unfinished, Submitted, Awaited

\* IInv holds of every reachable state, which the theorems below rest on.
THEOREM Invariance == Spec => []IInv
<1>1. Init => IInv
  BY InitIInv
<1>2. IInv /\ [Next]_vars => IInv'
  <2> SUFFICES ASSUME IInv, [Next]_vars PROVE IInv'
    OBVIOUS
  <2>1. ASSUME NEW c \in Client, Do(c) \/ DoBatch(c) PROVE IInv'
    BY <2>1, SingleBatch, NewWorksIInv DEF Do, DoBatch, Batches
  <2>2. ASSUME NEW c \in Client, Run(c) PROVE IInv'
    BY <2>2, LockQueueIInv, AppendWorkIInv, SignalQueueIInv, LockWorkIInv, TestDoneIInv,
       EnterWaitIInv, WakeIInv, ReturnIInv DEF Run
  <2>3. ASSUME RunWorker PROVE IInv'
    BY <2>3, GetLockIInv, GetIInv, GetEnterWaitIInv, GetWakeIInv, RespondIInv,
       FinishLockIInv, FinishSetIInv, FinishSignalIInv DEF RunWorker
  <2> QED
    BY <2>1, <2>2, <2>3, StutterIInv DEF Next
<1> QED
  BY <1>1, <1>2, PTL DEF Spec

\* Every variable keeps its type; in particular the loop over the works of a
\* call stays in it.
THEOREM TypeCorrect == Spec => []TypeOK
BY Invariance, PTL DEF IInv

\* Nobody sleeps through the event that it waits for: whoever is asleep and has
\* something to do is about to be signalled.
THEOREM WakeupsAreNotLost == Spec => []NoLostWakeup
BY Invariance, PTL DEF IInv

\* A call that returns has the Worker's answer to all of its works, and the
\* Worker will not touch them again.
THEOREM ReturnsAnswered == Spec => []AnsweredOnReturn
<1>1. IInv => AnsweredOnReturn
  <2> SUFFICES ASSUME IInv, NEW c \in Client, pc[c] = "ret", NEW w \in Range(mine[c])
               PROVE  answered[w] /\ w \notin Unfinished
    BY DEF AnsweredOnReturn, Unfinished
  <2>1. left[c] = 0 /\ mine[c] \in Seq(Work)
    BY DEF IInv, TypeOK, OwnInv, WaitPlaces
  <2>2. PICK i \in DOMAIN mine[c] : w = mine[c][i]
    BY DEF Range
  <2>3. i > left[c] /\ w \in Work
    BY <2>1, <2>2
  <2> QED
    BY <2>2, <2>3 DEF IInv, OwnInv, AnswerInv
<1> QED
  BY <1>1, Invariance, PTL

-----------------------------------------------------------------------------
(* The queue implements BatchQ. *)

\* The library's operators mean the same in both modules.
LEMMA SameLibrary ==
    /\ \A s : BatchQueue!Range(s) = Range(s)
    /\ BatchQueue!Batches = Batches
<1>1. \A n \in 0..MaxBatch : BatchQueue!Injection(1..n, Work) = Injection(1..n, Work)
  BY DEF BatchQueue!Injection, BatchQueue!IsInjective, Injection, IsInjective
<1> QED
  BY <1>1 DEF BatchQueue!Batches, Batches, BatchQueue!Range, Range

\* What a step that changes neither work nor what is done of the calls shows of
\* the abstract state: nothing.
LEMMA CallsFrame ==
    ASSUME UNCHANGED <<done, mine>>, \A c \in Client : Submitted(c)' = Submitted(c)
    PROVE  UNCHANGED <<Finished, Calls>>
BY DEF Finished, Calls

\* Steps of a client that neither append works nor return are stuttering.
LEMMA ClientStutter ==
    ASSUME IInv, NEW c \in Client,
           \/ LockQueue(c) \/ SignalQueue(c) \/ LockWork(c) \/ TestDone(c)
           \/ EnterWait(c) \/ Wake(c)
    PROVE  UNCHANGED BatchQueue!vars
<1>1. UNCHANGED <<work, batch, wpc, done, mine>>
  BY DEF LockQueue, SignalQueue, LockWork, TestDone, EnterWait, Wake, workerVars
<1>2. /\ pc[c] \notin {"idle", "append", "ret"} /\ (pc[c] = "lockq" <=> pc'[c] = "append")
      /\ pc'[c] \notin {"idle", "lockq"}
      /\ \A d \in Client : d # c => pc'[d] = pc[d]
  <2>1. CASE LockQueue(c)
    BY <2>1 DEF IInv, TypeOK, LockQueue, Goto
  <2>2. CASE SignalQueue(c)
    BY <2>2 DEF IInv, TypeOK, SignalQueue, WaitFor, Goto
  <2>3. CASE LockWork(c)
    BY <2>3 DEF IInv, TypeOK, LockWork, Goto
  <2>4. CASE TestDone(c)
    BY <2>4 DEF IInv, TypeOK, TestDone, WaitFor, Goto
  <2>5. CASE EnterWait(c)
    BY <2>5 DEF IInv, TypeOK, EnterWait, Goto
  <2>6. CASE Wake(c)
    BY <2>6 DEF IInv, TypeOK, Wake, Goto
  <2> QED
    BY <2>1, <2>2, <2>3, <2>4, <2>5, <2>6
<1>3. \A d \in Client : Submitted(d)' = Submitted(d)
  BY <1>2, Zenon DEF Submitted
<1> QED
  BY <1>1, <1>3, CallsFrame DEF BatchQueue!vars, Taken

\* Steps of the Worker that neither take nor finish works are stuttering.
LEMMA WorkerStutter ==
    ASSUME IInv,
           \/ GetLock \/ GetEnterWait \/ GetWake \/ Respond \/ FinishLock \/ FinishSignal
    PROVE  UNCHANGED BatchQueue!vars
<1>1. UNCHANGED <<work, done, mine, pc>>
  BY DEF GetLock, GetEnterWait, GetWake, Respond, FinishLock, FinishSignal, clientVars
<1>2. \A d \in Client : Submitted(d)' = Submitted(d)
  BY <1>1 DEF Submitted
<1>3. UNCHANGED Taken
  BY DEF GetLock, GetEnterWait, GetWake, Respond, FinishLock, FinishSignal, Taken
<1> QED
  BY <1>1, <1>2, <1>3, CallsFrame DEF BatchQueue!vars

\* A new call shows when its works are appended.
LEMMA NewWorksStutter ==
    ASSUME IInv, NEW c \in Client, NEW works \in Batches, NewWorks(c, works)
    PROVE  UNCHANGED BatchQueue!vars
<1>1. /\ pc[c] = "idle" /\ pc'[c] = "lockq" /\ UNCHANGED <<work, wpc, batch>>
      /\ \A d \in Client : d # c => pc'[d] = pc[d] /\ mine'[d] = mine[d]
      /\ \A w \in Work : w \notin Range(works) => done'[w] = done[w]
      /\ \A w \in Work : done'[w] => done[w]
  BY DEF IInv, TypeOK, NewWorks, Goto, workerVars
<1>2. \A d \in Client : Range(mine[d]) \cap Range(works) = {}
  BY DEF NewWorks, InUse
<1>3. \A d \in Client : /\ Submitted(d)' = Submitted(d)
                        /\ Submitted(d) => d # c /\ mine'[d] = mine[d]
  BY <1>1, Zenon DEF Submitted
<1>4. Finished' = Finished
  BY <1>1, <1>2, <1>3 DEF Finished
<1>5. Calls' = Calls
  BY <1>3 DEF Calls
<1> QED
  BY <1>1, <1>4, <1>5 DEF BatchQueue!vars, Taken

\* Appending the last work is the submission of the call.
LEMMA AppendWorkSubmits ==
    ASSUME IInv, NEW c \in Client, AppendWork(c)
    PROVE  BatchQueue!Submit(c)
<1>1. /\ pc[c] = "append" /\ pc'[c] = "signal" /\ UNCHANGED <<wpc, batch, mine, done>>
      /\ \A d \in Client : d # c => pc'[d] = pc[d]
      /\ work' = work \o mine[c]
  BY DEF IInv, TypeOK, AppendWork, Goto, workerVars
<1>2. /\ ~Submitted(c) /\ Submitted(c)'
      /\ \A d \in Client : d # c => Submitted(d)' = Submitted(d)
  BY <1>1 DEF Submitted
<1>3. Calls[c] = BatchQueue!Idle
  BY <1>2 DEF Calls, BatchQueue!Idle
<1>4. mine[c] \in BatchQueue!Batches
  BY SameLibrary DEF IInv, OwnInv
<1>5. Range(mine[c]) \cap BatchQueue!InUse = {}
  <2>1. \A d \in Client : Calls[d] # BatchQueue!Idle => d # c /\ Calls[d].works = mine[d]
    BY <1>3 DEF Calls, BatchQueue!Idle
  <2> QED
    BY <2>1, SameLibrary DEF IInv, OwnInv, BatchQueue!InUse
<1>6. Calls' = [Calls EXCEPT ![c] = BatchQueue!Waiting(mine[c])]
  BY <1>1, <1>2 DEF Calls, BatchQueue!Waiting
<1>7. Finished' = Finished
  BY <1>1, <1>2 DEF IInv, OwnInv, Finished
<1> QED
  BY SameLibrary, <1>1, <1>3, <1>4, <1>5, <1>6, <1>7 DEF BatchQueue!Submit, Taken

\* Emptying the queue is the taking of a batch.
LEMMA GetTakes ==
    ASSUME IInv, Get
    PROVE  BatchQueue!Take \/ UNCHANGED BatchQueue!vars
<1>1. /\ wpc = "testq" /\ batch = <<>> /\ UNCHANGED <<done, mine, pc>>
  BY DEF IInv, QueueInv, Get, clientVars
<1>2. UNCHANGED <<Finished, Calls>>
  BY <1>1, CallsFrame DEF Submitted
<1>3. CASE work = <<>>
  BY <1>1, <1>2, <1>3 DEF Get, Taken, BatchQueue!vars
<1>4. CASE work # <<>>
  BY <1>1, <1>2, <1>4 DEF Get, Taken, BatchQueue!Take
<1> QED
  BY <1>3, <1>4

\* Setting done is the finishing of a work.
LEMMA FinishSetFinishes ==
    ASSUME IInv, FinishSet
    PROVE  BatchQueue!Finish
<1>1. /\ batch # <<>> /\ wpc = "setdone" /\ Head(batch) \in Work /\ Head(batch) \in Unfinished
  BY WorkType DEF IInv, QueueInv, FinishSet, Unfinished
<1>2. /\ done' = [done EXCEPT ![Head(batch)] = TRUE] /\ wpc' = "signal"
      /\ UNCHANGED <<work, pc, mine, batch>>
  BY DEF FinishSet, clientVars
<1>3. \A c \in Client : Submitted(c)' = Submitted(c)
  BY <1>2 DEF Submitted
<1>4. \A w \in Work : done'[w] <=> done[w] \/ w = Head(batch)
  BY <1>1, <1>2 DEF IInv, TypeOK
<1>5. \E c \in Client : Submitted(c) /\ Head(batch) \in Range(mine[c])
  BY <1>1 DEF IInv, QueueInv
<1>6. Finished' = Finished \cup {Head(batch)}
  BY <1>1, <1>2, <1>3, <1>4, <1>5 DEF Finished
<1>7. Calls' = Calls
  BY <1>2, <1>3 DEF Calls
<1> QED
  BY <1>1, <1>2, <1>6, <1>7 DEF BatchQueue!Finish, Taken

\* A return is a return of the abstract queue.
LEMMA ReturnReturns ==
    ASSUME IInv, NEW c \in Client, Return(c)
    PROVE  BatchQueue!Return(c)
<1>1. /\ pc[c] = "ret" /\ pc'[c] = "idle" /\ UNCHANGED <<work, done, wpc, batch>>
      /\ \A d \in Client : d # c => pc'[d] = pc[d] /\ mine'[d] = mine[d]
  BY DEF IInv, TypeOK, Return, Goto, workerVars
<1>2. /\ Submitted(c) /\ ~Submitted(c)'
      /\ \A d \in Client : d # c => Submitted(d)' = Submitted(d)
  BY <1>1 DEF Submitted
<1>3. Calls[c].works = mine[c] /\ Calls[c] # BatchQueue!Idle
  BY <1>2 DEF Calls, BatchQueue!Idle
<1>4. Range(mine[c]) \subseteq Finished
  <2>1. left[c] = 0 /\ mine[c] \in Seq(Work)
    BY <1>1 DEF IInv, TypeOK, OwnInv, WaitPlaces
  <2>2. \A i \in DOMAIN mine[c] : mine[c][i] \in Work /\ i > left[c] /\ done[mine[c][i]]
    BY <1>1, <2>1 DEF IInv, OwnInv
  <2> QED
    BY <1>2, <2>2 DEF Finished, Range
<1>5. Finished' = Finished \ Range(mine[c])
  BY <1>1, <1>2 DEF IInv, OwnInv, Finished
<1>6. Calls' = [Calls EXCEPT ![c] = BatchQueue!Idle]
  BY <1>1, <1>2 DEF Calls, BatchQueue!Idle
<1> QED
  BY <1>1, <1>3, <1>4, <1>5, <1>6, SameLibrary DEF BatchQueue!Return, Taken

\* The mutexes and condition variables implement the abstract queue: batches are
\* taken whole and in order, and a call returns when its works are finished.
THEOREM Refinement == Spec => BatchQueue!Spec
<1>1. Init => BatchQueue!Init
  <2> SUFFICES ASSUME Init PROVE BatchQueue!Init
    OBVIOUS
  <2>1. \A c \in Client : ~Submitted(c)
    BY DEF Init, Submitted
  <2>2. Finished = {} /\ Calls = [c \in Client |-> BatchQueue!Idle] /\ Taken = <<>>
    BY <2>1 DEF Init, Finished, Calls, Taken, BatchQueue!Idle
  <2> QED
    BY <2>2 DEF Init, BatchQueue!Init
<1>2. IInv /\ [Next]_vars => [BatchQueue!Next]_(BatchQueue!vars)
  <2> SUFFICES ASSUME IInv, [Next]_vars PROVE [BatchQueue!Next]_(BatchQueue!vars)
    OBVIOUS
  <2>1. ASSUME NEW c \in Client, Do(c) \/ DoBatch(c) PROVE UNCHANGED BatchQueue!vars
    BY <2>1, SingleBatch, NewWorksStutter DEF Do, DoBatch, Batches
  <2>2. ASSUME NEW c \in Client, Run(c) PROVE BatchQueue!Next \/ UNCHANGED BatchQueue!vars
    BY <2>2, ClientStutter, AppendWorkSubmits, ReturnReturns DEF Run, BatchQueue!Next
  <2>3. ASSUME RunWorker PROVE BatchQueue!Next \/ UNCHANGED BatchQueue!vars
    BY <2>3, WorkerStutter, GetTakes, FinishSetFinishes DEF RunWorker, BatchQueue!Next
  <2>4. ASSUME UNCHANGED vars PROVE UNCHANGED BatchQueue!vars
    BY <2>4 DEF vars, BatchQueue!vars, Taken, Finished, Calls, Submitted
  <2> QED
    BY <2>1, <2>2, <2>3, <2>4 DEF Next
<1> QED
  BY <1>1, <1>2, Invariance, PTL DEF Spec, BatchQueue!Spec
=============================================================================
