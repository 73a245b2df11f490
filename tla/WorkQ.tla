-------------------------------- MODULE WorkQ --------------------------------
(***************************************************************************)
(* The queue between the callers of Put and the server's Worker            *)
(* (kt/workq.go): a mutex and a condition variable for the queue, and a    *)
(* mutex and a condition variable for each Work.                           *)
(*                                                                         *)
(* Every lock, every access to what it protects, every Signal and every    *)
(* Wait is a step of its own.  A Work that nobody refers to any more is    *)
(* free, and NewWork takes a free one.                                     *)
(***************************************************************************)
EXTENDS Integers, Sequences, Functions

CONSTANTS
    Client,     \* goroutines that call Do or DoBatch
    Worker,     \* the goroutine that loops in Server.Worker
    Work,       \* Work objects
    Queue,      \* the WorkQ object, as the owner of a mutex
    NoOne,      \* the holder of a free mutex
    MaxBatch    \* most works of a DoBatch

ASSUME NamesAssumption ==
    /\ Worker \notin Client
    /\ NoOne \notin Client \cup {Worker}
    /\ Queue \notin Work
ASSUME MaxBatchAssumption == MaxBatch \in Nat \ {0}

VARIABLES
    mu,         \* mutex of the queue and of each work -> its holder
    waiters,    \* their condition variables -> goroutines asleep in Wait
    work,       \* wq.work
    done,       \* work -> its flag
    answered,   \* work -> has the Worker set its Resp
    pc,         \* where each client is
    mine,       \* client -> the works of its call
    left,       \* client -> how many of them it still waits for
    wpc,        \* where the Worker is
    batch       \* works the Worker has taken and not finished

clientVars == <<pc, mine, left>>
workerVars == <<wpc, batch>>
vars == <<mu, waiters, work, done, answered, pc, mine, left, wpc, batch>>

Process == Client \cup {Worker}
Mutex == Work \cup {Queue}

Init ==
    /\ mu = [m \in Mutex |-> NoOne]
    /\ waiters = [m \in Mutex |-> {}]
    /\ work = <<>>
    /\ done = [w \in Work |-> FALSE]
    /\ answered = [w \in Work |-> FALSE]
    /\ pc = [c \in Client |-> "idle"]
    /\ mine = [c \in Client |-> <<>>]
    /\ left = [c \in Client |-> 0]
    /\ wpc = "lockq"
    /\ batch = <<>>

-----------------------------------------------------------------------------
(* sync.Mutex and sync.Cond: Wait enters the list before it unlocks, Signal *)
(* wakes one goroutine of the list, which then takes the lock again.        *)

Lock(m, p) ==
    /\ mu[m] = NoOne
    /\ mu' = [mu EXCEPT ![m] = p]

Unlock(m) == mu' = [mu EXCEPT ![m] = NoOne]

Wait(m, p) ==
    /\ waiters' = [waiters EXCEPT ![m] = @ \cup {p}]
    /\ Unlock(m)

\* Seeded fault: the wakeup is forgotten.
NoSignal(m) == UNCHANGED waiters

Signal(m) ==
    IF waiters[m] = {}
    THEN UNCHANGED waiters
    ELSE \E p \in waiters[m] : waiters' = [waiters EXCEPT ![m] = @ \ {p}]

Woken(m, p) == p \notin waiters[m]

-----------------------------------------------------------------------------
(* Clients. *)

Goto(c, place) == pc' = [pc EXCEPT ![c] = place]

InUse == (UNION {Range(mine[c]) : c \in Client}) \cup Range(work) \cup Range(batch)

\* Seeded fault: a recycled Work keeps its flag.
RecycledWorks(c, works) ==
    /\ pc[c] = "idle"
    /\ Range(works) \cap InUse = {}
    /\ mine' = [mine EXCEPT ![c] = works]
    /\ Goto(c, "lockq")
    /\ UNCHANGED <<mu, waiters, work, done, answered, left, workerVars>>

\* NewWork for each request of a call.
NewWorks(c, works) ==
    /\ pc[c] = "idle"
    /\ Range(works) \cap InUse = {}
    /\ mine' = [mine EXCEPT ![c] = works]
    /\ done' = [w \in Work |-> done[w] /\ w \notin Range(works)]
    /\ answered' = [w \in Work |-> answered[w] /\ w \notin Range(works)]
    /\ Goto(c, "lockq")
    /\ UNCHANGED <<mu, waiters, work, left, workerVars>>

Do(c) == \E w \in Work : NewWorks(c, <<w>>)

DoBatch(c) ==
    \E n \in 0..MaxBatch : \E works \in Injection(1..n, Work) : NewWorks(c, works)

LockQueue(c) ==
    /\ pc[c] = "lockq"
    /\ Lock(Queue, c)
    /\ Goto(c, "append")
    /\ UNCHANGED <<waiters, work, done, answered, mine, left, workerVars>>

AppendWork(c) ==
    /\ pc[c] = "append"
    /\ work' = work \o mine[c]
    /\ Goto(c, "signal")
    /\ UNCHANGED <<mu, waiters, done, answered, mine, left, workerVars>>

\* Seeded fault: the loop counts down to zero inclusive.
WaitForZero(c, n) ==
    /\ left' = [left EXCEPT ![c] = n]
    /\ Goto(c, "lockw")

\* Where a client goes that has n works left to wait for.
WaitFor(c, n) ==
    /\ left' = [left EXCEPT ![c] = n]
    /\ Goto(c, IF n = 0 THEN "ret" ELSE "lockw")

SignalQueue(c) ==
    /\ pc[c] = "signal"
    /\ Signal(Queue)
    /\ Unlock(Queue)
    /\ WaitFor(c, Len(mine[c]))
    /\ UNCHANGED <<work, done, answered, mine, workerVars>>

\* DoBatch waits for its works from the last to the first.
Awaited(c) == mine[c][left[c]]

LockWork(c) ==
    /\ pc[c] = "lockw"
    /\ Lock(Awaited(c), c)
    /\ Goto(c, "test")
    /\ UNCHANGED <<waiters, work, done, answered, mine, left, workerVars>>

\* for !w.done { w.cond.Wait() }; w.mu.Unlock()
TestDone(c) ==
    /\ pc[c] = "test"
    /\ IF done[Awaited(c)]
       THEN /\ Unlock(Awaited(c))
            /\ WaitFor(c, left[c] - 1)
       ELSE /\ Goto(c, "enter")
            /\ UNCHANGED <<mu, left>>
    /\ UNCHANGED <<waiters, work, done, answered, mine, workerVars>>

EnterWait(c) ==
    /\ pc[c] = "enter"
    /\ Wait(Awaited(c), c)
    /\ Goto(c, "asleep")
    /\ UNCHANGED <<work, done, answered, mine, left, workerVars>>

Wake(c) ==
    LET w == Awaited(c) IN
    /\ pc[c] = "asleep"
    /\ Woken(w, c)
    /\ Lock(w, c)
    /\ Goto(c, "test")
    /\ UNCHANGED <<waiters, work, done, answered, mine, left, workerVars>>

Return(c) ==
    /\ pc[c] = "ret"
    /\ Goto(c, "idle")
    /\ mine' = [mine EXCEPT ![c] = <<>>]
    /\ UNCHANGED <<mu, waiters, work, done, answered, left, workerVars>>

-----------------------------------------------------------------------------
(* The Worker. *)

GetLock ==
    /\ wpc = "lockq"
    /\ Lock(Queue, Worker)
    /\ wpc' = "testq"
    /\ UNCHANGED <<waiters, work, done, answered, clientVars, batch>>

\* for wq.work == nil { wq.cond.Wait() }; take the queue
Get ==
    /\ wpc = "testq"
    /\ IF work = <<>>
       THEN /\ wpc' = "enter"
            /\ UNCHANGED <<mu, work, batch>>
       ELSE /\ batch' = work
            /\ work' = <<>>
            /\ Unlock(Queue)
            /\ wpc' = "serve"
    /\ UNCHANGED <<waiters, done, answered, clientVars>>

GetEnterWait ==
    /\ wpc = "enter"
    /\ Wait(Queue, Worker)
    /\ wpc' = "asleep"
    /\ UNCHANGED <<work, done, answered, clientVars, batch>>

GetWake ==
    /\ wpc = "asleep"
    /\ Woken(Queue, Worker)
    /\ Lock(Queue, Worker)
    /\ wpc' = "testq"
    /\ UNCHANGED <<waiters, work, done, answered, clientVars, batch>>

\* Server.Worker sets every Resp of the batch before it finishes any.
Respond ==
    /\ wpc = "serve"
    /\ answered' = [w \in Work |-> answered[w] \/ w \in Range(batch)]
    /\ wpc' = "lockw"
    /\ UNCHANGED <<mu, waiters, work, done, clientVars, batch>>

\* Seeded fault: Finish sets the flag without the lock.
FinishNoLock ==
    /\ wpc = "lockw"
    /\ wpc' = "setdone"
    /\ UNCHANGED <<mu, waiters, work, done, answered, clientVars, batch>>

FinishLock ==
    /\ wpc = "lockw"
    /\ Lock(Head(batch), Worker)
    /\ wpc' = "setdone"
    /\ UNCHANGED <<waiters, work, done, answered, clientVars, batch>>

FinishSet ==
    /\ wpc = "setdone"
    /\ done' = [done EXCEPT ![Head(batch)] = TRUE]
    /\ wpc' = "signal"
    /\ UNCHANGED <<mu, waiters, work, answered, clientVars, batch>>

FinishSignal ==
    /\ wpc = "signal"
    /\ Signal(Head(batch))
    /\ Unlock(Head(batch))
    /\ batch' = Tail(batch)
    /\ wpc' = IF Tail(batch) = <<>> THEN "lockq" ELSE "lockw"
    /\ UNCHANGED <<work, done, answered, clientVars>>

-----------------------------------------------------------------------------
\* The steps of a call once it is made.
Run(c) ==
    \/ LockQueue(c) \/ AppendWork(c) \/ SignalQueue(c)
    \/ LockWork(c) \/ TestDone(c) \/ EnterWait(c) \/ Wake(c) \/ Return(c)

RunWorker ==
    \/ GetLock \/ Get \/ GetEnterWait \/ GetWake
    \/ Respond
    \/ FinishLock \/ FinishSet \/ FinishSignal

Next ==
    \/ \E c \in Client : Do(c) \/ DoBatch(c) \/ Run(c)
    \/ RunWorker

Spec == Init /\ [][Next]_vars

\* Goroutines run, and a mutex that others take again and again is granted in
\* the end: a waiter of one millisecond puts a sync.Mutex in starvation mode.
Fairness ==
    /\ SF_vars(RunWorker)
    /\ \A c \in Client : SF_vars(Run(c))

FairSpec == Spec /\ Fairness

-----------------------------------------------------------------------------
(* Properties. *)

\* Every variable has the values the code can give it.
TypeOK ==
    /\ mu \in [Mutex -> Process \cup {NoOne}]
    /\ waiters \in [Mutex -> SUBSET Process]
    /\ work \in Seq(Work)
    /\ done \in [Work -> BOOLEAN]
    /\ answered \in [Work -> BOOLEAN]
    /\ pc \in [Client -> {"idle", "lockq", "append", "signal", "lockw", "test",
                          "enter", "asleep", "ret"}]
    /\ mine \in [Client -> Seq(Work)]
    /\ left \in [Client -> Nat]
    /\ \A c \in Client :
            /\ left[c] <= Len(mine[c])
            /\ pc[c] \in {"lockw", "test", "enter", "asleep"} => left[c] # 0
    /\ wpc \in {"lockq", "testq", "enter", "asleep", "serve", "lockw", "setdone",
                "signal"}
    /\ batch \in Seq(Work)

\* No wakeup is lost: the Worker sleeps on a filled queue only while the client
\* that filled it is about to signal, and a client sleeps on a finished work
\* only while the Worker is about to signal.
NoLostWakeup ==
    /\ Worker \in waiters[Queue] /\ work # <<>> =>
            \E c \in Client : pc[c] = "signal" /\ mu[Queue] = c
    /\ \A c \in Client :
            pc[c] = "asleep" /\ c \in waiters[Awaited(c)] /\ done[Awaited(c)] =>
                wpc = "signal" /\ Head(batch) = Awaited(c)

\* A call that returns has the Worker's answer to each of its works, and the
\* Worker will not touch them again.
AnsweredOnReturn ==
    \A c \in Client : pc[c] = "ret" =>
        \A w \in Range(mine[c]) :
            answered[w] /\ w \notin Range(work) \cup Range(batch)

\* The abstract queue: a call hands its works in when they are appended, the
\* Worker finishes a work when it sets its flag.
Submitted(c) == pc[c] \notin {"idle", "lockq", "append"}

Taken == IF wpc = "signal" THEN Tail(batch) ELSE batch

Finished == {w \in Work : done[w] /\ \E c \in Client : Submitted(c) /\ w \in Range(mine[c])}

Calls ==
    [c \in Client |-> IF Submitted(c) THEN [state |-> "waiting", works |-> mine[c]]
                      ELSE [state |-> "idle"]]

BatchQueue == INSTANCE BatchQ WITH
    queue <- work, batch <- Taken, done <- Finished, calls <- Calls

\* The locks and condition variables implement the abstract queue, safety and
\* liveness: batches are taken whole and in order, and every call returns.
ImplementsBatchQ == BatchQueue!FairSpec
=============================================================================
