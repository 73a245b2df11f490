\* Two clients, four works, batches of two: mutexes and condition variables; the
\* queue implements BatchQ, with liveness.
SPECIFICATION FairSpec
CONSTANTS
    Client = {c1, c2}
    Worker = Worker
    Work = {w1, w2, w3, w4}
    Queue = Queue
    NoOne = NoOne
    MaxBatch = 2
INVARIANTS
    TypeOK
    NoLostWakeup
    AnsweredOnReturn
PROPERTY ImplementsBatchQ
