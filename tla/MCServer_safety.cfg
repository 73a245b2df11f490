\* Three threads, two users: safety of every interleaving of the Worker's phases
\* with readers and with later Puts; the server implements KeyDir.
SPECIFICATION Spec
CONSTANTS
    Uid = {u1, u2}
    Pk = {p1, p2}
    NoPk = NoPk
    Thread = {t1, t2, t3}
    MaxEpochs = 2
SYMMETRY Symmetry
INVARIANTS
    TypeOK
    NoPanic
    VersionsInMap
    HistReplays
    RepliesVerify
PROPERTY Linearizable
