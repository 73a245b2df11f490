\* Two threads, contradictory values, malformed entries: safety, the abstract
\* log AuditLog, and liveness under fair goroutines.
SPECIFICATION FairSpec
CONSTANTS
    Thread = {t1, t2}
    Label = {l1}
    BadLabel = {bad}
    Commit = {c1, c2}
    JunkVal = junk
    ServSig = {s1}
    NoOne = NoOne
    MaxEpochs = 2
INVARIANTS
    TypeOK
    NoPanic
    HistExact
    LastCurrent
PROPERTIES
    Linearizable
    CallsReturn
