\* Liveness: every call returns, under fair goroutines.
SPECIFICATION FairSpec
CONSTANTS
    Uid = {u1}
    Pk = {p1}
    NoPk = NoPk
    Thread = {t1, t2, t3}
    MaxEpochs = 2
PROPERTY CallsReturn
