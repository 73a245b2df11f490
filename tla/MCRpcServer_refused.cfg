\* Two concurrent Puts of one user.
SPECIFICATION RpcSpec
CONSTANTS
    Uid = {u1, u2}
    Pk = {p1}
    NoPk = NoPk
    Thread = {t1, t2, t3}
    MaxEpochs = 2
SYMMETRY Symmetry
CHECK_DEADLOCK FALSE
INVARIANT RefusedPutsAnswered
