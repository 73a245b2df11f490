----------------------------- MODULE KeyHistory -----------------------------
(***************************************************************************)
(* What Alice knows of her own key at each epoch (alicebob/history.go):    *)
(* a sequence with one entry per epoch; epoch e is entry e+1.              *)
(***************************************************************************)
EXTENDS KtData

NoEntry == [isReg |-> FALSE, pk |-> NoPk]
Entry(pk) == [isReg |-> TRUE, pk |-> pk]

\* Seeded fault: epochs without a change are taken for unregistered ones.
ExtendHistBlank(hist, numEpochs) ==
    hist \o [i \in 1..(numEpochs - Len(hist)) |-> NoEntry]

\* extendHist: the last entry repeats up to epoch numEpochs - 1.
ExtendHist(hist, numEpochs) ==
    LET last == IF hist = <<>> THEN NoEntry ELSE hist[Len(hist)]
    IN  hist \o [i \in 1..(numEpochs - Len(hist)) |-> last]

\* The std.Assert of extendHist.
CanExtend(hist, numEpochs) == Len(hist) <= numEpochs

\* The final check of testAliceBob: Bob's result against Alice's history.
SameKey(hist, epoch, isReg, pk) ==
    LET aliceKey == hist[epoch + 1] IN
    /\ aliceKey.isReg = isReg
    /\ aliceKey.isReg => aliceKey.pk = pk
=============================================================================
