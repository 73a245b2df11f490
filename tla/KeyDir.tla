------------------------------- MODULE KeyDir -------------------------------
(***************************************************************************)
(* What the key-transparency server promises its callers: an atomic        *)
(* directory that maps each user to the sequence of keys registered for    *)
(* it, numbered by epochs.  A call takes effect at one instant between its *)
(* invocation and its return.  Puts take effect in batches, one per epoch, *)
(* and a Put is refused only for another Put of the same user that was     *)
(* outstanding with it and that took effect.                               *)
(***************************************************************************)
EXTENDS Integers, Sequences

CONSTANTS
    Thread,     \* callers
    Uid,        \* users
    Pk,         \* keys
    MaxEpochs   \* largest epoch number that is audited

VARIABLES
    dir,        \* user -> sequence of [epoch, pk], one entry per version
    epoch,      \* the latest epoch
    op          \* thread -> its outstanding call

vars == <<dir, epoch, op>>

Requests ==
    [op : {"put"}, uid : Uid, pk : Pk]
        \cup [op : {"get", "selfmon"}, uid : Uid]
        \cup [op : {"audit"}, epoch : 0..MaxEpochs]

Idle == [state |-> "idle"]
Pending(r) == [state |-> "pending", req |-> r]
Done(r, result) == [state |-> "done", req |-> r, result |-> result]

Refused == [err |-> TRUE]

Init ==
    /\ dir = [u \in Uid |-> <<>>]
    /\ epoch = 0
    /\ op = [t \in Thread |-> Idle]

Call(t) ==
    /\ op[t] = Idle
    /\ \E r \in Requests : op' = [op EXCEPT ![t] = Pending(r)]
    /\ UNCHANGED <<dir, epoch>>

PendingPuts == {t \in Thread : op[t].state = "pending" /\ op[t].req.op = "put"}

\* The Puts of batch take effect in a new epoch, those of refused are dropped.
Commit(batch, refused) ==
    LET uid(t) == op[t].req.uid
        putter(u) == CHOOSE t \in batch : uid(t) = u
    IN
    /\ batch # {}
    /\ batch \cap refused = {}
    /\ \A t1, t2 \in batch : uid(t1) = uid(t2) => t1 = t2
    /\ \A t \in refused : \E b \in batch : uid(b) = uid(t)
    /\ epoch' = epoch + 1
    /\ dir' = [u \in Uid |->
            IF \E t \in batch : uid(t) = u
            THEN Append(dir[u], [epoch |-> epoch + 1, pk |-> op[putter(u)].req.pk])
            ELSE dir[u]]
    /\ op' = [t \in Thread |->
            IF t \in batch
            THEN Done(op[t].req, [err |-> FALSE, epoch |-> epoch + 1,
                                  ver |-> Len(dir[uid(t)])])
            ELSE IF t \in refused THEN Done(op[t].req, Refused) ELSE op[t]]

\* The state a read returns: all versions of the user, or their number, or
\* what an epoch added.
Answer(r) ==
    CASE r.op = "get"     -> [err |-> FALSE, epoch |-> epoch, vers |-> dir[r.uid]]
      [] r.op = "selfmon" -> [err |-> FALSE, epoch |-> epoch,
                              numVers |-> Len(dir[r.uid])]
      [] r.op = "audit"   ->
            IF r.epoch > epoch
            THEN Refused
            ELSE [err |-> FALSE,
                  added |-> UNION {{<<u, i - 1, dir[u][i].pk>> :
                                       i \in {j \in DOMAIN dir[u] :
                                                dir[u][j].epoch = r.epoch}} :
                                   u \in Uid}]

Read(t) ==
    /\ op[t].state = "pending"
    /\ op[t].req.op # "put"
    /\ op' = [op EXCEPT ![t] = Done(op[t].req, Answer(op[t].req))]
    /\ UNCHANGED <<dir, epoch>>

Return(t) ==
    /\ op[t].state = "done"
    /\ op' = [op EXCEPT ![t] = Idle]
    /\ UNCHANGED <<dir, epoch>>

Next ==
    \/ \E t \in Thread : Call(t) \/ Read(t) \/ Return(t)
    \/ \E batch \in SUBSET PendingPuts :
         \E refused \in SUBSET PendingPuts : Commit(batch, refused)

Spec == Init /\ [][Next]_vars
=============================================================================
