------------------------------- MODULE BatchQ -------------------------------
(***************************************************************************)
(* What the Worker's queue promises: callers hand in works, the Worker     *)
(* takes all that are queued, in the order in which they were handed in,   *)
(* and only when it has finished the batch before; a caller goes on when   *)
(* all its works are finished, and every caller eventually does.           *)
(***************************************************************************)
EXTENDS Integers, Sequences, Functions

CONSTANTS
    Client,     \* callers
    Work,       \* works
    MaxBatch    \* most works that one call hands in

VARIABLES
    queue,      \* works handed in and not taken
    batch,      \* works taken and not finished
    done,       \* works finished whose caller is still waiting
    calls       \* client -> the works it waits for

vars == <<queue, batch, done, calls>>

Idle == [state |-> "idle"]
Waiting(works) == [state |-> "waiting", works |-> works]

InUse == UNION {Range(calls[c].works) : c \in {d \in Client : calls[d] # Idle}}

Batches == UNION {Injection(1..n, Work) : n \in 0..MaxBatch}

Init ==
    /\ queue = <<>>
    /\ batch = <<>>
    /\ done = {}
    /\ calls = [c \in Client |-> Idle]

Submit(c) ==
    /\ calls[c] = Idle
    /\ \E works \in Batches :
        /\ Range(works) \cap InUse = {}
        /\ calls' = [calls EXCEPT ![c] = Waiting(works)]
        /\ queue' = queue \o works
    /\ UNCHANGED <<batch, done>>

Take ==
    /\ queue # <<>>
    /\ batch = <<>>
    /\ batch' = queue
    /\ queue' = <<>>
    /\ UNCHANGED <<done, calls>>

Finish ==
    /\ batch # <<>>
    /\ done' = done \cup {Head(batch)}
    /\ batch' = Tail(batch)
    /\ UNCHANGED <<queue, calls>>

Return(c) ==
    /\ calls[c] # Idle
    /\ Range(calls[c].works) \subseteq done
    /\ done' = done \ Range(calls[c].works)
    /\ calls' = [calls EXCEPT ![c] = Idle]
    /\ UNCHANGED <<queue, batch>>

Next ==
    \/ \E c \in Client : Submit(c) \/ Return(c)
    \/ Take
    \/ Finish

Spec == Init /\ [][Next]_vars

FairSpec ==
    /\ Spec
    /\ WF_vars(Take)
    /\ WF_vars(Finish)
    /\ \A c \in Client : WF_vars(Return(c))
=============================================================================
