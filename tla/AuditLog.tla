------------------------------ MODULE AuditLog ------------------------------
(***************************************************************************)
(* What an auditor promises: a log of key maps, one per epoch, in which    *)
(* every epoch only adds labels, each with a value stamped with that       *)
(* epoch.  Calls take effect at one instant; an update that would break    *)
(* the rule is refused and changes nothing.                                *)
(***************************************************************************)
EXTENDS Integers, Sequences

CONSTANTS
    Thread,     \* callers
    Request,    \* [op |-> "update", updates, sig] and [op |-> "get", epoch]
    WellFormed(_, _)    \* is a label of the right length, does a value parse

VARIABLES
    log,        \* the entries of the key map at each epoch
    sigs,       \* the server signature stored with each epoch
    op          \* thread -> its outstanding call

vars == <<log, sigs, op>>

Idle == [state |-> "idle"]
Pending(r) == [state |-> "pending", req |-> r]
Done(r, result) == [state |-> "done", req |-> r, result |-> result]

Refused == [err |-> TRUE]

Init ==
    /\ log = <<>>
    /\ sigs = <<>>
    /\ op = [t \in Thread |-> Idle]

Latest == IF log = <<>> THEN {} ELSE log[Len(log)]

Extends(updates) ==
    \A label \in DOMAIN updates :
        /\ WellFormed(label, updates[label])
        /\ updates[label].epoch = Len(log)
        /\ \A entry \in Latest : entry[1] # label

Call(t) ==
    /\ op[t] = Idle
    /\ \E r \in Request : op' = [op EXCEPT ![t] = Pending(r)]
    /\ UNCHANGED <<log, sigs>>

Update(t) ==
    LET r == op[t].req
        added == {<<label, r.updates[label]>> : label \in DOMAIN r.updates}
    IN
    /\ op[t].state = "pending"
    /\ r.op = "update"
    /\ IF Extends(r.updates)
       THEN /\ log' = Append(log, Latest \cup added)
            /\ sigs' = Append(sigs, r.sig)
            /\ op' = [op EXCEPT ![t] = Done(r, [err |-> FALSE])]
       ELSE /\ op' = [op EXCEPT ![t] = Done(r, Refused)]
            /\ UNCHANGED <<log, sigs>>

Get(t) ==
    LET r == op[t].req IN
    /\ op[t].state = "pending"
    /\ r.op = "get"
    /\ op' = [op EXCEPT ![t] = Done(r,
            IF r.epoch < Len(log)
            THEN [err |-> FALSE, epoch |-> r.epoch, dig |-> log[r.epoch + 1],
                  servSig |-> sigs[r.epoch + 1]]
            ELSE Refused)]
    /\ UNCHANGED <<log, sigs>>

Return(t) ==
    /\ op[t].state = "done"
    /\ op' = [op EXCEPT ![t] = Idle]
    /\ UNCHANGED <<log, sigs>>

Next == \E t \in Thread : Call(t) \/ Update(t) \/ Get(t) \/ Return(t)

Spec == Init /\ [][Next]_vars
=============================================================================
