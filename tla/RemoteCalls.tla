----------------------------- MODULE RemoteCalls -----------------------------
(***************************************************************************)
(* What a client of the service takes a remote call to be: a request that  *)
(* takes effect at most once, between its call and its return, and returns *)
(* the reply to itself.  A call may stay without an answer for ever, also  *)
(* when it has taken effect.                                               *)
(***************************************************************************)
EXTENDS Naturals, Sequences

CONSTANTS
    Client,     \* each has one call at a time
    RpcId,      \* procedures that clients call
    Handlers,   \* procedures that the server has
    MaxCalls    \* calls by each client

VARIABLES
    op,         \* client -> its outstanding call
    served      \* the calls that took effect, in order

Idle == [state |-> "idle"]

Init ==
    /\ op = [c \in Client |-> Idle]
    /\ served = <<>>

Call(c) ==
    /\ op[c].state \in {"idle", "done"}
    /\ \E call \in [from : {c}, num : 1..MaxCalls, rpc : RpcId] :
            op' = [op EXCEPT ![c] = [state |-> "pending", call |-> call]]
    /\ UNCHANGED served

Execute(c) ==
    /\ op[c].state = "pending"
    /\ op[c].call.rpc \in Handlers
    /\ served' = Append(served, op[c].call)
    /\ op' = [op EXCEPT ![c].state = "served"]

Return(c) ==
    /\ op[c].state = "served"
    /\ op' = [op EXCEPT ![c] = [state |-> "done", call |-> op[c].call, reply |-> op[c].call]]
    /\ UNCHANGED served

Next == \E c \in Client : Call(c) \/ Execute(c) \/ Return(c)

vars == <<op, served>>

Spec == Init /\ [][Next]_vars
=============================================================================
