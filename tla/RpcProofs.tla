------------------------------ MODULE RpcProofs ------------------------------
(***************************************************************************)
(* Remote calls, proved for any numbers of clients, procedures and calls.  *)
(* A stub repeats its request without end, but only on the connection      *)
(* whose failure it was told of, which takes no frame any more: so each    *)
(* call is sent at most once, and what is left of it is in one place.      *)
(***************************************************************************)
EXTENDS Rpc, SequenceTheorems, TLAPS

CallSet == [from : Client, num : Nat, rpc : Nat]

Conn(Frames) ==
    [up : BOOLEAN, cliOpen : BOOLEAN, servOpen : BOOLEAN, toServ : Frames, toCli : Frames]

Types ==
    /\ conn \in [Client -> Conn(Seq(CallSet))]
    /\ pc \in [Client -> {"idle", "send", "receive"}]
    /\ call \in [Client -> CallSet]
    /\ \A c \in Client : call[c].from = c
    /\ reply \in [Client -> CallSet]
    /\ reader \in [Client -> {"backlog", "reading", "quit"}]
    /\ tasks \subseteq [call : CallSet, at : {"handler", "send"}]
    /\ served \in Seq(CallSet)

TasksOf(c) == {task \in tasks : task.call.from = c}

\* Where the call of a client is: its request is not sent or was lost, or the
\* reply was received or lost; on the way; in a goroutine; answered.
Nowhere(c) == conn[c].toServ = <<>> /\ TasksOf(c) = {} /\ conn[c].toCli = <<>>

InRequest(c) ==
    /\ conn[c].toServ = <<call[c]>> /\ TasksOf(c) = {} /\ conn[c].toCli = <<>>
    /\ ~Served(c)

InTask(c, at) ==
    /\ conn[c].toServ = <<>> /\ conn[c].toCli = <<>>
    /\ TasksOf(c) = {[call |-> call[c], at |-> at]}
    /\ at = "send" <=> Served(c)

InReply(c) ==
    /\ conn[c].toServ = <<>> /\ TasksOf(c) = {} /\ conn[c].toCli = <<call[c]>>
    /\ Served(c)

Somewhere(c) ==
    Nowhere(c) \/ InRequest(c) \/ InTask(c, "handler") \/ InTask(c, "send") \/ InReply(c)

ClientOK(c) ==
    /\ Somewhere(c)
    /\ pc[c] = "idle" \/ (pc[c] = "send" /\ conn[c].cliOpen) => Nowhere(c)
    /\ pc[c] = "send" /\ conn[c].cliOpen => ~Served(c)
    /\ ~conn[c].cliOpen => pc[c] = "send"
    /\ IF pc[c] = "idle" THEN reply[c] = call[c] ELSE call[c].num # 0
    /\ \A i \in DOMAIN served : served[i].from = c => served[i].num <= call[c].num

IInv == Types /\ \A c \in Client : ClientOK(c)

-----------------------------------------------------------------------------
(* One client steps. *)

\* Connections stay connections when one field changes, or when they break.
LEMMA ConnFacts ==
    ASSUME NEW Frames, NEW con \in [Client -> Conn(Frames)], NEW c \in Client,
           NEW frames \in Frames, NEW others \in Frames, NEW b \in BOOLEAN
    PROVE  /\ [con EXCEPT ![c].toServ = frames] \in [Client -> Conn(Frames)]
           /\ [con EXCEPT ![c].toCli = frames] \in [Client -> Conn(Frames)]
           /\ [con EXCEPT ![c].cliOpen = b] \in [Client -> Conn(Frames)]
           /\ [con EXCEPT ![c].servOpen = b] \in [Client -> Conn(Frames)]
           /\ [con[c] EXCEPT !.up = b, !.toServ = frames, !.toCli = others] \in Conn(Frames)
<1>1. [con[c] EXCEPT !.up = b, !.toServ = frames, !.toCli = others] \in Conn(Frames)
  BY DEF Conn
<1> QED
  BY <1>1 DEF Conn

\* A sequence of one frame has two prefixes.
LEMMA PrefixFacts ==
    /\ \A toServ \in Prefixes(<<>>) : toServ = <<>>
    /\ \A x : \A toServ \in Prefixes(<<x>>) : toServ = <<>> \/ toServ = <<x>>
<1>1. ASSUME NEW toServ \in Prefixes(<<>>) PROVE toServ = <<>>
  BY <1>1 DEF Prefixes
<1>2. ASSUME NEW x, NEW toServ \in Prefixes(<<x>>) PROVE toServ = <<>> \/ toServ = <<x>>
  <2>1. PICK n \in 0..Len(<<x>>) : toServ = SubSeq(<<x>>, 1, n)
    BY <1>2 DEF Prefixes
  <2>2. n = 0 \/ n = 1
    BY <2>1
  <2>3. SubSeq(<<x>>, 1, 0) = <<>>
    OBVIOUS
  <2>4. SubSeq(<<x>>, 1, 1) = <<x>>
    <3>1. <<x>> \in Seq({x}) /\ Len(<<x>>) = 1
      OBVIOUS
    <3>2. SubSeq(<<x>>, 1, Len(<<x>>)) = <<x>>
      BY <3>1, SubSeqFull
    <3> QED
      BY <3>1, <3>2
  <2> QED
    BY <2>1, <2>2, <2>3, <2>4
<1> QED
  BY <1>1, <1>2

\* What has taken effect stays so, and another client's call does not make it so.
LEMMA ServedFrame ==
    ASSUME Types, NEW c \in Client, NEW d \in Client, d # c, call'[d] = call[d],
           served' = served \/ \E x \in CallSet : x.from = c /\ served' = Append(served, x)
    PROVE  /\ Served(d)' <=> Served(d)
           /\ (\A i \in DOMAIN served : served[i].from = d => served[i].num <= call[d].num) =>
              (\A i \in DOMAIN served' : served'[i].from = d => served'[i].num <= call'[d].num)
<1>1. CASE served' = served
  BY <1>1 DEF Served
<1>2. CASE \E x \in CallSet : x.from = c /\ served' = Append(served, x)
  <2>1. PICK x \in CallSet : x.from = c /\ served' = Append(served, x)
    BY <1>2
  <2>2. served \in Seq(CallSet) /\ call[d].from = d
    BY DEF Types
  <2>3. /\ DOMAIN served = 1..Len(served) /\ DOMAIN served' = 1..(Len(served) + 1)
        /\ Len(served) \in Nat
        /\ \A i \in DOMAIN served : served'[i] = served[i]
        /\ served'[Len(served) + 1] = x
    BY <2>1, <2>2
  <2>4. \A i \in DOMAIN served' : i \in DOMAIN served \/ i = Len(served) + 1
    BY <2>3
  <2>5. \A i \in DOMAIN served : i \in DOMAIN served'
    BY <2>3
  <2>6. x # call[d] /\ x.from # d
    BY <2>1, <2>2
  <2> QED
    BY <2>3, <2>4, <2>5, <2>6 DEF Served
<1> QED
  BY <1>1, <1>2

\* A step of one client or of the server for it.
LEMMA StepOf ==
    ASSUME IInv, NEW c \in Client, Types', ClientOK(c)',
           \A d \in Client : d # c =>
                /\ conn'[d] = conn[d] /\ pc'[d] = pc[d] /\ call'[d] = call[d]
                /\ reply'[d] = reply[d] /\ TasksOf(d)' = TasksOf(d),
           served' = served \/ \E x \in CallSet : x.from = c /\ served' = Append(served, x)
    PROVE  IInv' /\ \A d \in Client : d # c => CallOf(d)' = CallOf(d)
<1>1. ASSUME NEW d \in Client, d # c PROVE ClientOK(d)' /\ CallOf(d)' = CallOf(d)
  <2>1. /\ conn'[d] = conn[d] /\ pc'[d] = pc[d] /\ call'[d] = call[d]
        /\ reply'[d] = reply[d] /\ TasksOf(d)' = TasksOf(d)
    BY <1>1
  <2>2. /\ Served(d)' <=> Served(d)
        /\ (\A i \in DOMAIN served : served[i].from = d => served[i].num <= call[d].num) =>
           (\A i \in DOMAIN served' : served'[i].from = d => served'[i].num <= call'[d].num)
    BY <1>1, <2>1, ServedFrame DEF IInv
  <2>3. ClientOK(d)
    BY DEF IInv
  <2>4. Somewhere(d)'
    BY <2>1, <2>2, <2>3 DEF ClientOK, Somewhere, Nowhere, InRequest, InTask, InReply
  <2>5. Nowhere(d) => Nowhere(d)'
    BY <2>1 DEF Nowhere
  <2>6. ClientOK(d)'
    BY <2>1, <2>2, <2>3, <2>4, <2>5 DEF ClientOK
  <2>7. CallOf(d)' = CallOf(d)
    BY <2>1, <2>2 DEF CallOf
  <2> QED
    BY <2>6, <2>7
<1> QED
  BY <1>1 DEF IInv

\* A step that leaves every call where it was for its caller.
LEMMA Stutters ==
    ASSUME \A c \in Client : CallOf(c)' = CallOf(c), UNCHANGED served
    PROVE  UNCHANGED Remote!vars
<1>1. [c \in Client |-> CallOf(c)'] = [c \in Client |-> CallOf(c)]
  OBVIOUS
<1> QED
  BY <1>1 DEF Remote!vars

-----------------------------------------------------------------------------
(* The client. *)

\* A call puts its request before its client alone.
LEMMA CallStep ==
    ASSUME IInv, NEW c \in Client, Call(c)
    PROVE  IInv' /\ Remote!Call(c)
<1>1. /\ pc[c] = "idle" /\ call[c].num < MaxCalls
      /\ pc' = [pc EXCEPT ![c] = "send"]
      /\ UNCHANGED <<conn, reply, reader, tasks, served>>
  BY DEF Call
<1>2. PICK rpc \in RpcId :
        call' = [call EXCEPT ![c] = [from |-> c, num |-> call[c].num + 1, rpc |-> rpc]]
  BY DEF Call
<1> DEFINE new == [from |-> c, num |-> call[c].num + 1, rpc |-> rpc]
<1>3. Types /\ ClientOK(c)
  BY DEF IInv
<1>4. /\ call[c].num \in Nat /\ call[c].from = c /\ rpc \in Nat
      /\ new \in CallSet /\ new.from = c /\ new.num = call[c].num + 1
      /\ new \in [from : {c}, num : 1..MaxCalls, rpc : RpcId]
  BY <1>1, <1>3, IdAssumption, MaxCallsAssumption DEF Types, CallSet
<1> HIDE DEF new
<1>5. /\ call' = [call EXCEPT ![c] = new] /\ call'[c] = new /\ pc'[c] = "send"
      /\ \A d \in Client : d # c => call'[d] = call[d] /\ pc'[d] = pc[d]
  BY <1>1, <1>2, <1>3 DEF Types, new
<1>6. Types'
  BY <1>1, <1>3, <1>4, <1>5 DEF Types
<1>7. \A i \in DOMAIN served : served[i].from = c => served[i].num < new.num
  <2>1. \A i \in DOMAIN served : served[i].from = c => served[i].num <= call[c].num
    BY <1>3 DEF ClientOK
  <2>2. \A i \in DOMAIN served : served[i].num \in Nat
    <3>1. \A x \in CallSet : x.num \in Nat
      BY DEF CallSet
    <3>2. \A i \in DOMAIN served : served[i] \in CallSet
      BY <1>3 DEF Types
    <3> QED
      BY <3>1, <3>2
  <2> QED
    BY <1>4, <2>1, <2>2
<1>8. ~Served(c)'
  BY <1>1, <1>4, <1>5, <1>7 DEF Served
<1>9. ClientOK(c)'
  <2>1. Nowhere(c) /\ conn[c].cliOpen
    BY <1>1, <1>3 DEF ClientOK
  <2>2. Nowhere(c)'
    BY <1>1, <2>1 DEF Nowhere, TasksOf
  <2>3. \A i \in DOMAIN served' : served'[i].from = c => served'[i].num <= call'[c].num
    <3>1. \A i \in DOMAIN served : served[i].num \in Nat
      <4>1. \A x \in CallSet : x.num \in Nat
        BY DEF CallSet
      <4>2. \A i \in DOMAIN served : served[i] \in CallSet
        BY <1>3 DEF Types
      <4> QED
        BY <4>1, <4>2
    <3> QED
      BY <1>1, <1>4, <1>5, <1>7, <3>1
  <2>4. call'[c].num # 0
    BY <1>4, <1>5
  <2> QED
    BY <1>1, <1>5, <1>8, <2>1, <2>2, <2>3, <2>4 DEF ClientOK, Somewhere
<1>10. \A d \in Client : d # c =>
                /\ conn'[d] = conn[d] /\ pc'[d] = pc[d] /\ call'[d] = call[d]
                /\ reply'[d] = reply[d] /\ TasksOf(d)' = TasksOf(d)
  BY <1>1, <1>5 DEF TasksOf
<1>11. IInv' /\ \A d \in Client : d # c => CallOf(d)' = CallOf(d)
  BY <1>1, <1>6, <1>9, <1>10, StepOf
<1> DEFINE op == [d \in Client |-> CallOf(d)]
<1>12. op[c].state \in {"idle", "done"}
  BY <1>1 DEF CallOf
<1>13. CallOf(c)' = [state |-> "pending", call |-> new]
  BY <1>5, <1>8 DEF CallOf
<1>14. op' = [op EXCEPT ![c] = [state |-> "pending", call |-> new]]
  BY <1>11, <1>13
<1>15. Remote!Call(c)
  BY <1>1, <1>4, <1>12, <1>14 DEF Remote!Call
<1> QED
  BY <1>11, <1>15

\* Sending the request: at most one frame of the client is on its way.
LEMMA SendStep ==
    ASSUME IInv, NEW c \in Client, Send(c)
    PROVE  IInv' /\ UNCHANGED Remote!vars
<1>1. /\ pc[c] = "send" /\ conn[c].cliOpen
      /\ conn' = IF conn[c].up
                 THEN [conn EXCEPT ![c].toServ = Append(@, call[c])]
                 ELSE conn
      /\ pc' = [pc EXCEPT ![c] = "receive"]
      /\ UNCHANGED <<call, reply, reader, tasks, served>>
  BY DEF Send, CliWrite
<1>2. Types /\ ClientOK(c)
  BY DEF IInv
<1>3. Nowhere(c) /\ ~Served(c)
  BY <1>1, <1>2 DEF ClientOK
<1>4. pc'[c] = "receive" /\ \A d \in Client : d # c => pc'[d] = pc[d]
  BY <1>1, <1>2 DEF Types
<1>5. /\ conn' \in [Client -> Conn(Seq(CallSet))]
      /\ \A d \in Client : d # c => conn'[d] = conn[d]
      /\ conn'[c].cliOpen = conn[c].cliOpen /\ conn'[c].toCli = conn[c].toCli
      /\ conn'[c].toServ = <<>> \/ conn'[c].toServ = <<call[c]>>
  <2>1. CASE conn[c].up
    <3>1. conn[c].toServ = <<>>
      BY <1>3 DEF Nowhere
    <3>2. conn' = [conn EXCEPT ![c].toServ = Append(conn[c].toServ, call[c])]
      BY <1>1, <2>1
    <3>3. Append(conn[c].toServ, call[c]) = <<call[c]>> /\ <<call[c]>> \in Seq(CallSet)
      BY <1>2, <3>1 DEF Types
    <3>4. conn' \in [Client -> Conn(Seq(CallSet))]
      BY <1>2, <3>2, <3>3, ConnFacts DEF Types
    <3> QED
      BY <1>2, <3>2, <3>3, <3>4 DEF Types, Conn
  <2>2. CASE ~conn[c].up
    BY <1>1, <1>2, <1>3, <2>2 DEF Types, Nowhere
  <2> QED
    BY <2>1, <2>2
<1>6. Types'
  BY <1>1, <1>2, <1>5 DEF Types
<1>7. ClientOK(c)'
  <2>1. ~Served(c)' /\ TasksOf(c)' = {} /\ conn'[c].toCli = <<>>
    BY <1>1, <1>3, <1>5 DEF Served, TasksOf, Nowhere
  <2>2. Somewhere(c)'
    BY <1>1, <1>5, <2>1 DEF Somewhere, Nowhere, InRequest
  <2> QED
    BY <1>1, <1>2, <1>4, <1>5, <2>2 DEF ClientOK
<1>8. \A d \in Client : d # c =>
                /\ conn'[d] = conn[d] /\ pc'[d] = pc[d] /\ call'[d] = call[d]
                /\ reply'[d] = reply[d] /\ TasksOf(d)' = TasksOf(d)
  BY <1>1, <1>4, <1>5 DEF TasksOf
<1>9. IInv' /\ \A d \in Client : d # c => CallOf(d)' = CallOf(d)
  BY <1>1, <1>6, <1>7, <1>8, StepOf
<1>10. CallOf(c)' = CallOf(c)
  BY <1>1, <1>4 DEF CallOf, Served
<1> QED
  BY <1>1, <1>9, <1>10, Stutters

\* A side that was told of a failure closes its end, and the call goes on.
LEMMA FailStep ==
    ASSUME IInv, NEW c \in Client, SendFails(c) \/ ReceiveFails(c)
    PROVE  IInv' /\ UNCHANGED Remote!vars
<1>1. /\ pc[c] # "idle" /\ conn' = [conn EXCEPT ![c].cliOpen = FALSE]
      /\ pc' = [pc EXCEPT ![c] = "send"]
      /\ UNCHANGED <<call, reply, reader, tasks, served>>
  BY DEF SendFails, ReceiveFails, CliClose, IInv, Types
<1>2. Types /\ ClientOK(c)
  BY DEF IInv
<1>3. pc'[c] = "send" /\ \A d \in Client : d # c => pc'[d] = pc[d]
  BY <1>1, <1>2 DEF Types
<1>4. /\ \A d \in Client : d # c => conn'[d] = conn[d]
      /\ ~conn'[c].cliOpen /\ conn'[c].toCli = conn[c].toCli /\ conn'[c].toServ = conn[c].toServ
  BY <1>1, <1>2 DEF Types
<1>5. Types'
  <2>1. conn' \in [Client -> Conn(Seq(CallSet))]
    <3>1. <<>> \in Seq(CallSet)
      OBVIOUS
    <3> QED
      BY <1>1, <1>2, <3>1, ConnFacts DEF Types
  <2> QED
    BY <1>1, <1>2, <2>1 DEF Types
<1>6. ClientOK(c)'
  <2>1. (Served(c)' <=> Served(c)) /\ TasksOf(c)' = TasksOf(c)
    BY <1>1 DEF Served, TasksOf
  <2>2. Somewhere(c)'
    BY <1>1, <1>2, <1>4, <2>1 DEF ClientOK, Somewhere, Nowhere, InRequest, InTask, InReply
  <2> QED
    BY <1>1, <1>2, <1>3, <1>4, <2>2 DEF ClientOK
<1>7. \A d \in Client : d # c =>
                /\ conn'[d] = conn[d] /\ pc'[d] = pc[d] /\ call'[d] = call[d]
                /\ reply'[d] = reply[d] /\ TasksOf(d)' = TasksOf(d)
  BY <1>1, <1>3, <1>4 DEF TasksOf
<1>8. IInv' /\ \A d \in Client : d # c => CallOf(d)' = CallOf(d)
  BY <1>1, <1>5, <1>6, <1>7, StepOf
<1>9. CallOf(c)' = CallOf(c)
  BY <1>1, <1>3 DEF CallOf, Served
<1> QED
  BY <1>1, <1>8, <1>9, Stutters

\* Receiving: the response is that of the last request.
LEMMA ReceiveStep ==
    ASSUME IInv, NEW c \in Client, Receive(c)
    PROVE  IInv' /\ Remote!Return(c)
<1>1. /\ pc[c] = "receive" /\ conn[c].cliOpen /\ conn[c].toCli # <<>>
      /\ reply' = [reply EXCEPT ![c] = Head(conn[c].toCli)]
      /\ conn' = [conn EXCEPT ![c].toCli = Tail(conn[c].toCli)]
      /\ pc' = [pc EXCEPT ![c] = "idle"]
      /\ UNCHANGED <<call, reader, tasks, served>>
  BY DEF Receive
<1>2. Types /\ ClientOK(c)
  BY DEF IInv
<1>3. InReply(c)
  BY <1>1, <1>2 DEF ClientOK, Somewhere, Nowhere, InRequest, InTask
<1>4. Head(conn[c].toCli) = call[c] /\ Tail(conn[c].toCli) = <<>> /\ call[c] \in CallSet
  BY <1>2, <1>3 DEF InReply, Types
<1>5. /\ pc'[c] = "idle" /\ reply'[c] = call[c]
      /\ \A d \in Client : d # c => pc'[d] = pc[d] /\ reply'[d] = reply[d]
  BY <1>1, <1>2, <1>4 DEF Types
<1>6. /\ \A d \in Client : d # c => conn'[d] = conn[d]
      /\ conn'[c].cliOpen = conn[c].cliOpen /\ conn'[c].toCli = <<>>
      /\ conn'[c].toServ = conn[c].toServ
  BY <1>1, <1>2, <1>4 DEF Types, Conn
<1>7. Types'
  <2>1. <<>> \in Seq(CallSet)
    OBVIOUS
  <2>2. conn' \in [Client -> Conn(Seq(CallSet))]
    BY <1>1, <1>2, <1>4, <2>1, ConnFacts DEF Types
  <2> QED
    BY <1>1, <1>2, <1>4, <2>2 DEF Types
<1>8. ClientOK(c)'
  <2>1. Nowhere(c)'
    BY <1>1, <1>3, <1>6 DEF InReply, Nowhere, TasksOf
  <2> QED
    BY <1>1, <1>2, <1>5, <1>6, <2>1 DEF ClientOK, Somewhere
<1>9. \A d \in Client : d # c =>
                /\ conn'[d] = conn[d] /\ pc'[d] = pc[d] /\ call'[d] = call[d]
                /\ reply'[d] = reply[d] /\ TasksOf(d)' = TasksOf(d)
  BY <1>1, <1>5, <1>6 DEF TasksOf
<1>10. IInv' /\ \A d \in Client : d # c => CallOf(d)' = CallOf(d)
  BY <1>1, <1>7, <1>8, <1>9, StepOf
<1> DEFINE op == [d \in Client |-> CallOf(d)]
<1>11. op[c] = [state |-> "served", call |-> call[c]]
  BY <1>1, <1>3 DEF CallOf, InReply
<1>12. CallOf(c)' = [state |-> "done", call |-> call[c], reply |-> call[c]]
  <2>1. call[c].num # 0
    BY <1>1, <1>2 DEF ClientOK
  <2>2. CallOf(c)' = [state |-> "done", call |-> call'[c], reply |-> reply'[c]]
    BY <1>1, <1>5, <2>1 DEF CallOf
  <2> QED
    BY <1>1, <1>5, <2>2
<1>13. op' = [op EXCEPT ![c] = [state |-> "done", call |-> call[c], reply |-> call[c]]]
  BY <1>10, <1>12
<1>14. op[c].state = "served" /\ op[c].call = call[c]
  BY <1>11
<1>15. Remote!Return(c)
  BY <1>1, <1>13, <1>14 DEF Remote!Return
<1> QED
  BY <1>10, <1>15

-----------------------------------------------------------------------------
(* The server and the connection. *)

\* Steps that leave the clients alone.
LEMMA SameClient ==
    ASSUME NEW c \in Client, UNCHANGED <<pc, call, reply, served>>
    PROVE  /\ CallOf(c)' = CallOf(c)
           /\ Served(c)' <=> Served(c)
           /\ ClientOK(c) /\ conn'[c].cliOpen = conn[c].cliOpen /\ Somewhere(c)' /\
              (Nowhere(c) => Nowhere(c)') => ClientOK(c)'
<1>1. CallOf(c)' = CallOf(c) /\ (Served(c)' <=> Served(c))
  BY DEF CallOf, Served
<1> QED
  BY <1>1 DEF ClientOK

\* Accepting a connection moves no frame.
LEMMA AcceptStep ==
    ASSUME IInv, NEW c \in Client, Accept(c)
    PROVE  IInv' /\ UNCHANGED Remote!vars
<1>1. UNCHANGED <<conn, pc, call, reply, tasks, served>> /\ reader' = [reader EXCEPT ![c] = "reading"]
  BY DEF Accept
<1>2. Types'
  BY <1>1 DEF IInv, Types
<1>3. ClientOK(c)'
  <2>1. ClientOK(c)
    BY DEF IInv
  <2>2. Somewhere(c)' /\ (Nowhere(c) => Nowhere(c)')
    BY <1>1, <2>1, SameClient
        DEF ClientOK, Somewhere, Nowhere, InRequest, InTask, InReply, TasksOf
  <2> QED
    BY <1>1, <2>1, <2>2, SameClient
<1>4. IInv' /\ \A d \in Client : d # c => CallOf(d)' = CallOf(d)
  BY <1>1, <1>2, <1>3, StepOf DEF TasksOf
<1> QED
  BY <1>1, <1>4, SameClient, Stutters

\* Breaking only takes frames away.
LEMMA BreakStep ==
    ASSUME IInv, NEW c \in Client, Break(c)
    PROVE  IInv' /\ UNCHANGED Remote!vars
<1>1. PICK toServ \in Prefixes(conn[c].toServ), toCli \in Prefixes(conn[c].toCli) :
        conn' = [conn EXCEPT ![c] = [@ EXCEPT !.up = FALSE, !.toServ = toServ,
                                              !.toCli = toCli]]
  BY DEF Break
<1>2. UNCHANGED <<pc, call, reply, reader, tasks, served>>
  BY DEF Break
<1>3. Types /\ ClientOK(c)
  BY DEF IInv
<1>4. /\ conn[c].toServ = <<>> => toServ = <<>>
      /\ conn[c].toServ = <<call[c]>> => toServ = <<>> \/ toServ = <<call[c]>>
      /\ conn[c].toCli = <<>> => toCli = <<>>
      /\ conn[c].toCli = <<call[c]>> => toCli = <<>> \/ toCli = <<call[c]>>
  BY PrefixFacts
<1>5. toServ \in Seq(CallSet) /\ toCli \in Seq(CallSet)
  <2>1. call[c] \in CallSet /\ <<>> \in Seq(CallSet)
    BY <1>3 DEF Types
  <2>2. <<call[c]>> \in Seq(CallSet)
    BY <2>1
  <2>3. /\ conn[c].toServ = <<>> \/ conn[c].toServ = <<call[c]>>
        /\ conn[c].toCli = <<>> \/ conn[c].toCli = <<call[c]>>
    BY <1>3 DEF ClientOK, Somewhere, Nowhere, InRequest, InTask, InReply
  <2> QED
    BY <1>4, <2>1, <2>2, <2>3
<1> DEFINE new == [conn[c] EXCEPT !.up = FALSE, !.toServ = toServ, !.toCli = toCli]
<1>6. conn' = [conn EXCEPT ![c] = new]
  BY <1>1
<1>7. /\ new.cliOpen = conn[c].cliOpen /\ new.toServ = toServ /\ new.toCli = toCli
      /\ new \in Conn(Seq(CallSet))
  <2>1. conn \in [Client -> Conn(Seq(CallSet))] /\ conn[c] \in Conn(Seq(CallSet))
    BY <1>3 DEF Types
  <2>2. new \in Conn(Seq(CallSet))
    BY <1>5, <2>1, ConnFacts
  <2> QED
    BY <2>1, <2>2 DEF Conn
<1> HIDE DEF new
<1>8. conn'[c] = new /\ \A d \in Client : d # c => conn'[d] = conn[d]
  BY <1>3, <1>6 DEF Types
<1>9. Types'
  BY <1>2, <1>3, <1>6, <1>7 DEF Types
<1>10. ClientOK(c)'
  <2>1. TasksOf(c)' = TasksOf(c)
    BY <1>2 DEF TasksOf
  <2>2. Served(c)' <=> Served(c)
    BY <1>2, SameClient
  <2>3. Nowhere(c) => Nowhere(c)'
    BY <1>4, <1>7, <1>8, <2>1 DEF Nowhere
  <2>4. InRequest(c) => InRequest(c)' \/ Nowhere(c)'
    BY <1>2, <1>4, <1>7, <1>8, <2>1, <2>2 DEF InRequest, Nowhere
  <2>5. /\ InTask(c, "handler") => InTask(c, "handler")'
        /\ InTask(c, "send") => InTask(c, "send")'
    BY <1>2, <1>4, <1>7, <1>8, <2>1, <2>2 DEF InTask
  <2>6. InReply(c) => InReply(c)' \/ Nowhere(c)'
    BY <1>2, <1>4, <1>7, <1>8, <2>1, <2>2 DEF InReply, Nowhere
  <2>7. Somewhere(c)'
    BY <1>3, <2>3, <2>4, <2>5, <2>6 DEF ClientOK, Somewhere
  <2> QED
    BY <1>2, <1>3, <1>7, <1>8, <2>3, <2>7, SameClient
<1>11. IInv' /\ \A d \in Client : d # c => CallOf(d)' = CallOf(d)
  BY <1>2, <1>8, <1>9, <1>10, StepOf DEF TasksOf
<1> QED
  BY <1>2, <1>11, SameClient, Stutters

\* A goroutine that ends moves no frame.
LEMMA ReadFailsStep ==
    ASSUME IInv, NEW c \in Client, ReadFails(c)
    PROVE  IInv' /\ UNCHANGED Remote!vars
<1>1. /\ conn' = [conn EXCEPT ![c].servOpen = FALSE]
      /\ reader' = [reader EXCEPT ![c] = "quit"]
      /\ UNCHANGED <<pc, call, reply, tasks, served>>
  BY DEF ReadFails, ServClose
<1>2. Types /\ ClientOK(c)
  BY DEF IInv
<1>3. /\ \A d \in Client : d # c => conn'[d] = conn[d]
      /\ conn'[c].cliOpen = conn[c].cliOpen /\ conn'[c].toCli = conn[c].toCli
      /\ conn'[c].toServ = conn[c].toServ
  BY <1>1, <1>2 DEF Types
<1>4. Types'
  <2>1. conn' \in [Client -> Conn(Seq(CallSet))]
    <3>1. <<>> \in Seq(CallSet)
      OBVIOUS
    <3> QED
      BY <1>1, <1>2, <3>1, ConnFacts DEF Types
  <2> QED
    BY <1>1, <1>2, <2>1 DEF Types
<1>5. ClientOK(c)'
  <2>1. Somewhere(c)' /\ (Nowhere(c) => Nowhere(c)')
    BY <1>1, <1>2, <1>3, SameClient
        DEF ClientOK, Somewhere, Nowhere, InRequest, InTask, InReply, TasksOf
  <2> QED
    BY <1>1, <1>2, <1>3, <2>1, SameClient
<1>6. IInv' /\ \A d \in Client : d # c => CallOf(d)' = CallOf(d)
  BY <1>1, <1>3, <1>4, <1>5, StepOf DEF TasksOf
<1> QED
  BY <1>1, <1>6, SameClient, Stutters

\* Reading moves the request from the wire to its goroutine.
LEMMA ReadStep ==
    ASSUME IInv, NEW c \in Client, Read(c)
    PROVE  IInv' /\ UNCHANGED Remote!vars
<1>1. /\ conn[c].toServ # <<>>
      /\ tasks' = tasks \cup {[call |-> Head(conn[c].toServ), at |-> "handler"]}
      /\ conn' = [conn EXCEPT ![c].toServ = Tail(conn[c].toServ)]
      /\ reader' = [reader EXCEPT ![c] = KeepReading]
      /\ UNCHANGED <<pc, call, reply, served>>
  BY DEF Read
<1>2. Types /\ ClientOK(c)
  BY DEF IInv
<1>3. InRequest(c)
  BY <1>1, <1>2 DEF ClientOK, Somewhere, Nowhere, InReply, InTask
<1>4. /\ Head(conn[c].toServ) = call[c] /\ Tail(conn[c].toServ) = <<>>
      /\ call[c] \in CallSet /\ call[c].from = c
  BY <1>2, <1>3 DEF InRequest, Types
<1> DEFINE task == [call |-> call[c], at |-> "handler"]
<1>5. /\ tasks' = tasks \cup {task} /\ task.call.from = c
      /\ task \in [call : CallSet, at : {"handler", "send"}]
  <2> HIDE DEF CallSet
  <2> QED
    BY <1>1, <1>4
<1> HIDE DEF task
<1>6. /\ \A d \in Client : d # c => conn'[d] = conn[d]
      /\ conn'[c].cliOpen = conn[c].cliOpen /\ conn'[c].toCli = conn[c].toCli
      /\ conn'[c].toServ = <<>>
  BY <1>1, <1>2, <1>4 DEF Types
<1>7. Types'
  <2>1. <<>> \in Seq(CallSet)
    OBVIOUS
  <2>2. conn' \in [Client -> Conn(Seq(CallSet))]
    <3>1. conn' = [conn EXCEPT ![c].toServ = <<>>]
      BY <1>1, <1>4
    <3> QED
      BY <1>2, <2>1, <3>1, ConnFacts DEF Types
  <2>3. reader' \in [Client -> {"backlog", "reading", "quit"}]
    BY <1>1, <1>2 DEF Types, KeepReading
  <2> QED
    BY <1>1, <1>2, <1>5, <2>2, <2>3 DEF Types
<1>8. TasksOf(c)' = {task} /\ \A d \in Client : d # c => TasksOf(d)' = TasksOf(d)
  BY <1>3, <1>5 DEF TasksOf, InRequest
<1>9. ClientOK(c)'
  <2>1. InTask(c, "handler")'
    BY <1>1, <1>3, <1>6, <1>8, SameClient DEF InRequest, InTask, task
  <2>2. ~Nowhere(c)
    BY <1>3 DEF InRequest, Nowhere
  <2> QED
    BY <1>1, <1>2, <1>6, <2>1, <2>2, SameClient DEF Somewhere
<1>10. IInv' /\ \A d \in Client : d # c => CallOf(d)' = CallOf(d)
  BY <1>1, <1>6, <1>7, <1>8, <1>9, StepOf
<1> QED
  BY <1>1, <1>10, SameClient, Stutters

\* A goroutine of the server is the only trace of its caller's call.
LEMMA TaskFacts ==
    ASSUME IInv, NEW task \in tasks
    PROVE  /\ task.call.from \in Client /\ task.call \in CallSet
           /\ task.at \in {"handler", "send"}
           /\ InTask(task.call.from, task.at)
           /\ task = [call |-> call[task.call.from], at |-> task.at]
           /\ pc[task.call.from] # "idle"
           /\ ~Nowhere(task.call.from)
<1> DEFINE c == task.call.from
<1>1. c \in Client /\ task.call \in CallSet /\ task.at \in {"handler", "send"}
  <2>1. task \in [call : CallSet, at : {"handler", "send"}]
    BY DEF IInv, Types
  <2>2. task.call \in CallSet /\ task.at \in {"handler", "send"}
    <3> HIDE DEF CallSet
    <3> QED
      BY <2>1
  <2> QED
    BY <2>2 DEF CallSet
<1>2. task \in TasksOf(c)
  BY DEF TasksOf
<1> HIDE DEF c
<1>3. InTask(c, "handler") \/ InTask(c, "send")
  BY <1>1, <1>2 DEF IInv, ClientOK, Somewhere, Nowhere, InRequest, InReply
<1>4. PICK at \in {"handler", "send"} : InTask(c, at)
  BY <1>3
<1>5. task = [call |-> call[c], at |-> at]
  BY <1>2, <1>4 DEF InTask
<1>6. task.at = at
  BY <1>5
<1>7. ~Nowhere(c)
  BY <1>2 DEF Nowhere
<1>8. pc[c] # "idle"
  BY <1>1, <1>7 DEF IInv, ClientOK
<1> QED
  BY <1>1, <1>4, <1>5, <1>6, <1>7, <1>8 DEF c

\* Executing is the remote call taking effect, for the first time.
LEMMA ExecuteStep ==
    ASSUME IInv, NEW task \in tasks, Handle(task), task.call.rpc \in Handlers
    PROVE  IInv' /\ Remote!Execute(task.call.from)
<1> DEFINE c == task.call.from
           done == [call |-> call[c], at |-> "send"]
<1>1. /\ task.at = "handler" /\ served' = Append(served, task.call)
      /\ tasks' = (tasks \ {task}) \cup {[task EXCEPT !.at = "send"]}
      /\ UNCHANGED <<conn, pc, call, reply, reader>>
  BY DEF Handle
<1>2. /\ c \in Client /\ call[c] \in CallSet /\ task = [call |-> call[c], at |-> "handler"]
      /\ InTask(c, "handler") /\ pc[c] # "idle" /\ ~Nowhere(c)
      /\ Types /\ ClientOK(c)
  BY <1>1, TaskFacts DEF IInv, Types
<1>3. [task EXCEPT !.at = "send"] = done /\ task.call = call[c] /\ done.call = call[c]
  BY <1>2
<1>4. done \in [call : CallSet, at : {"handler", "send"}] /\ call[c].from = c
  <2> HIDE DEF CallSet
  <2> QED
    BY <1>2 DEF Types
<1> HIDE DEF c, done
<1>5. tasks' = (tasks \ {task}) \cup {done} /\ served' = Append(served, call[c])
  BY <1>1, <1>3
<1>6. /\ Len(served) \in Nat /\ DOMAIN served = 1..Len(served)
      /\ DOMAIN served' = 1..(Len(served) + 1)
      /\ \A i \in DOMAIN served : served'[i] = served[i]
      /\ served'[Len(served) + 1] = call[c]
      /\ served' \in Seq(CallSet)
  <2>1. served \in Seq(CallSet)
    BY <1>2 DEF Types
  <2> HIDE DEF CallSet
  <2> QED
    BY <1>2, <1>5, <2>1
<1>7. Types'
  BY <1>1, <1>2, <1>4, <1>5, <1>6 DEF Types
<1>8. /\ TasksOf(c)' = {done}
      /\ \A d \in Client : d # c => TasksOf(d)' = TasksOf(d)
  <2>1. TasksOf(c) = {task}
    BY <1>2 DEF InTask
  <2>2. done.call.from = c /\ task.call.from = c
    BY <1>3, <1>4
  <2> QED
    BY <1>5, <2>1, <2>2 DEF TasksOf
<1>9. Served(c)'
  <2>1. Len(served) + 1 \in DOMAIN served' /\ call'[c] = call[c]
    BY <1>1, <1>6
  <2> QED
    BY <1>6, <2>1 DEF Served
<1>10. InTask(c, "send")'
  BY <1>1, <1>2, <1>8, <1>9 DEF InTask, done
<1>11. \A i \in DOMAIN served' : served'[i].from = c => served'[i].num <= call'[c].num
  <2>1. call[c].num \in Nat
    BY <1>2 DEF CallSet
  <2>2. \A i \in DOMAIN served : served[i].from = c => served[i].num <= call[c].num
    BY <1>2 DEF ClientOK
  <2>3. \A i \in DOMAIN served' : i \in DOMAIN served \/ i = Len(served) + 1
    BY <1>6
  <2> QED
    BY <1>1, <1>6, <2>1, <2>2, <2>3
<1>12. ClientOK(c)'
  BY <1>1, <1>2, <1>10, <1>11 DEF ClientOK, Somewhere
<1>13. \E x \in CallSet : x.from = c /\ served' = Append(served, x)
  BY <1>2, <1>4, <1>5
<1>14. IInv' /\ \A d \in Client : d # c => CallOf(d)' = CallOf(d)
  BY <1>1, <1>2, <1>7, <1>8, <1>12, <1>13, StepOf
<1> DEFINE op == [d \in Client |-> CallOf(d)]
<1>15. ~Served(c)
  BY <1>2 DEF InTask
<1>16. op[c] = [state |-> "pending", call |-> call[c]]
  BY <1>2, <1>15 DEF CallOf
<1>17. CallOf(c)' = [state |-> "served", call |-> call[c]]
  BY <1>1, <1>2, <1>9 DEF CallOf
<1>18. op' = [op EXCEPT ![c].state = "served"]
  <2>1. [op[c] EXCEPT !.state = "served"] = [state |-> "served", call |-> call[c]]
    BY <1>16
  <2> DEFINE new == [state |-> "served", call |-> call[c]]
  <2>2. [op EXCEPT ![c].state = "served"] = [op EXCEPT ![c] = new]
    BY <2>1
  <2> HIDE DEF new
  <2>3. op' = [op EXCEPT ![c] = new]
    BY <1>14, <1>17 DEF new
  <2> QED
    BY <2>2, <2>3
<1>19. Remote!Execute(c)
  <2>1. op[c].state = "pending" /\ op[c].call = call[c] /\ call[c].rpc \in Handlers
    BY <1>3, <1>16
  <2> QED
    BY <1>5, <1>18, <2>1 DEF Remote!Execute
<1> QED
  BY <1>14, <1>19 DEF c

\* There is no such procedure: the goroutine ends without an answer.
LEMMA NoHandlerStep ==
    ASSUME IInv, NEW task \in tasks, Handle(task), task.call.rpc \notin Handlers
    PROVE  IInv' /\ UNCHANGED Remote!vars
<1> DEFINE c == task.call.from
<1>1. /\ task.at = "handler" /\ tasks' = tasks \ {task}
      /\ UNCHANGED <<conn, pc, call, reply, reader, served>>
  BY DEF Handle
<1>2. /\ c \in Client /\ InTask(c, "handler") /\ TasksOf(c) = {task} /\ ~Nowhere(c)
      /\ Types /\ ClientOK(c)
  BY <1>1, TaskFacts DEF IInv, InTask
<1>3. task.call.from = c
  OBVIOUS
<1> HIDE DEF c
<1>4. /\ TasksOf(c)' = {}
      /\ \A d \in Client : d # c => TasksOf(d)' = TasksOf(d)
  BY <1>1, <1>2, <1>3 DEF TasksOf
<1>5. Types'
  BY <1>1, <1>2 DEF Types
<1>6. ClientOK(c)'
  <2>1. Nowhere(c)'
    BY <1>1, <1>2, <1>4 DEF InTask, Nowhere
  <2> QED
    BY <1>1, <1>2, <2>1, SameClient DEF Somewhere
<1>7. IInv' /\ \A d \in Client : d # c => CallOf(d)' = CallOf(d)
  BY <1>1, <1>2, <1>4, <1>5, <1>6, StepOf
<1> QED
  BY <1>1, <1>2, <1>7, SameClient, Stutters

\* Responding moves the response to the wire.
LEMMA RespondStep ==
    ASSUME IInv, NEW task \in tasks, Respond(task)
    PROVE  IInv' /\ UNCHANGED Remote!vars
<1> DEFINE c == task.call.from
<1>1. /\ task.at = "send" /\ tasks' = tasks \ {task}
      /\ UNCHANGED <<pc, call, reply, reader, served>>
      /\ \/ conn' = [conn EXCEPT ![c].toCli = Append(conn[c].toCli, task.call)]
         \/ conn' = conn
         \/ conn' = [conn EXCEPT ![c].servOpen = FALSE]
  BY DEF Respond, ServWrite, ServClose
<1>2. /\ c \in Client /\ InTask(c, "send") /\ TasksOf(c) = {task} /\ ~Nowhere(c)
      /\ task.call = call[c] /\ call[c] \in CallSet
      /\ Types /\ ClientOK(c)
  BY <1>1, TaskFacts DEF IInv, InTask
<1>3. task.call.from = c
  OBVIOUS
<1> HIDE DEF c
<1>4. /\ TasksOf(c)' = {}
      /\ \A d \in Client : d # c => TasksOf(d)' = TasksOf(d)
  BY <1>1, <1>2, <1>3 DEF TasksOf
<1>5. /\ conn' \in [Client -> Conn(Seq(CallSet))]
      /\ \A d \in Client : d # c => conn'[d] = conn[d]
      /\ conn'[c].cliOpen = conn[c].cliOpen /\ conn'[c].toServ = conn[c].toServ
      /\ conn'[c].toCli = <<>> \/ conn'[c].toCli = <<call[c]>>
  <2>1. /\ conn[c].toCli = <<>> /\ Append(<<>>, call[c]) = <<call[c]>>
        /\ <<call[c]>> \in Seq(CallSet) /\ <<>> \in Seq(CallSet)
        /\ conn \in [Client -> Conn(Seq(CallSet))]
    BY <1>2 DEF InTask, Types
  <2>2. CASE conn' = conn
    BY <1>2, <2>1, <2>2
  <2>3. CASE conn' = [conn EXCEPT ![c].servOpen = FALSE]
    <3>1. conn' \in [Client -> Conn(Seq(CallSet))]
      BY <1>2, <2>1, <2>3, ConnFacts
    <3> QED
      BY <1>2, <2>1, <2>3, <3>1 DEF Conn
  <2>4. CASE conn' = [conn EXCEPT ![c].toCli = Append(conn[c].toCli, task.call)]
    <3>1. conn' = [conn EXCEPT ![c].toCli = <<call[c]>>]
      BY <1>2, <2>1, <2>4
    <3>2. conn' \in [Client -> Conn(Seq(CallSet))]
      BY <1>2, <2>1, <3>1, ConnFacts
    <3> QED
      BY <1>2, <2>1, <3>1, <3>2 DEF Conn
  <2> QED
    BY <1>1, <2>2, <2>3, <2>4
<1>6. Types'
  BY <1>1, <1>2, <1>5 DEF Types
<1>7. ClientOK(c)'
  <2>1. (Served(c)' <=> Served(c)) /\ Served(c)
    BY <1>1, <1>2, SameClient DEF InTask
  <2>2. Nowhere(c)' \/ InReply(c)'
    BY <1>1, <1>2, <1>4, <1>5, <2>1 DEF InTask, Nowhere, InReply
  <2> QED
    BY <1>1, <1>2, <1>5, <2>2, SameClient DEF Somewhere
<1>8. IInv' /\ \A d \in Client : d # c => CallOf(d)' = CallOf(d)
  BY <1>1, <1>2, <1>4, <1>5, <1>6, <1>7, StepOf
<1> QED
  BY <1>1, <1>2, <1>8, SameClient, Stutters

-----------------------------------------------------------------------------
(* The theorems. *)

\* It holds at the start, which is a start of the remote calls.
LEMMA InitInv == ASSUME Init PROVE IInv /\ Remote!Init
<1>1. Types
  <2>1. <<>> \in Seq(CallSet)
    OBVIOUS
  <2>2. NewConn \in Conn(Seq(CallSet))
    BY <2>1 DEF NewConn, Conn
  <2>3. \A c \in Client : NoCall(c) \in CallSet /\ NoCall(c).from = c
    BY DEF NoCall, CallSet
  <2> QED
    BY <2>1, <2>2, <2>3 DEF Init, Types
<1>2. ASSUME NEW c \in Client PROVE ClientOK(c) /\ CallOf(c) = Remote!Idle
  <2>1. /\ conn[c] = NewConn /\ pc[c] = "idle" /\ call[c] = NoCall(c) /\ reply[c] = NoCall(c)
        /\ tasks = {} /\ served = <<>>
    BY DEF Init
  <2>2. Nowhere(c)
    BY <2>1 DEF Nowhere, TasksOf, NewConn
  <2>3. ClientOK(c)
    BY <2>1, <2>2 DEF ClientOK, Somewhere, NewConn
  <2>4. CallOf(c) = Remote!Idle
    BY <2>1 DEF CallOf, NoCall, Remote!Idle
  <2> QED
    BY <2>3, <2>4
<1>3. Remote!Init
  BY <1>2 DEF Remote!Init, Init
<1> QED
  BY <1>1, <1>2, <1>3 DEF IInv

\* A stuttering step keeps it.
LEMMA StutterStep ==
    ASSUME IInv, UNCHANGED vars
    PROVE  IInv' /\ UNCHANGED Remote!vars
<1>1. UNCHANGED <<conn, pc, call, reply, reader, tasks, served>>
  BY DEF vars
<1>2. Types'
  BY <1>1 DEF IInv, Types
<1>3. ASSUME NEW c \in Client PROVE ClientOK(c)' /\ CallOf(c)' = CallOf(c)
  <2>1. ClientOK(c)
    BY DEF IInv
  <2>2. Somewhere(c)' /\ (Nowhere(c) => Nowhere(c)')
    BY <1>1, <2>1, SameClient
        DEF ClientOK, Somewhere, Nowhere, InRequest, InTask, InReply, TasksOf
  <2> QED
    BY <1>1, <2>1, <2>2, SameClient
<1> QED
  BY <1>1, <1>2, <1>3, Stutters DEF IInv

\* Every step keeps it and is a step of the remote calls.
LEMMA NextStep ==
    ASSUME IInv, [Next]_vars
    PROVE  IInv' /\ [Remote!Next]_(Remote!vars)
<1>1. ASSUME NEW c \in Client, Call(c) PROVE IInv' /\ Remote!Next
  BY <1>1, CallStep DEF Remote!Next
<1>2. ASSUME NEW c \in Client, Receive(c) PROVE IInv' /\ Remote!Next
  BY <1>2, ReceiveStep DEF Remote!Next
<1>3. ASSUME NEW c \in Client, Send(c) \/ SendFails(c) \/ ReceiveFails(c)
      PROVE  IInv' /\ UNCHANGED Remote!vars
  BY <1>3, SendStep, FailStep
<1>4. ASSUME NEW c \in Client, ReaderStep(c) \/ Break(c)
      PROVE  IInv' /\ UNCHANGED Remote!vars
  BY <1>4, AcceptStep, ReadStep, ReadFailsStep, BreakStep DEF ReaderStep
<1>5. ASSUME NEW task \in tasks, TaskStep(task)
      PROVE  IInv' /\ (Remote!Next \/ UNCHANGED Remote!vars)
  <2>1. CASE Handle(task) /\ task.call.rpc \in Handlers
    <3>1. IInv' /\ Remote!Execute(task.call.from) /\ task.call.from \in Client
      BY <2>1, ExecuteStep, TaskFacts
    <3> QED
      BY <3>1 DEF Remote!Next
  <2>2. CASE Handle(task) /\ task.call.rpc \notin Handlers
    BY <2>2, NoHandlerStep
  <2>3. CASE Respond(task)
    BY <2>3, RespondStep
  <2> QED
    BY <1>5, <2>1, <2>2, <2>3 DEF TaskStep
<1>6. CASE UNCHANGED vars
  BY <1>6, StutterStep
<1> QED
  BY <1>1, <1>2, <1>3, <1>4, <1>5, <1>6 DEF Next, ClientStep

\* The inductive invariant holds in every state of Rpc.
THEOREM Invariance == Spec => []IInv
<1>1. Init => IInv
  BY InitInv
<1>2. IInv /\ [Next]_vars => IInv'
  BY NextStep
<1> QED
  BY <1>1, <1>2, PTL DEF Spec

\* Whatever breaks, a call that returns got the response to its own request.
THEOREM RepliesAlwaysMatch == Spec => []RepliesMatch
<1>1. IInv => RepliesMatch
  BY DEF IInv, ClientOK, RepliesMatch
<1> QED
  BY <1>1, Invariance, PTL

\* Connections, frames, goroutines and stubs together implement remote calls:
\* each takes effect at most once, before it returns.
THEOREM CallsAtMostOnce == Spec => AtMostOnce
<1>1. Init => Remote!Init
  BY InitInv
<1>2. IInv /\ [Next]_vars => [Remote!Next]_(Remote!vars)
  BY NextStep
<1> QED
  BY <1>1, <1>2, Invariance, PTL DEF Spec, AtMostOnce, Remote!Spec
=============================================================================
