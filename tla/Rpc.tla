--------------------------------- MODULE Rpc ---------------------------------
(***************************************************************************)
(* Remote calls (advrpc, netffi, the loops of the stubs in kt/rpc.go) over *)
(* connections that may break.  A client calls on one connection, which    *)
(* nobody else uses; the server reads each connection in a goroutine, and  *)
(* answers each request in another.                                        *)
(*                                                                         *)
(* A frame is sent and received whole or not at all: Receive fails on one  *)
(* that is cut off.  When a connection breaks, any frames that are not     *)
(* received yet may be lost, later ones first (TCP keeps the order); what  *)
(* is written afterwards is lost, and the writer may or may not be told.   *)
(***************************************************************************)
EXTENDS Naturals, Sequences, FiniteSets

CONSTANTS
    Client,
    RpcId,      \* procedures that clients call
    Handlers,   \* procedures that the server has
    MaxCalls    \* calls by each client

ASSUME IdAssumption == Handlers \subseteq RpcId /\ RpcId \subseteq Nat
ASSUME MaxCallsAssumption == MaxCalls \in Nat

VARIABLES
    conn,       \* client -> its connection
    pc,         \* where each client is
    call,       \* its outstanding call, or the last one
    reply,      \* client -> what its last call returned
    reader,     \* the server's goroutine for each connection
    tasks,      \* the server's goroutines in handle
    served      \* history: the calls executed by the server, in order

vars == <<conn, pc, call, reply, reader, tasks, served>>

NoCall(c) == [from |-> c, num |-> 0, rpc |-> 0]

\* Dial succeeded: it panics otherwise.
NewConn == [up |-> TRUE, cliOpen |-> TRUE, servOpen |-> TRUE, toServ |-> <<>>,
            toCli |-> <<>>]

Init ==
    /\ conn = [c \in Client |-> NewConn]
    /\ pc = [c \in Client |-> "idle"]
    /\ call = [c \in Client |-> NoCall(c)]
    /\ reply = [c \in Client |-> NoCall(c)]
    /\ reader = [c \in Client |-> "backlog"]
    /\ tasks = {}
    /\ served = <<>>

-----------------------------------------------------------------------------
(* netffi.  A side whose end is closed can neither send nor receive. *)

\* Frames that a broken connection still delivers.
Prefixes(frames) == {SubSeq(frames, 1, n) : n \in 0..Len(frames)}

\* The connection breaks: reset, time-out of TCP, the other host is gone.
Break(c) ==
    /\ conn[c].up
    /\ \E toServ \in Prefixes(conn[c].toServ), toCli \in Prefixes(conn[c].toCli) :
        conn' = [conn EXCEPT ![c] = [@ EXCEPT !.up = FALSE, !.toServ = toServ,
                                              !.toCli = toCli]]
    /\ UNCHANGED <<pc, call, reply, reader, tasks, served>>

\* Conn.Send succeeds: on a broken connection that nobody has noticed yet the
\* frame is lost.
CliWrite(c, frame) ==
    /\ conn[c].cliOpen
    /\ conn' = IF conn[c].up
               THEN [conn EXCEPT ![c].toServ = Append(@, frame)]
               ELSE conn

ServWrite(c, frame) ==
    /\ conn[c].servOpen
    /\ conn' = IF conn[c].up
               THEN [conn EXCEPT ![c].toCli = Append(@, frame)]
               ELSE conn

\* Conn.Send or Conn.Receive fails.
CliFails(c) == ~conn[c].up \/ ~conn[c].cliOpen
ServFails(c) == ~conn[c].up \/ ~conn[c].servOpen

\* Seeded fault: a client that dials again after an error.
Redial(c) == conn' = [conn EXCEPT ![c] = NewConn]

CliClose(c) == conn' = [conn EXCEPT ![c].cliOpen = FALSE]
ServClose(c) == conn' = [conn EXCEPT ![c].servOpen = FALSE]

-----------------------------------------------------------------------------
(* Client.Call in the loop of a stub: after an error, the same request is   *)
(* made again, without end.                                                 *)

Call(c) ==
    /\ pc[c] = "idle"
    /\ call[c].num < MaxCalls
    /\ \E rpc \in RpcId :
        call' = [call EXCEPT ![c] = [from |-> c, num |-> @.num + 1, rpc |-> rpc]]
    /\ pc' = [pc EXCEPT ![c] = "send"]
    /\ UNCHANGED <<conn, reply, reader, tasks, served>>

Send(c) ==
    /\ pc[c] = "send"
    /\ CliWrite(c, call[c])
    /\ pc' = [pc EXCEPT ![c] = "receive"]
    /\ UNCHANGED <<call, reply, reader, tasks, served>>

SendFails(c) ==
    /\ pc[c] = "send"
    /\ CliFails(c)
    /\ CliClose(c)
    /\ UNCHANGED <<pc, call, reply, reader, tasks, served>>

Receive(c) ==
    /\ pc[c] = "receive"
    /\ conn[c].cliOpen
    /\ conn[c].toCli # <<>>
    /\ reply' = [reply EXCEPT ![c] = Head(conn[c].toCli)]
    /\ conn' = [conn EXCEPT ![c].toCli = Tail(@)]
    /\ pc' = [pc EXCEPT ![c] = "idle"]
    /\ UNCHANGED <<call, reader, tasks, served>>

\* Seeded fault: the client stops waiting, on a connection that it goes on to use.
ReceiveTimesOut(c) ==
    /\ pc[c] = "receive"
    /\ pc' = [pc EXCEPT ![c] = "send"]
    /\ UNCHANGED <<conn, call, reply, reader, tasks, served>>

ReceiveFails(c) ==
    /\ pc[c] = "receive"
    /\ CliFails(c)
    /\ conn[c].cliOpen => conn[c].toCli = <<>>
    /\ CliClose(c)
    /\ pc' = [pc EXCEPT ![c] = "send"]
    /\ UNCHANGED <<call, reply, reader, tasks, served>>

-----------------------------------------------------------------------------
(* The server. *)

Accept(c) ==
    /\ reader[c] = "backlog"
    /\ reader' = [reader EXCEPT ![c] = "reading"]
    /\ UNCHANGED <<conn, pc, call, reply, tasks, served>>

\* Seeded fault: the goroutine ends after its first request.
QuitReading == "quit"

KeepReading == "reading"

\* Server.read: one goroutine per request.
Read(c) ==
    /\ reader[c] = "reading"
    /\ conn[c].servOpen
    /\ conn[c].toServ # <<>>
    /\ tasks' = tasks \cup {[call |-> Head(conn[c].toServ), at |-> "handler"]}
    /\ conn' = [conn EXCEPT ![c].toServ = Tail(@)]
    /\ reader' = [reader EXCEPT ![c] = KeepReading]
    /\ UNCHANGED <<pc, call, reply, served>>

ReadFails(c) ==
    /\ reader[c] = "reading"
    /\ ServFails(c)
    /\ conn[c].servOpen => conn[c].toServ = <<>>
    /\ ServClose(c)
    /\ reader' = [reader EXCEPT ![c] = "quit"]
    /\ UNCHANGED <<pc, call, reply, tasks, served>>

\* Server.handle calls the handler, if there is one.
Handle(task) ==
    /\ task.at = "handler"
    /\ IF task.call.rpc \in Handlers
       THEN /\ served' = Append(served, task.call)
            /\ tasks' = (tasks \ {task}) \cup {[task EXCEPT !.at = "send"]}
       ELSE /\ tasks' = tasks \ {task}
            /\ UNCHANGED served
    /\ UNCHANGED <<conn, pc, call, reply, reader>>

\* conn.Send of the response; its error is ignored.
Respond(task) ==
    LET c == task.call.from IN
    /\ task.at = "send"
    /\ \/ ServWrite(c, task.call)
       \/ ServFails(c) /\ ServClose(c)
    /\ tasks' = tasks \ {task}
    /\ UNCHANGED <<pc, call, reply, reader, served>>

-----------------------------------------------------------------------------
ClientStep(c) == Send(c) \/ SendFails(c) \/ Receive(c) \/ ReceiveFails(c)

ReaderStep(c) == Accept(c) \/ Read(c) \/ ReadFails(c)

TaskStep(task) == Handle(task) \/ Respond(task)

Next ==
    \/ \E c \in Client : Call(c) \/ ClientStep(c) \/ ReaderStep(c) \/ Break(c)
    \/ \E task \in tasks : TaskStep(task)

Spec == Init /\ [][Next]_vars

\* Goroutines run on both sides; handlers return (Server!CallsReturn).  Nobody
\* has to make another call, and no connection has to break.
Fairness ==
    \A c \in Client :
        /\ WF_vars(ClientStep(c))
        /\ WF_vars(ReaderStep(c))
        /\ WF_vars(\E task \in tasks : task.call.from = c /\ TaskStep(task))

FairSpec == Spec /\ Fairness

-----------------------------------------------------------------------------
(* Properties. *)

\* A call returns the response to its own request, never a late one to an
\* earlier call on the connection.
RepliesMatch == \A c \in Client : pc[c] = "idle" => reply[c] = call[c]

\* What a client has of its call, and what has become of it.
Served(c) == \E i \in DOMAIN served : served[i] = call[c]

CallOf(c) ==
    IF pc[c] = "idle"
    THEN IF call[c].num = 0 THEN [state |-> "idle"]
         ELSE [state |-> "done", call |-> call[c], reply |-> reply[c]]
    ELSE [state |-> IF Served(c) THEN "served" ELSE "pending", call |-> call[c]]

\* The calls behave as remote calls should: also when connections break and
\* stubs repeat their requests, a request takes effect at most once, and
\* before its call returns.
Remote == INSTANCE RemoteCalls WITH op <- [c \in Client |-> CallOf(c)]

AtMostOnce == Remote!Spec

\* Every call of a procedure that the server has returns, unless its connection
\* breaks.
ReturnsUnlessBroken ==
    \A c \in Client :
        pc[c] # "idle" /\ call[c].rpc \in Handlers ~> (pc[c] = "idle" \/ ~conn[c].up)
=============================================================================
