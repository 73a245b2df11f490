------------------------------- MODULE Netffi -------------------------------
(***************************************************************************)
(* One direction of a connection (netffi) at the grain of TCP's stream of  *)
(* bytes: goroutines that Send on it, sharing sendMu, and others that      *)
(* Receive from it, sharing recvMu.  A frame is its length and its data.   *)
(* Rpc uses connections as FrameQ describes them; this module shows that   *)
(* they are.                                                               *)
(*                                                                         *)
(* Write hands the bytes to the stream piece by piece, and ReadFull takes  *)
(* them piece by piece; here, byte by byte.                                *)
(***************************************************************************)
EXTENDS Marshal

CONSTANTS
    Sender, Receiver,
    Data,       \* contents of frames
    MaxSends    \* frames that are sent

ASSUME MaxSendsAssumption == MaxSends \in Nat

VARIABLES
    up,         \* the connection has not broken
    stream,     \* bytes under way
    sendOpen, recvOpen,     \* the two ends: FALSE after Close
    sendMu, recvMu,         \* the mutexes' holders
    spc, data, msg,         \* senders: where they are, what they send, bytes to write
    rpc, buf, want,         \* receivers: bytes read, and to be read
    sent,       \* history: the frames whose writing has begun, in order
    got         \* history: the frames received, in order

connVars == <<up, stream, sendOpen, recvOpen>>
sendVars == <<sendMu, spc, data, msg>>
recvVars == <<recvMu, rpc, buf, want>>
vars == <<connVars, sendVars, recvVars, sent, got>>

Nobody == {}

Init ==
    /\ up = TRUE
    /\ stream = <<>>
    /\ sendOpen = TRUE
    /\ recvOpen = TRUE
    /\ sendMu = Nobody
    /\ recvMu = Nobody
    /\ spc = [s \in Sender |-> "idle"]
    /\ data = [s \in Sender |-> <<>>]
    /\ msg = [s \in Sender |-> <<>>]
    /\ rpc = [r \in Receiver |-> "idle"]
    /\ buf = [r \in Receiver |-> <<>>]
    /\ want = [r \in Receiver |-> 0]
    /\ sent = <<>>
    /\ got = <<>>

\* The connection breaks; bytes that were under way may be lost, later ones first.
Break ==
    /\ up
    /\ up' = FALSE
    /\ \E n \in 0..Len(stream) : stream' = SubSeq(stream, 1, n)
    /\ UNCHANGED <<sendOpen, recvOpen, sendVars, recvVars, sent, got>>

-----------------------------------------------------------------------------
(* Send *)

NumSends == Cardinality({s \in Sender : spc[s] = "lock"}) + Len(sent)

Send(s) ==
    /\ spc[s] = "idle"
    /\ NumSends < MaxSends
    /\ \E d \in Data : data' = [data EXCEPT ![s] = d]
    /\ spc' = [spc EXCEPT ![s] = "lock"]
    /\ UNCHANGED <<connVars, sendMu, msg, recvVars, sent, got>>

SendLock(s) ==
    /\ spc[s] = "lock"
    /\ sendMu = Nobody
    /\ sendMu' = {s}
    /\ msg' = [msg EXCEPT ![s] = WriteInt(Len(data[s])) \o data[s]]
    /\ spc' = [spc EXCEPT ![s] = "write"]
    /\ sent' = Append(sent, data[s])
    /\ UNCHANGED <<connVars, data, recvVars, got>>

\* A byte that is written after the connection broke is lost.
Write(s) ==
    /\ spc[s] = "write"
    /\ sendOpen
    /\ msg[s] # <<>>
    /\ stream' = IF up THEN Append(stream, Head(msg[s])) ELSE stream
    /\ msg' = [msg EXCEPT ![s] = Tail(@)]
    /\ UNCHANGED <<up, sendOpen, recvOpen, sendMu, spc, data, recvVars, sent, got>>

\* An error of Write, or its success, and the deferred Unlock.
SendReturn(s) ==
    /\ spc[s] = "write"
    /\ \/ /\ ~up \/ ~sendOpen
          /\ sendOpen' = FALSE
       \/ /\ msg[s] = <<>>
          /\ UNCHANGED sendOpen
    /\ sendMu' = Nobody
    /\ spc' = [spc EXCEPT ![s] = "idle"]
    /\ UNCHANGED <<up, stream, recvOpen, data, msg, recvVars, sent, got>>

-----------------------------------------------------------------------------
(* Receive *)

\* Seeded fault: without recvMu.
NoRecvLock(r) == UNCHANGED recvMu

RecvLock(r) ==
    /\ recvMu = Nobody
    /\ recvMu' = {r}

\* Seeded fault: the mutex is not released.
NoRecvUnlock == UNCHANGED recvMu

RecvUnlock == recvMu' = Nobody

Receive(r) ==
    /\ rpc[r] = "idle"
    /\ RecvLock(r)
    /\ rpc' = [rpc EXCEPT ![r] = "header"]
    /\ buf' = [buf EXCEPT ![r] = <<>>]
    /\ want' = [want EXCEPT ![r] = IntLen]
    /\ UNCHANGED <<connVars, sendVars, sent, got>>

\* ReadFull, of the header or of the data.
Read(r) ==
    /\ rpc[r] \in {"header", "data"}
    /\ recvOpen
    /\ Len(buf[r]) < want[r]
    /\ stream # <<>>
    /\ buf' = [buf EXCEPT ![r] = Append(@, Head(stream))]
    /\ stream' = Tail(stream)
    /\ UNCHANGED <<up, sendOpen, recvOpen, sendVars, recvMu, rpc, want, sent, got>>

HeaderDone(r) ==
    /\ rpc[r] = "header"
    /\ Len(buf[r]) = want[r]
    /\ rpc' = [rpc EXCEPT ![r] = "data"]
    /\ want' = [want EXCEPT ![r] = ReadInt(buf[r]).val]
    /\ buf' = [buf EXCEPT ![r] = <<>>]
    /\ UNCHANGED <<connVars, sendVars, recvMu, sent, got>>

DataDone(r) ==
    /\ rpc[r] = "data"
    /\ Len(buf[r]) = want[r]
    /\ got' = Append(got, buf[r])
    /\ RecvUnlock
    /\ rpc' = [rpc EXCEPT ![r] = "idle"]
    /\ UNCHANGED <<connVars, sendVars, buf, want, sent>>

\* Nothing more comes, or this end is closed.
ReceiveFails(r) ==
    /\ rpc[r] \in {"header", "data"}
    /\ Len(buf[r]) < want[r]
    /\ recvOpen => stream = <<>> /\ (~up \/ ~sendOpen)
    /\ recvOpen' = FALSE
    /\ RecvUnlock
    /\ rpc' = [rpc EXCEPT ![r] = "idle"]
    /\ UNCHANGED <<up, stream, sendOpen, sendVars, buf, want, sent, got>>

-----------------------------------------------------------------------------
SendStep(s) == SendLock(s) \/ Write(s) \/ SendReturn(s)
ReceiveStep(r) ==
    Receive(r) \/ Read(r) \/ HeaderDone(r) \/ DataDone(r) \/ ReceiveFails(r)

Next ==
    \/ \E s \in Sender : Send(s) \/ SendStep(s)
    \/ \E r \in Receiver : ReceiveStep(r)
    \/ Break

Spec == Init /\ [][Next]_vars

\* Goroutines run; receivers receive for ever (Server.read).
Fairness ==
    /\ \A s \in Sender : WF_vars(SendStep(s))
    /\ \A r \in Receiver : WF_vars(ReceiveStep(r))

FairSpec == Spec /\ Fairness

-----------------------------------------------------------------------------
(* Properties. *)

\* Bytes on their way to the receivers, of frames that are not received yet.
Arriving ==
    Len(stream) + FoldLeft(LAMBDA n, r : n + CASE rpc[r] = "idle"   -> 0
                                               [] rpc[r] = "header" -> Len(buf[r])
                                               [] rpc[r] = "data"   -> IntLen + Len(buf[r]),
                           0, SetToSeq(Receiver))

\* The frames that are not received yet and will be: all if the connection
\* has not broken, otherwise those of which all bytes are on their way.
Coming ==
    LET rest == SubSeq(sent, Len(got) + 1, Len(sent))
        bytes[n \in 0..Len(rest)] ==
            IF n = 0 THEN 0 ELSE bytes[n - 1] + IntLen + Len(rest[n])
        whole == {n \in 0..Len(rest) : up \/ bytes[n] <= Arriving}
    IN  SubSeq(rest, 1, Max(whole))

\* However the bytes of sends and receives interleave and wherever the
\* connection breaks off, frames arrive whole, once and in order, the last
\* ones perhaps not at all: no frame is torn, mixed with another or made up
\* from the rest of one.
Frames == INSTANCE FrameQ WITH queue <- Coming
ImplementsFrameQ == Frames!Spec

\* On a connection that does not break, all that is sent is received.
Delivered == \A n \in 1..MaxSends : Len(sent) = n ~> (Len(got) >= n \/ ~up)
=============================================================================
