------------------------------ MODULE RpcServer ------------------------------
(***************************************************************************)
(* The server behind its RPC handlers (kt/rpc.go): what a method returns   *)
(* is encoded by the generated encoders (kt/serde.out.go), which follow    *)
(* the pointers of the reply.  A nil pointer stops the process, since      *)
(* nobody recovers from the panic of a handler's goroutine, and the        *)
(* server's state, which is in memory only, is gone.                       *)
(***************************************************************************)
EXTENDS Server

VARIABLE crashed    \* the process has stopped

rpcVars == <<vars, crashed>>

\* Besides being no key, NoPk is the nil pointer and the empty byte string.
Nil == NoPk

\* The Resp of a Put that WorkerGet refuses.
RefusedPut ==
    [err |-> TRUE, dig |-> Nil, latest |-> EmptyMemb, bound |-> NonMemb(Nil, Nil)]

\* What Audit returns for an epoch that is not there.
RefusedAudit == [err |-> TRUE, updates |-> EmptyMap, sig |-> Nil]

\* The results of the method that thread t has called.
Results(t) ==
    IF ~resp[t].err THEN resp[t]
    ELSE IF req[t].op = "put" THEN RefusedPut ELSE RefusedAudit

-----------------------------------------------------------------------------
(* Do the encoders return: SigDigEncode, MembEncode (which calls            *)
(* CommitOpenEncode), NonMembEncode and those of the replies.  Lists of     *)
(* MembHide have no nil elements by GetHist.                                *)

EncodesSigDig(o) == o # Nil
EncodesMemb(o) == o # Nil /\ o.pkOpen # Nil
EncodesNonMemb(o) == o # Nil

EncodesReply(op, r) ==
    /\ op \in {"put", "get", "selfmon"} => EncodesSigDig(r.dig) /\ EncodesNonMemb(r.bound)
    /\ op \in {"put", "get"} => EncodesMemb(r.latest)

-----------------------------------------------------------------------------
\* A handler's goroutine after the method has returned.
HandlerReply(t) ==
    /\ pc[t] = "ret"
    /\ IF EncodesReply(req[t].op, Results(t))
       THEN /\ Return(t)
            /\ UNCHANGED crashed
       ELSE /\ crashed' = TRUE
            /\ UNCHANGED vars

\* What the method does until it returns.
Handle(t) == ReadUser(t) \/ Get(t) \/ SelfMon(t) \/ AuditLock(t) \/ Audit(t)

RpcInit == Init /\ crashed = FALSE

RpcNext ==
    /\ ~crashed
    /\ \/ \E t \in Thread : HandlerReply(t)
       \/ /\ \/ Worker
             \/ \E t \in Thread : CallPut(t) \/ CallRead(t) \/ Handle(t)
          /\ UNCHANGED crashed

RpcSpec == RpcInit /\ [][RpcNext]_rpcVars

-----------------------------------------------------------------------------
(* Properties. *)

\* A refused Put reaches its caller as an error ("Put errors iff there's a put
\* of the same uid at the same time"): the process goes on.
RefusedPutsAnswered == ~crashed
=============================================================================
