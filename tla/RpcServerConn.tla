--------------------------- MODULE RpcServerConn ---------------------------
(***************************************************************************)
(* One connection of the rpc server (Geb_RPC/server/server.go): ServeConn  *)
(* negotiates and reads requests; every request runs in a handler          *)
(* goroutine that races the service method against a 700ms timer; one      *)
(* goroutine writes the responses; heartListen closes a silent connection. *)
(*                                                                         *)
(* handleRequest shares err and resp between the handler and the service   *)
(* goroutine without a lock.  Where one reads or writes a field the other  *)
(* is writing, "torn" is one of the outcomes.                              *)
(***************************************************************************)
EXTENDS Naturals, Sequences

CONSTANTS
    Requests,       \* the requests the client sends
    Hanging,        \* those whose service method never returns
    ResultCap,      \* capacity of resultCh (10 in the code)
    None            \* "no request", "nothing sent"

ASSUME ServerConstants ==
    Hanging \subseteq Requests /\ ResultCap \in Nat \ {0} /\ None \notin Requests

VARIABLES
    reader,         \* ServeConn and serveCodec
    req,            \* per request: the state of handleRequest
    resultCh,
    sender, out,    \* sendResponse and the request whose response it writes
    sent,           \* per request: what the client is sent
    heart, tickCh,  \* heartListen and its channel
    closed,         \* the codec, hence the connection, is closed
    peer,           \* "up", "fin": reads fail, "silent": nothing arrives
    panic           \* what took the process down, if anything did

sendVars == <<resultCh, sender, out, sent>>
heartVars == <<heart, tickCh>>
connVars == <<closed, peer, panic>>
vars == <<reader, req, sendVars, heartVars, connVars>>

ErrValues == {"nil", "timeout", "failed", "torn"}
Response == [err : ErrValues, val : {"nil", "value", "torn"}]
ASSUME NothingSent == None \notin Response

(* at: where the handler goroutine stands; svc: the service goroutine; err *)
(* and resp: the variables they share; late: whether the timer won.        *)
Fresh == [at |-> "none", svc |-> "none", err |-> "nil", late |-> FALSE,
          resp |-> [err |-> "nil", val |-> "nil"]]
Handling == [at : {"none", "select", "test", "store", "send", "done", "exit"},
             svc : {"none", "running", "served", "failed", "assigned", "finished"},
             err : ErrValues, late : BOOLEAN, resp : Response]

(* wg, and the two channels serveCodec and ServeConn close on their way out *)
HandlersDone == \A r \in Requests : req[r].at \in {"none", "exit"}
ResultsClosed == reader \in {"closing", "exit"}
TicksClosed == reader = "exit"

Init ==
    /\ reader = "negotiate" /\ req = [r \in Requests |-> Fresh]
    /\ resultCh = <<>> /\ sender = "none" /\ out = None
    /\ sent = [r \in Requests |-> None]
    /\ heart = "none" /\ tickCh = 0
    /\ closed = FALSE /\ peer = "up" /\ panic = "no"

-----------------------------------------------------------------------------
(* ServeConn and serveCodec.                                               *)

(* Options, magic number and codec are accepted and confirmed: the         *)
(* heartbeat listener and the sender start.                                *)
Negotiate ==
    /\ reader = "negotiate" /\ peer = "up"
    /\ reader' = "check" /\ heart' = "listen" /\ sender' = "recv"
    /\ UNCHANGED <<req, resultCh, out, sent, tickCh, connVars>>

NegotiateFails ==
    /\ reader = "negotiate" /\ peer # "silent"
    /\ reader' = "exit" /\ closed' = TRUE
    /\ UNCHANGED <<req, sendVars, heartVars, peer, panic>>

(* select on c.Failed() *)
CheckFailed ==
    /\ reader = "check"
    /\ reader' = IF closed THEN "wait" ELSE "read"
    /\ UNCHANGED <<req, sendVars, heartVars, connVars>>

(* A request starts a handler, which starts the service.  The decoder may  *)
(* still hold a request after the codec has been closed.                   *)
ReadRequest(r) ==
    /\ reader = "read" /\ peer = "up" /\ req[r].at = "none"
    /\ req' = [req EXCEPT ![r].at = "select", ![r].svc = "running"]
    /\ reader' = "check"
    /\ UNCHANGED <<sendVars, heartVars, connVars>>

(* An empty TargetMethod: signal heartListen unless a signal is waiting.   *)
ReadHeartbeat ==
    /\ reader = "read" /\ peer = "up"
    /\ tickCh' = 1 /\ reader' = "check"
    /\ UNCHANGED <<req, sendVars, heart, connVars>>

ReadFails ==
    /\ reader = "read" /\ (closed \/ peer # "silent")
    /\ reader' = "wait"
    /\ UNCHANGED <<req, sendVars, heartVars, connVars>>

(* wg.Wait, then the codec is closed. *)
Leave(ready) ==
    /\ reader = "wait" /\ ready
    /\ closed' = TRUE /\ reader' = "defer"
    /\ UNCHANGED <<req, sendVars, heartVars, peer, panic>>
LeaveAtOnce == Leave(TRUE) \* variant: no wg.Wait
WaitHandlers == Leave(HandlersDone)

(* The deferred close(resultCh) of serveCodec and close(ch) of ServeConn.  *)
Unwind ==
    /\ \/ reader = "defer" /\ reader' = "closing"
       \/ reader = "closing" /\ reader' = "exit"
    /\ UNCHANGED <<req, sendVars, heartVars, connVars>>

-----------------------------------------------------------------------------
(* The service goroutine of handleRequest.                                 *)

(* service: the method returns a value, or nothing, or the deferred        *)
(* function stores an error.                                               *)
Serve(r) ==
    /\ req[r].svc = "running" /\ r \notin Hanging
    /\ \/ \E v \in {"nil", "value"} :
             req' = [req EXCEPT ![r].svc = "served", ![r].resp.val = v]
       \/ req' = [req EXCEPT ![r].svc = "failed", ![r].resp.err = "failed"]
    /\ UNCHANGED <<reader, sendVars, heartVars, connVars>>

(* err = s.service(...) *)
AssignErr(r) ==
    /\ req[r].svc \in {"served", "failed"}
    /\ req' = [req EXCEPT ![r].svc = "assigned",
                          ![r].err = IF req[r].svc = "failed" THEN "failed" ELSE "nil"]
    /\ UNCHANGED <<reader, sendVars, heartVars, connVars>>

(* close(finished) *)
Finish(r) ==
    /\ req[r].svc = "assigned" /\ req' = [req EXCEPT ![r].svc = "finished"]
    /\ UNCHANGED <<reader, sendVars, heartVars, connVars>>

-----------------------------------------------------------------------------
(* The handler goroutine.                                                  *)

TimesOutNever(r) == FALSE /\ UNCHANGED vars \* variant: no timer
TimesOut(r) ==
    /\ req[r].at = "select"
    /\ req' = [req EXCEPT ![r].at = "test", ![r].err = "timeout", ![r].late = TRUE]
    /\ UNCHANGED <<reader, sendVars, heartVars, connVars>>

Proceed(r, ready) ==
    /\ req[r].at = "select" /\ ready
    /\ req' = [req EXCEPT ![r].at = "test"]
    /\ UNCHANGED <<reader, sendVars, heartVars, connVars>>
TakesAnything(r) == Proceed(r, TRUE) \* variant: finished is closed too early
TakesFinished(r) == Proceed(r, req[r].svc = "finished")

(* if err != nil *)
TestErr(r) ==
    /\ req[r].at = "test"
    /\ req' = [req EXCEPT ![r].at = IF req[r].err = "nil" THEN "send" ELSE "store"]
    /\ UNCHANGED <<reader, sendVars, heartVars, connVars>>

(* resp.Err = err.Error(): a late service may have stored nil in err by    *)
(* now, and may be storing its own error in the same field of resp.        *)
Storing(r) == req[r].svc = "running" /\ r \notin Hanging
StoreErr(r) ==
    /\ req[r].at = "store"
    /\ IF req[r].err = "nil"
       THEN panic' = "nil error" /\ UNCHANGED req
       ELSE /\ \E e \in {req[r].err} \cup (IF Storing(r) THEN {"torn"} ELSE {}) :
                  req' = [req EXCEPT ![r].at = "send", ![r].resp.err = e]
            /\ UNCHANGED panic
    /\ UNCHANGED <<reader, sendVars, heartVars, closed, peer>>

(* resultCh <- resp: blocks while full, panics when closed. *)
SendResult(r) ==
    /\ req[r].at = "send"
    /\ IF ResultsClosed
       THEN panic' = "closed channel" /\ UNCHANGED <<resultCh, req>>
       ELSE /\ Len(resultCh) < ResultCap
            /\ resultCh' = Append(resultCh, r)
            /\ req' = [req EXCEPT ![r].at = "done"]
            /\ UNCHANGED panic
    /\ UNCHANGED <<reader, sender, out, sent, heartVars, closed, peer>>

WgDone(r) ==
    /\ req[r].at = "done" /\ req' = [req EXCEPT ![r].at = "exit"]
    /\ UNCHANGED <<reader, sendVars, heartVars, connVars>>

-----------------------------------------------------------------------------
(* sendResponse.                                                           *)

SenderReceives ==
    /\ sender = "recv" /\ resultCh # <<>>
    /\ out' = Head(resultCh) /\ resultCh' = Tail(resultCh) /\ sender' = "write"
    /\ UNCHANGED <<reader, req, sent, heartVars, connVars>>

(* range ends: the channel is closed and empty. *)
SenderEnds ==
    /\ sender \in {"recv", "drain"} /\ resultCh = <<>> /\ ResultsClosed
    /\ sender' = "exit"
    /\ UNCHANGED <<reader, req, resultCh, out, sent, heartVars, connVars>>

(* WriteResponse encodes *resp, which a late service may be changing. *)
Encoded(r) ==
    {req[r].resp} \cup
    (IF Storing(r) THEN {[req[r].resp EXCEPT !.val = "torn"], [req[r].resp EXCEPT !.err = "torn"]}
                   ELSE {})

SenderWrites ==
    /\ sender = "write" /\ ~closed
    /\ \E m \in Encoded(out) : sent' = [sent EXCEPT ![out] = m]
    /\ out' = None /\ sender' = "recv"
    /\ UNCHANGED <<reader, req, resultCh, heartVars, connVars>>

(* The connection fails, or the result cannot be encoded: close the codec  *)
(* and go on emptying the channel.                                         *)
GiveUp(next) ==
    /\ sender = "write" /\ (closed \/ peer # "up" \/ req[out].resp.val = "value")
    /\ closed' = TRUE /\ out' = None /\ sender' = next
    /\ UNCHANGED <<reader, req, resultCh, sent, heartVars, peer, panic>>
SenderQuits == GiveUp("exit") \* variant: no drain
SenderFails == GiveUp("drain")

Drain ==
    /\ sender = "drain" /\ resultCh # <<>>
    /\ resultCh' = Tail(resultCh)
    /\ UNCHANGED <<reader, req, sender, out, sent, heartVars, connVars>>

-----------------------------------------------------------------------------
(* heartListen.                                                            *)

HeartTick ==
    /\ heart = "listen" /\ (tickCh = 1 \/ TicksClosed)
    /\ IF tickCh = 1 THEN tickCh' = 0 /\ UNCHANGED heart
                     ELSE heart' = "exit" /\ UNCHANGED tickCh
    /\ UNCHANGED <<reader, req, sendVars, connVars>>

Expire(c) ==
    /\ heart = "listen"
    /\ closed' = c /\ heart' = "exit"
    /\ UNCHANGED <<reader, req, sendVars, tickCh, peer, panic>>
ExpireQuietly == Expire(closed) \* variant: the connection stays open
HeartTimesOut == Expire(TRUE)

(* The client side of the connection ends, with or without a FIN. *)
PeerChanges ==
    /\ peer = "up" /\ peer' \in {"fin", "silent"}
    /\ UNCHANGED <<reader, req, sendVars, heartVars, closed, panic>>

-----------------------------------------------------------------------------
(* What needs the client to send something, and what does not. *)
ClientStep ==
    \/ Negotiate \/ NegotiateFails \/ ReadHeartbeat \/ ReadFails \/ PeerChanges
    \/ \E r \in Requests : ReadRequest(r)
ReaderStep ==
    \/ CheckFailed \/ WaitHandlers \/ Unwind
    \/ (closed \/ peer = "fin") /\ (NegotiateFails \/ ReadFails)
ServiceStep(r) == Serve(r) \/ AssignErr(r) \/ Finish(r)
HandlerStep(r) ==
    \/ TimesOut(r) \/ TakesFinished(r) \/ TestErr(r) \/ StoreErr(r)
    \/ SendResult(r) \/ WgDone(r)
SenderStep == SenderReceives \/ SenderEnds \/ SenderWrites \/ SenderFails \/ Drain
HeartStep == HeartTick \/ HeartTimesOut

Running ==
    \/ ClientStep \/ ReaderStep \/ SenderStep \/ HeartStep
    \/ \E r \in Requests : ServiceStep(r) \/ HandlerStep(r)

(* Nothing is left to do.  A client that falls silent before it has sent   *)
(* its options blocks ServeConn for ever: nothing listens for it yet.      *)
Ended ==
    /\ reader = "exit" \/ (reader = "negotiate" /\ peer = "silent")
    /\ sender \in {"none", "exit"} /\ heart \in {"none", "exit"} /\ HandlersDone
    /\ \A r \in Requests : req[r].svc \in {"none", "finished"} \/ r \in Hanging

Stopped == (panic # "no" \/ Ended) /\ UNCHANGED vars

Next == (panic = "no" /\ Running) \/ Stopped

Spec == Init /\ [][Next]_vars

(* Every goroutine that can run, runs, and a client that is up takes what  *)
(* is written to it; the 700ms timer fires, and the heartbeat timer fires  *)
(* once no heartbeat can arrive any more.  Nothing makes a client send.    *)
Alive(A) == panic = "no" /\ A
ServerFairness ==
    /\ WF_vars(Alive(ReaderStep)) /\ WF_vars(Alive(SenderStep))
    /\ WF_vars(Alive(HeartTick))
    /\ WF_vars(Alive(peer = "silent" /\ HeartTimesOut))
    /\ \A r \in Requests : /\ WF_vars(Alive(ServiceStep(r)))
                           /\ WF_vars(Alive(HandlerStep(r)))
FairSpec == Spec /\ ServerFairness

-----------------------------------------------------------------------------
(* Properties.                                                             *)

(* Every variable has its type. *)
TypeOK ==
    /\ reader \in {"negotiate", "check", "read", "wait", "defer", "closing", "exit"}
    /\ req \in [Requests -> Handling]
    /\ resultCh \in Seq(Requests) /\ Len(resultCh) <= ResultCap
    /\ sender \in {"none", "recv", "write", "drain", "exit"}
    /\ out \in Requests \cup {None} /\ sent \in [Requests -> Response \cup {None}]
    /\ heart \in {"none", "listen", "exit"} /\ tickCh \in 0 .. 1
    /\ closed \in BOOLEAN /\ peer \in {"up", "fin", "silent"}
    /\ panic \in {"no", "nil error", "closed channel"}

(* No handler sends on resultCh after serveCodec has closed it. *)
NoSendOnClosed == panic # "closed channel"

(* A request answered in time is answered with all that its method did: a  *)
(* value or an error, whole, and never both.                               *)
TimelyAnswersAreWhole ==
    \A r \in Requests : sent[r] # None /\ ~req[r].late =>
        /\ req[r].svc = "finished" /\ sent[r] = req[r].resp
        /\ sent[r].err = req[r].err
        /\ sent[r].err = "failed" => sent[r].val = "nil"

(* Every request that was read is answered, even if its method hangs, or   *)
(* the connection has been closed.                                         *)
EveryRequestAnswered ==
    \A r \in Requests :
        req[r].at # "none" ~> (sent[r] # None \/ closed \/ panic # "no")

(* Once the connection is closed, for whatever reason and with whatever is *)
(* in flight, the reader, the sender, the handlers and the heartbeat       *)
(* listener all end (drain is there to prevent this deadlock).             *)
ClosedConnUnwinds ==
    closed ~> \/ /\ reader = "exit" /\ HandlersDone
                 /\ sender \in {"none", "exit"} /\ heart \in {"none", "exit"}
              \/ panic # "no"

(* A client that falls silent after the negotiation is disconnected by the *)
(* heartbeat.                                                              *)
SilenceIsNoticed ==
    peer = "silent" /\ reader # "negotiate" ~> (closed \/ panic # "no")

-----------------------------------------------------------------------------
(* resultCh is closed only after every handler is done with it, and then   *)
(* no request is read any more.                                            *)
HandlersFirst == reader \in {"negotiate", "defer", "closing", "exit"} => HandlersDone

(* The inductive invariant behind NoSendOnClosed. *)
IInv == TypeOK /\ HandlersFirst /\ NoSendOnClosed

(* What TimelyAnswersAreWhole needs beyond it.  Unless the timer wins, the *)
(* handler goes on only after the service goroutine has finished with err  *)
(* and resp, which then say the same.                                      *)
Whole(q) ==
    /\ q.at = "none" => q = Fresh
    /\ ~q.late =>
        /\ q.at \notin {"none", "select"} => q.svc = "finished"
        /\ q.svc \in {"none", "running"} => q.err = "nil" /\ q.resp = Fresh.resp
        /\ q.svc = "served" => q.err = "nil" /\ q.resp.err = "nil"
        /\ q.svc = "failed" => q.resp = [err |-> "failed", val |-> "nil"]
        /\ q.svc \in {"assigned", "finished"} =>
              /\ q.err = q.resp.err
              /\ q.err = "nil" \/ q.resp = [err |-> "failed", val |-> "nil"]

(* A response is on its way, or with the client, only after its handler    *)
(* has let go of it.                                                       *)
LetGo == {"done", "exit"}
OnItsWay ==
    /\ \A i \in 1 .. Len(resultCh) : req[resultCh[i]].at \in LetGo
    /\ out # None => req[out].at \in LetGo
    /\ \A r \in Requests : sent[r] # None => /\ req[r].at \in LetGo
                                             /\ req[r].late \/ sent[r] = req[r].resp
WholeInv == (\A r \in Requests : Whole(req[r])) /\ OnItsWay
=============================================================================
