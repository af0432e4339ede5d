------------------------ MODULE RpcServerConnProofs ------------------------
(***************************************************************************)
(* What holds of a server connection for every set of requests, hanging or *)
(* not, and every capacity of resultCh: types, nothing sent on a closed    *)
(* channel, whole answers, each sent once and none lost, and no deadlock;  *)
(* and that it all holds of a server to which a client connects.           *)
(***************************************************************************)
EXTENDS RpcConnect, TLAPS

-----------------------------------------------------------------------------
(* Types. *)

(* A step that changes nothing but req keeps the types if it keeps req's. *)
LEMMA OnlyRequests ==
    ASSUME TypeOK, UNCHANGED <<reader, sendVars, heartVars, connVars>>,
           req' \in [Requests -> Handling]
    PROVE  TypeOK'
BY DEF TypeOK, sendVars, heartVars, connVars

(* The steps of a service goroutine keep the types. *)
LEMMA ServiceType ==
    ASSUME TypeOK, NEW r \in Requests, ServiceStep(r)
    PROVE  TypeOK'
<1> USE DEF sendVars, heartVars, connVars
<1>0. req[r] \in Handling /\ req \in [Requests -> Handling]
  BY DEF TypeOK
<1>1. CASE Serve(r)
  <2>1. req' \in [Requests -> Handling]
    <3>1. ASSUME NEW v \in {"nil", "value"},
                 req' = [req EXCEPT ![r].svc = "served", ![r].resp.val = v]
          PROVE  req' \in [Requests -> Handling]
      BY <1>0, <3>1 DEF Handling, Response
    <3>2. ASSUME req' = [req EXCEPT ![r].svc = "failed", ![r].resp.err = "failed"]
          PROVE  req' \in [Requests -> Handling]
      BY <1>0, <3>2 DEF Handling, Response, ErrValues
    <3> QED BY <1>1, <3>1, <3>2 DEF Serve
  <2>2. UNCHANGED <<reader, sendVars, heartVars, connVars>>
    BY <1>1 DEF Serve
  <2> QED BY <2>1, <2>2, OnlyRequests
<1>2. CASE AssignErr(r)
  <2>1. PICK e \in ErrValues :
               req' = [req EXCEPT ![r].svc = "assigned", ![r].err = e]
    BY <1>2 DEF AssignErr, ErrValues
  <2>2. req' \in [Requests -> Handling]
    BY <1>0, <2>1 DEF Handling
  <2>3. UNCHANGED <<reader, sendVars, heartVars, connVars>>
    BY <1>2 DEF AssignErr
  <2> QED BY <2>2, <2>3, OnlyRequests
<1>3. CASE Finish(r)
  <2>1. req' \in [Requests -> Handling]
    BY <1>0, <1>3 DEF Finish, Handling
  <2>2. UNCHANGED <<reader, sendVars, heartVars, connVars>>
    BY <1>3 DEF Finish
  <2> QED BY <2>1, <2>2, OnlyRequests
<1> QED BY <1>1, <1>2, <1>3 DEF ServiceStep

(* The steps of a handler goroutine keep the types. *)
LEMMA HandlerType ==
    ASSUME TypeOK, NEW r \in Requests, HandlerStep(r)
    PROVE  TypeOK'
<1> USE DEF sendVars, heartVars, connVars
<1>0. req[r] \in Handling /\ req \in [Requests -> Handling]
  BY DEF TypeOK
<1>1. CASE TimesOut(r)
  <2>1. req' \in [Requests -> Handling]
    <3>1. req' = [req EXCEPT ![r].at = "test", ![r].err = "timeout", ![r].late = TRUE]
      BY <1>1 DEF TimesOut
    <3>2. "timeout" \in ErrValues
      BY DEF ErrValues
    <3> QED BY <1>0, <3>1, <3>2 DEF Handling
  <2>2. UNCHANGED <<reader, sendVars, heartVars, connVars>>
    BY <1>1 DEF TimesOut
  <2> QED BY <2>1, <2>2, OnlyRequests
<1>2. CASE TakesFinished(r)
  <2>1. req' \in [Requests -> Handling]
    <3>1. req' = [req EXCEPT ![r].at = "test"]
      BY <1>2 DEF TakesFinished, Proceed
    <3> QED BY <1>0, <3>1 DEF Handling
  <2>2. UNCHANGED <<reader, sendVars, heartVars, connVars>>
    BY <1>2 DEF TakesFinished, Proceed
  <2> QED BY <2>1, <2>2, OnlyRequests
<1>3. CASE TestErr(r)
  <2>1. req' \in [Requests -> Handling]
    BY <1>0, <1>3 DEF TestErr, Handling
  <2>2. UNCHANGED <<reader, sendVars, heartVars, connVars>>
    BY <1>3 DEF TestErr
  <2> QED BY <2>1, <2>2, OnlyRequests
<1>4. CASE StoreErr(r)
  <2>1. req' \in [Requests -> Handling]
    <3>1. CASE req[r].err = "nil"
      BY <1>0, <1>4, <3>1 DEF StoreErr
    <3>2. CASE req[r].err # "nil"
      <4>1. PICK e \in ErrValues :
                   req' = [req EXCEPT ![r].at = "send", ![r].resp.err = e]
        BY <1>0, <1>4, <3>2 DEF StoreErr, Handling, ErrValues
      <4>2. req[r].resp \in Response /\ [req[r].resp EXCEPT !.err = e] \in Response
        BY <1>0 DEF Handling, Response
      <4> QED BY <1>0, <4>1, <4>2 DEF Handling
    <3> QED BY <3>1, <3>2
  <2>2. panic' \in {"no", "nil error", "closed channel"}
    BY <1>4 DEF TypeOK, StoreErr
  <2>3. UNCHANGED <<reader, sendVars, heartVars, closed, peer>>
    BY <1>4 DEF StoreErr
  <2> QED BY <2>1, <2>2, <2>3 DEF TypeOK
<1>5. CASE SendResult(r)
  <2>1. req' \in [Requests -> Handling]
    <3>1. CASE req' = req
      BY <1>0, <3>1
    <3>2. CASE req' = [req EXCEPT ![r].at = "done"]
      BY <1>0, <3>2 DEF Handling
    <3> QED BY <1>5, <3>1, <3>2 DEF SendResult
  <2>2. resultCh' \in Seq(Requests) /\ Len(resultCh') <= ResultCap
    <3>1. /\ resultCh \in Seq(Requests) /\ Len(resultCh) <= ResultCap
          /\ ResultCap \in Nat
      BY ServerConstants DEF TypeOK
    <3>2. \/ resultCh' = resultCh
          \/ Len(resultCh) < ResultCap /\ resultCh' = Append(resultCh, r)
      BY <1>5 DEF SendResult
    <3> QED BY <3>1, <3>2
  <2>3. panic' \in {"no", "nil error", "closed channel"}
    BY <1>5 DEF TypeOK, SendResult
  <2>4. UNCHANGED <<reader, sender, out, sent, heartVars, closed, peer>>
    BY <1>5 DEF SendResult
  <2> QED BY <2>1, <2>2, <2>3, <2>4 DEF TypeOK
<1>6. CASE WgDone(r)
  <2>1. req' \in [Requests -> Handling]
    BY <1>0, <1>6 DEF WgDone, Handling
  <2>2. UNCHANGED <<reader, sendVars, heartVars, connVars>>
    BY <1>6 DEF WgDone
  <2> QED BY <2>1, <2>2, OnlyRequests
<1> QED BY <1>1, <1>2, <1>3, <1>4, <1>5, <1>6 DEF HandlerStep

(* What taking from a channel that is not empty leaves. *)
LEMMA ChannelTail ==
    ASSUME resultCh \in Seq(Requests), Len(resultCh) <= ResultCap, resultCh # <<>>
    PROVE  /\ Head(resultCh) \in Requests /\ Tail(resultCh) \in Seq(Requests)
           /\ Len(Tail(resultCh)) <= ResultCap
<1>1. Len(Tail(resultCh)) = Len(resultCh) - 1 /\ Len(resultCh) \in Nat
  OBVIOUS
<1>2. ResultCap \in Nat
  BY ServerConstants
<1>3. Len(Tail(resultCh)) <= ResultCap
  BY <1>1, <1>2
<1> QED BY <1>3

(* The steps of sendResponse keep the types. *)
LEMMA SenderType ==
    ASSUME TypeOK, SenderStep
    PROVE  TypeOK'
<1> USE DEF TypeOK, heartVars, connVars
<1>1. CASE SenderReceives
  <2>1. Head(resultCh) \in Requests /\ Tail(resultCh) \in Seq(Requests)
        /\ Len(Tail(resultCh)) <= ResultCap
    BY <1>1, ChannelTail DEF SenderReceives
  <2> QED BY <1>1, <2>1 DEF SenderReceives
<1>2. CASE SenderEnds
  BY <1>2 DEF SenderEnds
<1>3. CASE SenderWrites
  <2>1. sent' \in [Requests -> Response \cup {None}]
    <3>1. CASE out \in Requests
      <4>1. req[out].resp \in Response
        BY <3>1 DEF Handling
      <4>2. Encoded(out) \subseteq Response
        BY <4>1 DEF Encoded, Response, ErrValues
      <4> QED BY <1>3, <3>1, <4>2 DEF SenderWrites
    <3>2. CASE out = None
      BY <1>3, <3>2, ServerConstants DEF SenderWrites
    <3> QED BY <3>1, <3>2
  <2> QED BY <1>3, <2>1 DEF SenderWrites
<1>4. CASE SenderFails
  BY <1>4 DEF SenderFails, GiveUp
<1>5. CASE Drain
  <2>1. Tail(resultCh) \in Seq(Requests) /\ Len(Tail(resultCh)) <= ResultCap
    BY <1>5, ChannelTail DEF Drain
  <2> QED BY <1>5, <2>1 DEF Drain
<1> QED BY <1>1, <1>2, <1>3, <1>4, <1>5 DEF SenderStep

(* The steps of the reader, of the client and of the heartbeat listener. *)
LEMMA ConnectionType ==
    ASSUME TypeOK, ClientStep \/ ReaderStep \/ HeartStep
    PROVE  TypeOK'
<1> USE DEF TypeOK, sendVars, heartVars, connVars
<1>1. ASSUME NEW r \in Requests, ReadRequest(r) PROVE TypeOK'
  <2>1. req[r] \in Handling /\ req \in [Requests -> Handling]
    OBVIOUS
  <2>2. req' \in [Requests -> Handling]
    BY <1>1, <2>1 DEF ReadRequest, Handling
  <2> QED BY <1>1, <2>2 DEF ReadRequest
<1>2. CASE Negotiate \/ NegotiateFails \/ ReadFails \/ PeerChanges
  BY <1>2 DEF Negotiate, NegotiateFails, ReadFails, PeerChanges
<1>5. CASE ReadHeartbeat
  <2>1. tickCh' \in 0 .. 1
    <3> HIDE DEF TypeOK, sendVars, heartVars, connVars
    <3>1. tickCh' = 1
      BY <1>5 DEF ReadHeartbeat
    <3> QED BY <3>1
  <2>2. reader' = "check" /\ UNCHANGED <<req, resultCh, sender, out, sent, heart, closed,
                                        peer, panic>>
    BY <1>5 DEF ReadHeartbeat
  <2> QED BY <2>1, <2>2
<1>3. CASE CheckFailed \/ WaitHandlers \/ Unwind
  BY <1>3 DEF CheckFailed, WaitHandlers, Leave, Unwind
<1>4. CASE HeartTick
  <2>1. tickCh' \in 0 .. 1 /\ heart' \in {"none", "listen", "exit"}
    <3>1. tickCh \in 0 .. 1 /\ heart \in {"none", "listen", "exit"}
      OBVIOUS
    <3> HIDE DEF TypeOK, sendVars, heartVars, connVars
    <3>2. \/ tickCh' = 0 /\ heart' = heart
          \/ tickCh' = tickCh /\ heart' = "exit"
      BY <1>4 DEF HeartTick
    <3> QED BY <3>1, <3>2
  <2>2. UNCHANGED <<reader, req, resultCh, sender, out, sent, closed, peer, panic>>
    BY <1>4 DEF HeartTick
  <2> QED BY <2>1, <2>2
<1>6. CASE HeartTimesOut
  BY <1>6 DEF HeartTimesOut, Expire
<1> QED BY <1>1, <1>2, <1>3, <1>4, <1>5, <1>6 DEF ClientStep, ReaderStep, HeartStep

(* The variables always have their types. *)
THEOREM TypeCorrect == Spec => []TypeOK
<1>1. Init => TypeOK
  <2> SUFFICES ASSUME Init PROVE TypeOK
    OBVIOUS
  <2>1. Fresh \in Handling
    BY DEF Fresh, Handling, Response, ErrValues
  <2>2. req \in [Requests -> Handling]
    BY <2>1 DEF Init
  <2>3. resultCh \in Seq(Requests) /\ Len(resultCh) <= ResultCap
    BY ServerConstants DEF Init
  <2>4. sent \in [Requests -> Response \cup {None}]
    BY DEF Init
  <2>5. tickCh \in 0 .. 1
    BY DEF Init
  <2> QED BY <2>2, <2>3, <2>4, <2>5 DEF Init, TypeOK
<1>2. TypeOK /\ [Next]_vars => TypeOK'
  <2> SUFFICES ASSUME TypeOK, [Next]_vars PROVE TypeOK'
    OBVIOUS
  <2>1. CASE UNCHANGED vars
    <3>1. UNCHANGED <<reader, sendVars, heartVars, connVars>> /\ req' = req
      BY <2>1 DEF vars, sendVars, heartVars, connVars
    <3>2. req' \in [Requests -> Handling]
      BY <3>1 DEF TypeOK
    <3> QED BY <3>1, <3>2, OnlyRequests
  <2>2. CASE Running
    BY <2>2, ServiceType, HandlerType, SenderType, ConnectionType DEF Running
  <2> QED BY <2>1, <2>2 DEF Next, Stopped
<1> QED BY <1>1, <1>2, PTL DEF Spec

-----------------------------------------------------------------------------
(* resultCh outlives its senders. *)

(* The handlers are done before the reader leaves, and start while it runs *)
LEMMA HandlersFirstStep ==
    ASSUME TypeOK, HandlersFirst, [Next]_vars
    PROVE  HandlersFirst'
<1> USE DEF HandlersFirst, HandlersDone
<1>1. CASE UNCHANGED <<reader, req>>
  BY <1>1
<1>2. CASE \E r \in Requests : ServiceStep(r)
  <2> PICK r \in Requests : ServiceStep(r)
    BY <1>2
  <2>1. reader' = reader /\ \A q \in Requests : req'[q].at = req[q].at
    <3>1. req[r] \in Handling /\ req \in [Requests -> Handling]
      BY DEF TypeOK
    <3>2. reader' = reader
      BY DEF ServiceStep, Serve, AssignErr, Finish
    <3>3. \A q \in Requests : req'[q].at = req[q].at
      <4>1. CASE Serve(r)
        <5>1. ASSUME NEW v \in {"nil", "value"},
                     req' = [req EXCEPT ![r].svc = "served", ![r].resp.val = v]
              PROVE  \A q \in Requests : req'[q].at = req[q].at
          BY <3>1, <5>1 DEF Handling
        <5>2. ASSUME req' = [req EXCEPT ![r].svc = "failed", ![r].resp.err = "failed"]
              PROVE  \A q \in Requests : req'[q].at = req[q].at
          BY <3>1, <5>2 DEF Handling
        <5> QED BY <4>1, <5>1, <5>2 DEF Serve
      <4>2. CASE AssignErr(r) BY <3>1, <4>2 DEF AssignErr, Handling
      <4>3. CASE Finish(r) BY <3>1, <4>3 DEF Finish, Handling
      <4> QED BY <4>1, <4>2, <4>3 DEF ServiceStep
    <3> QED BY <3>2, <3>3
  <2> QED BY <2>1
<1>3. CASE \E r \in Requests : HandlerStep(r)
  <2> PICK r \in Requests : HandlerStep(r)
    BY <1>3
  <2>1. reader' = reader /\ req[r].at \notin {"none", "exit"}
    BY DEF HandlerStep, TimesOut, TakesFinished, Proceed, TestErr, StoreErr, SendResult,
           WgDone
  <2> QED BY <2>1
<1>4. CASE \E r \in Requests : ReadRequest(r)
  BY <1>4 DEF ReadRequest
<1>5. CASE WaitHandlers
  BY <1>5 DEF WaitHandlers, Leave
<1>6. CASE Unwind
  BY <1>6 DEF Unwind
<1>7. CASE NegotiateFails
  BY <1>7 DEF NegotiateFails
<1>8. CASE Negotiate \/ ReadHeartbeat \/ ReadFails \/ CheckFailed
  BY <1>8 DEF Negotiate, ReadHeartbeat, ReadFails, CheckFailed
<1>9. CASE PeerChanges \/ HeartStep
  BY <1>9 DEF PeerChanges, HeartStep, HeartTick, HeartTimesOut, Expire
<1>10. CASE SenderStep
  BY <1>10 DEF SenderStep, SenderReceives, SenderEnds, SenderWrites, SenderFails, GiveUp,
               Drain
<1> QED BY <1>1, <1>2, <1>3, <1>4, <1>5, <1>6, <1>7, <1>8, <1>9, <1>10
        DEF Next, Running, Stopped, ClientStep, ReaderStep, vars

(* No handler sends on a closed channel, by TypeOK and HandlersFirst: the  *)
(* channel is closed only once every handler is past its send.             *)
THEOREM Invariant == Spec => []IInv
<1>1. Init => HandlersFirst /\ NoSendOnClosed
  BY DEF Init, HandlersFirst, HandlersDone, Fresh, NoSendOnClosed
<1>2. TypeOK /\ IInv /\ [Next]_vars => HandlersFirst'
  BY HandlersFirstStep DEF IInv
<1>3. IInv /\ [Next]_vars => NoSendOnClosed'
  <2> SUFFICES ASSUME IInv, [Next]_vars PROVE NoSendOnClosed'
    OBVIOUS
  <2> USE DEF NoSendOnClosed, IInv
  <2>1. CASE \E r \in Requests : SendResult(r)
    <3> PICK r \in Requests : SendResult(r)
      BY <2>1
    <3>1. ~ResultsClosed
      BY DEF SendResult, ResultsClosed, HandlersFirst, HandlersDone
    <3> QED BY <3>1 DEF SendResult
  <2>2. CASE \E r \in Requests : StoreErr(r)
    BY <2>2 DEF StoreErr
  <2>3. CASE UNCHANGED panic
    BY <2>3
  <2>4. \A r \in Requests : HandlerStep(r) =>
            SendResult(r) \/ StoreErr(r) \/ UNCHANGED panic
    BY DEF HandlerStep, TimesOut, TakesFinished, Proceed, TestErr, WgDone, connVars
  <2>5. (\E r \in Requests : ServiceStep(r)) => UNCHANGED panic
    BY DEF ServiceStep, Serve, AssignErr, Finish, connVars
  <2>6. SenderStep \/ HeartStep => UNCHANGED panic
    BY DEF SenderStep, SenderReceives, SenderEnds, SenderWrites, SenderFails, GiveUp,
           Drain, HeartStep, HeartTick, HeartTimesOut, Expire, connVars
  <2>7. ReaderStep \/ ClientStep => UNCHANGED panic
    BY DEF ReaderStep, CheckFailed, WaitHandlers, Leave, Unwind, ClientStep, Negotiate,
           NegotiateFails, ReadHeartbeat, ReadFails, PeerChanges, ReadRequest,
           connVars
  <2> QED BY <2>1, <2>2, <2>3, <2>4, <2>5, <2>6, <2>7
          DEF Next, Running, Stopped, vars, connVars
<1> QED BY <1>1, <1>2, <1>3, TypeCorrect, PTL DEF Spec, IInv

(* A send on the closed resultCh is impossible. *)
THEOREM NeverSendOnClosed == Spec => []NoSendOnClosed
BY Invariant, PTL DEF IInv

-----------------------------------------------------------------------------
(* Answers in time are whole.                                              *)

(* The service goroutine works on a response that nobody else reads yet,   *)
(* unless the timer has won.                                               *)
LEMMA ServiceWhole ==
    ASSUME TypeOK, WholeInv, NEW r \in Requests, ServiceStep(r)
    PROVE  /\ \A x \in Requests : x # r => req'[x] = req[x]
           /\ Whole(req'[r]) /\ req'[r].at = req[r].at /\ req'[r].late = req[r].late
           /\ req[r].at \in LetGo => req[r].late
<1> DEFINE q == req[r]
<1>1. q \in Handling /\ req \in [Requests -> Handling] /\ Whole(q)
  BY DEF TypeOK, WholeInv
<1>2. q.resp \in Response /\ q.at # "none"
  BY <1>1 DEF Handling, ServiceStep, Serve, AssignErr, Finish, Whole, Fresh
<1>3. q.late \/ q.at \notin LetGo
  BY <1>1 DEF Whole, LetGo, ServiceStep, Serve, AssignErr, Finish
<1>4. ASSUME NEW v \in {"nil", "value"},
             q.svc = "running", req' = [req EXCEPT ![r].svc = "served", ![r].resp.val = v]
      PROVE  /\ \A x \in Requests : x # r => req'[x] = req[x]
             /\ Whole(req'[r]) /\ req'[r].at = q.at /\ req'[r].late = q.late
  <2>1. /\ req'[r].at = q.at /\ req'[r].late = q.late /\ req'[r].svc = "served"
        /\ req'[r].err = q.err /\ req'[r].resp = [q.resp EXCEPT !.val = v]
    BY <1>1, <1>4 DEF Handling
  <2>2. req'[r].resp.err = q.resp.err
    BY <1>2, <2>1 DEF Response
  <2> QED BY <1>1, <1>2, <1>4, <2>1, <2>2 DEF Whole, Fresh
<1>5. ASSUME q.svc = "running",
             req' = [req EXCEPT ![r].svc = "failed", ![r].resp.err = "failed"]
      PROVE  /\ \A x \in Requests : x # r => req'[x] = req[x]
             /\ Whole(req'[r]) /\ req'[r].at = q.at /\ req'[r].late = q.late
  <2>1. /\ req'[r].at = q.at /\ req'[r].late = q.late /\ req'[r].svc = "failed"
        /\ req'[r].err = q.err /\ req'[r].resp = [q.resp EXCEPT !.err = "failed"]
    BY <1>1, <1>5 DEF Handling
  <2>2. ~q.late => req'[r].resp = [err |-> "failed", val |-> "nil"]
    BY <1>1, <1>5, <2>1 DEF Whole, Fresh
  <2> QED BY <1>1, <1>2, <1>5, <2>1, <2>2 DEF Whole
<1>6. CASE AssignErr(r)
  <2>1. /\ req'[r].at = q.at /\ req'[r].late = q.late /\ req'[r].svc = "assigned"
        /\ req'[r].err = IF q.svc = "failed" THEN "failed" ELSE "nil"
        /\ req'[r].resp = q.resp
        /\ \A x \in Requests : x # r => req'[x] = req[x]
    BY <1>1, <1>6 DEF Handling, AssignErr
  <2>2. q.svc \in {"served", "failed"}
    BY <1>6 DEF AssignErr
  <2> QED BY <1>1, <1>2, <1>3, <2>1, <2>2 DEF Whole
<1>7. CASE Finish(r)
  <2>1. /\ req'[r].at = q.at /\ req'[r].late = q.late /\ req'[r].svc = "finished"
        /\ req'[r].err = q.err /\ req'[r].resp = q.resp
        /\ \A x \in Requests : x # r => req'[x] = req[x]
    BY <1>1, <1>7 DEF Handling, Finish
  <2>2. q.svc = "assigned"
    BY <1>7 DEF Finish
  <2> QED BY <1>1, <1>2, <1>3, <2>1, <2>2 DEF Whole
<1> QED BY <1>3, <1>4, <1>5, <1>6, <1>7 DEF ServiceStep, Serve

(* The handler reads err and changes resp only before it lets go, and in   *)
(* time only what the service goroutine has finished with.                 *)
LEMMA HandlerWhole ==
    ASSUME TypeOK, WholeInv, NEW r \in Requests, HandlerStep(r)
    PROVE  /\ \A x \in Requests : x # r => req'[x] = req[x]
           /\ Whole(req'[r])
           /\ \/ req' = req
              \/ req[r].at \notin LetGo
              \/ /\ req'[r].at = "exit"
                 /\ req'[r].resp = req[r].resp /\ req'[r].late = req[r].late
<1> DEFINE q == req[r]
<1>1. q \in Handling /\ req \in [Requests -> Handling] /\ Whole(q)
  BY DEF TypeOK, WholeInv
<1>2. q.resp \in Response
  BY <1>1 DEF Handling
<1>3. CASE TimesOut(r)
  <2>1. q.at = "select" /\ req'[r].late /\ req'[r].at = "test"
        /\ \A x \in Requests : x # r => req'[x] = req[x]
    BY <1>1, <1>3 DEF TimesOut, Handling
  <2> QED BY <2>1 DEF Whole, LetGo
<1>4. CASE TakesFinished(r)
  <2>1. /\ q.at = "select" /\ q.svc = "finished"
        /\ req' = [req EXCEPT ![r].at = "test"]
    BY <1>4 DEF TakesFinished, Proceed
  <2>2. /\ req'[r].at = "test" /\ req'[r].late = q.late /\ req'[r].svc = q.svc
        /\ req'[r].err = q.err /\ req'[r].resp = q.resp
        /\ \A x \in Requests : x # r => req'[x] = req[x]
    BY <1>1, <2>1 DEF Handling
  <2> QED BY <1>1, <2>1, <2>2 DEF Whole, LetGo
<1>5. CASE TestErr(r)
  <2>1. /\ q.at = "test"
        /\ req'[r].at \in {"send", "store"} /\ req'[r].late = q.late /\ req'[r].svc = q.svc
        /\ req'[r].err = q.err /\ req'[r].resp = q.resp
        /\ \A x \in Requests : x # r => req'[x] = req[x]
    BY <1>1, <1>5 DEF TestErr, Handling
  <2> QED BY <1>1, <2>1 DEF Whole, LetGo
<1>6. CASE StoreErr(r)
  <2>1. q.at = "store"
    BY <1>6 DEF StoreErr
  <2>2. CASE q.err = "nil"
    BY <1>1, <1>6, <2>2 DEF StoreErr
  <2>3. CASE q.err # "nil"
    <3>1. PICK e \in {q.err} \cup (IF Storing(r) THEN {"torn"} ELSE {}) :
                 req' = [req EXCEPT ![r].at = "send", ![r].resp.err = e]
      BY <1>6, <2>3 DEF StoreErr
    <3>2. /\ req'[r].at = "send" /\ req'[r].late = q.late /\ req'[r].svc = q.svc
          /\ req'[r].err = q.err /\ req'[r].resp = [q.resp EXCEPT !.err = e]
          /\ \A x \in Requests : x # r => req'[x] = req[x]
      BY <1>1, <3>1 DEF Handling
    <3>3. ~q.late => q.svc = "finished" /\ e = q.err /\ q.err = q.resp.err
      BY <1>1, <2>1, <3>1 DEF Whole, Storing
    <3>4. ~q.late => [q.resp EXCEPT !.err = e] = q.resp
      BY <1>2, <3>3 DEF Response
    <3> QED BY <1>1, <2>1, <3>2, <3>3, <3>4 DEF Whole, LetGo
  <2> QED BY <2>2, <2>3
<1>7. CASE SendResult(r)
  <2>1. CASE req' = req
    BY <1>1, <2>1
  <2>2. CASE req' = [req EXCEPT ![r].at = "done"]
    <3>1. /\ req'[r].at = "done" /\ req'[r].late = q.late /\ req'[r].svc = q.svc
          /\ req'[r].err = q.err /\ req'[r].resp = q.resp
          /\ \A x \in Requests : x # r => req'[x] = req[x]
      BY <1>1, <2>2 DEF Handling
    <3>2. q.at = "send"
      BY <1>7 DEF SendResult
    <3> QED BY <1>1, <3>1, <3>2 DEF Whole, LetGo
  <2> QED BY <1>7, <2>1, <2>2 DEF SendResult
<1>8. CASE WgDone(r)
  <2>1. /\ q.at = "done"
        /\ req'[r].at = "exit" /\ req'[r].late = q.late /\ req'[r].svc = q.svc
        /\ req'[r].err = q.err /\ req'[r].resp = q.resp
        /\ \A x \in Requests : x # r => req'[x] = req[x]
    BY <1>1, <1>8 DEF WgDone, Handling
  <2> QED BY <1>1, <2>1 DEF Whole, LetGo
<1> QED BY <1>3, <1>4, <1>5, <1>6, <1>7, <1>8 DEF HandlerStep

(* A new handler starts from fresh err and resp. *)
LEMMA RequestWhole ==
    ASSUME TypeOK, WholeInv, NEW r \in Requests, ReadRequest(r)
    PROVE  /\ \A x \in Requests : x # r => req'[x] = req[x]
           /\ Whole(req'[r]) /\ req[r].at \notin LetGo
<1> DEFINE q == req[r]
<1>1. q \in Handling /\ req \in [Requests -> Handling] /\ Whole(q)
  BY DEF TypeOK, WholeInv
<1>2. q.at = "none" /\ req' = [req EXCEPT ![r].at = "select", ![r].svc = "running"]
  BY DEF ReadRequest
<1>3. /\ req'[r].at = "select" /\ req'[r].svc = "running"
      /\ req'[r].err = q.err /\ req'[r].resp = q.resp
      /\ \A x \in Requests : x # r => req'[x] = req[x]
  BY <1>1, <1>2 DEF Handling
<1>4. q.err = "nil" /\ q.resp = Fresh.resp
  BY <1>1, <1>2 DEF Whole, Fresh
<1> QED BY <1>2, <1>3, <1>4 DEF Whole, LetGo

(* What the sender does moves responses that have been let go of.          *)
LEMMA SenderWhole ==
    ASSUME TypeOK, WholeInv, SenderStep
    PROVE  WholeInv'
<1>1. UNCHANGED req
  BY DEF SenderStep, SenderReceives, SenderEnds, SenderWrites, SenderFails, GiveUp, Drain
<1>2. \A r \in Requests : Whole(req'[r])
  BY <1>1 DEF WholeInv
<1>3. CASE SenderReceives \/ Drain
  <2>1. resultCh # <<>> /\ resultCh' = Tail(resultCh) /\ out' \in {out, Head(resultCh)}
    BY <1>3 DEF SenderReceives, Drain
  <2>2. resultCh \in Seq(Requests)
    BY DEF TypeOK
  <2>3. /\ 1 \in 1 .. Len(resultCh) /\ Head(resultCh) = resultCh[1]
        /\ \A i \in 1 .. Len(resultCh') : /\ i + 1 \in 1 .. Len(resultCh)
                                         /\ resultCh'[i] = resultCh[i + 1]
    BY <2>1, <2>2
  <2>4. UNCHANGED sent
    BY <1>3 DEF SenderReceives, Drain
  <2> QED BY <1>1, <1>2, <2>1, <2>3, <2>4 DEF WholeInv, OnItsWay
<1>4. CASE SenderEnds \/ SenderFails
  <2>1. UNCHANGED <<resultCh, sent>> /\ out' \in {out, None}
    BY <1>4 DEF SenderEnds, SenderFails, GiveUp
  <2> QED BY <1>1, <1>2, <2>1 DEF WholeInv, OnItsWay
<1>5. CASE SenderWrites
  <2>1. PICK m \in Encoded(out) : sent' = [sent EXCEPT ![out] = m]
    BY <1>5 DEF SenderWrites
  <2>2. UNCHANGED resultCh /\ out' = None
    BY <1>5 DEF SenderWrites
  <2>3. \A r \in Requests : sent'[r] # None =>
            /\ req[r].at \in LetGo
            /\ req[r].late \/ sent'[r] = req[r].resp
    <3>1. CASE out = None
      BY <2>1, <3>1, ServerConstants DEF WholeInv, OnItsWay, TypeOK
    <3>2. CASE out # None
      <4>1. out \in Requests /\ req[out].at \in LetGo /\ Whole(req[out])
        BY <3>2 DEF TypeOK, WholeInv, OnItsWay
      <4>2. req[out].late \/ m = req[out].resp
        BY <2>1, <4>1 DEF Encoded, Storing, Whole, LetGo
      <4>3. \A r \in Requests : sent'[r] = IF r = out THEN m ELSE sent[r]
        BY <2>1, <4>1 DEF TypeOK
      <4> QED BY <4>1, <4>2, <4>3 DEF WholeInv, OnItsWay
    <3> QED BY <3>1, <3>2
  <2> QED BY <1>1, <1>2, <2>2, <2>3 DEF WholeInv, OnItsWay
<1> QED BY <1>3, <1>4, <1>5 DEF SenderStep

(* A step of one request, which is on its way only if it was let go of.    *)
LEMMA OneRequestWhole ==
    ASSUME TypeOK, WholeInv, NEW r \in Requests,
           \A x \in Requests : x # r => req'[x] = req[x],
           Whole(req'[r]),
           req[r].at \in LetGo => /\ req'[r].at \in LetGo /\ req'[r].late = req[r].late
                                  /\ req[r].late \/ req'[r].resp = req[r].resp,
           UNCHANGED <<out, sent>>,
           \/ UNCHANGED resultCh
           \/ resultCh' = Append(resultCh, r) /\ req'[r].at \in LetGo
    PROVE  WholeInv'
<1>1. \A x \in Requests : Whole(req'[x])
  BY DEF WholeInv
<1>2. \A x \in Requests : req[x].at \in LetGo => req'[x].at \in LetGo
  OBVIOUS
<1>3. \A i \in 1 .. Len(resultCh') : req'[resultCh'[i]].at \in LetGo
  <2>1. resultCh \in Seq(Requests)
    BY DEF TypeOK
  <2>2. \A i \in 1 .. Len(resultCh) :
            resultCh[i] \in Requests /\ req'[resultCh[i]].at \in LetGo
    BY <1>2, <2>1 DEF WholeInv, OnItsWay
  <2>3. CASE UNCHANGED resultCh
    BY <2>2, <2>3
  <2>4. CASE resultCh' = Append(resultCh, r) /\ req'[r].at \in LetGo
    <3>1. \A i \in 1 .. Len(resultCh') : \/ i \in 1 .. Len(resultCh) /\ resultCh'[i] = resultCh[i]
                                         \/ resultCh'[i] = r
      BY <2>1, <2>4
    <3> QED BY <2>2, <2>4, <3>1
  <2> QED BY <2>3, <2>4
<1>4. out' # None => req'[out'].at \in LetGo
  BY <1>2 DEF WholeInv, OnItsWay, TypeOK
<1>5. \A x \in Requests : sent'[x] # None => /\ req'[x].at \in LetGo
                                             /\ req'[x].late \/ sent'[x] = req'[x].resp
  BY DEF WholeInv, OnItsWay
<1> QED BY <1>1, <1>3, <1>4, <1>5 DEF WholeInv, OnItsWay

LEMMA WholeStep ==
    ASSUME TypeOK, WholeInv, [Next]_vars
    PROVE  WholeInv'
<1>1. CASE UNCHANGED <<req, resultCh, out, sent>>
  BY <1>1 DEF WholeInv, OnItsWay
<1>2. ASSUME NEW r \in Requests, ServiceStep(r) PROVE WholeInv'
  <2>1. UNCHANGED <<resultCh, out, sent>>
    BY <1>2 DEF ServiceStep, Serve, AssignErr, Finish, sendVars
  <2> QED BY <1>2, <2>1, ServiceWhole, OneRequestWhole
<1>3. ASSUME NEW r \in Requests, HandlerStep(r) PROVE WholeInv'
  <2>1. UNCHANGED <<out, sent>> /\
        \/ UNCHANGED resultCh
        \/ resultCh' = Append(resultCh, r) /\ req' = [req EXCEPT ![r].at = "done"]
    BY <1>3 DEF HandlerStep, TimesOut, TakesFinished, Proceed, TestErr, StoreErr, SendResult,
                WgDone, sendVars
  <2>2. req' = [req EXCEPT ![r].at = "done"] => req'[r].at \in LetGo
    BY DEF TypeOK, Handling, LetGo
  <2>3. req'[r].at = "exit" => req'[r].at \in LetGo
    BY DEF LetGo
  <2> QED BY <1>3, <2>1, <2>2, <2>3, HandlerWhole, OneRequestWhole
<1>4. ASSUME NEW r \in Requests, ReadRequest(r) PROVE WholeInv'
  <2>1. UNCHANGED <<resultCh, out, sent>>
    BY <1>4 DEF ReadRequest, sendVars
  <2> QED BY <1>4, <2>1, RequestWhole, OneRequestWhole
<1>5. CASE Negotiate \/ NegotiateFails \/ ReadHeartbeat \/ ReadFails \/ PeerChanges
  BY <1>1, <1>5 DEF Negotiate, NegotiateFails, ReadHeartbeat, ReadFails, PeerChanges, sendVars
<1>6. CASE CheckFailed \/ WaitHandlers \/ Unwind \/ HeartStep
  BY <1>1, <1>6 DEF CheckFailed, WaitHandlers, Leave, Unwind, HeartStep, HeartTick,
                    HeartTimesOut, Expire, sendVars
<1> QED BY <1>1, <1>2, <1>3, <1>4, <1>5, <1>6, SenderWhole
        DEF Next, Running, Stopped, ClientStep, ReaderStep, vars, sendVars

(* For any number of requests and any capacity of resultCh: a request that *)
(* its timer has not overtaken is answered with all that its method did.   *)
THEOREM TimelyAnswersWhole == Spec => []TimelyAnswersAreWhole
<1>1. Init => WholeInv
  BY ServerConstants DEF Init, WholeInv, OnItsWay, Whole, Fresh
<1>2. TypeOK /\ WholeInv /\ [Next]_vars => WholeInv'
  BY WholeStep
<1>3. TypeOK /\ WholeInv => TimelyAnswersAreWhole
  <2> SUFFICES ASSUME TypeOK, WholeInv, NEW r \in Requests, sent[r] # None, ~req[r].late
               PROVE  /\ req[r].svc = "finished" /\ sent[r] = req[r].resp
                      /\ sent[r].err = req[r].err
                      /\ sent[r].err = "failed" => sent[r].val = "nil"
    BY DEF TimelyAnswersAreWhole
  <2>1. req[r].at \in LetGo /\ sent[r] = req[r].resp /\ Whole(req[r])
    BY DEF WholeInv, OnItsWay
  <2> QED BY <2>1 DEF Whole, LetGo
<1> QED BY <1>1, <1>2, <1>3, TypeCorrect, PTL DEF Spec

-----------------------------------------------------------------------------
(* Nobody is ever stuck: the half of EveryRequestAnswered and of           *)
(* ClosedConnUnwinds that needs no fairness.                               *)

(* The sender runs as long as somebody may send it a result, and nothing   *)
(* but the reader runs, or is closed, before the options are accepted.     *)
Companions ==
    /\ sender = "none" => reader \in {"negotiate", "exit"}
    /\ sender = "exit" => ResultsClosed
    /\ sender = "drain" => closed
    /\ sender = "write" <=> out # None
    /\ reader = "negotiate" => ~closed /\ sender = "none" /\ heart = "none"

(* The response of a handler that has let go of it is queued, being        *)
(* written or written, as long as the connection is open.                  *)
Queued(r) == \E i \in 1 .. Len(resultCh) : resultCh[i] = r
Kept == ~closed => \A r \in Requests : req[r].at \in LetGo => sent[r] # None \/ out = r \/ Queued(r)

(* A response has one place at most: in the channel, with the sender, or   *)
(* with the client.                                                        *)
OnePlace ==
    /\ \A i, j \in 1 .. Len(resultCh) : resultCh[i] = resultCh[j] => i = j
    /\ \A i \in 1 .. Len(resultCh) : resultCh[i] # out /\ sent[resultCh[i]] = None
    /\ out # None => sent[out] = None

ReaderMoves ==
    \/ reader \in {"check", "defer", "closing"}
    \/ reader = "read" /\ (closed \/ peer = "fin")
    \/ reader = "negotiate" /\ peer = "fin"
    \/ reader = "wait" /\ HandlersDone
SenderMoves ==
    \/ sender = "write"
    \/ sender \in {"recv", "drain"} /\ (resultCh # <<>> \/ ResultsClosed)
HandlerMoves(r) ==
    \/ req[r].at \in {"select", "test", "store", "done"}
    \/ req[r].at = "send" /\ Len(resultCh) < ResultCap
HeartMoves == heart = "listen" /\ (tickCh = 1 \/ TicksClosed)

(* A handler waits for nothing but room in resultCh, and then the sender   *)
(* has something to take out.  A closed connection has ended, or one of    *)
(* its goroutines moves.  The reader of an open one waits for the client   *)
(* or for handlers, the sender for results or for the reader to end, the   *)
(* heartbeat listener for its timer.                                       *)
Unwound == /\ reader = "exit" /\ HandlersDone
           /\ sender \in {"none", "exit"} /\ heart \in {"none", "exit"}
ConnNeverStuck ==
    panic = "no" =>
        /\ \A r \in Requests :
              req[r].at \notin {"none", "exit"} => HandlerMoves(r) \/ SenderMoves
        /\ closed => \/ Unwound \/ ReaderMoves \/ SenderMoves \/ HeartMoves
                     \/ \E r \in Requests : HandlerMoves(r)

(* As long as the connection is open no response is lost. *)
NoResponseLost ==
    ~closed => \A r \in Requests :
        req[r].at = "exit" /\ sent[r] = None => out = r \/ Queued(r)

(* No request is answered twice. *)
AnsweredOnce == [][\A r \in Requests : sent[r] # None => sent'[r] = sent[r]]_vars

(* The goroutines keep company through every step. *)
LEMMA CompanionsStep ==
    ASSUME TypeOK, Companions, [Next]_vars
    PROVE  Companions'
<1> USE DEF Companions, ResultsClosed
<1>1. CASE UNCHANGED <<reader, sender, out, heart, closed>>
  BY <1>1
<1>2. CASE (\E r \in Requests : ServiceStep(r) \/ HandlerStep(r)) \/ PeerChanges
  BY <1>1, <1>2 DEF ServiceStep, Serve, AssignErr, Finish, HandlerStep, TimesOut,
                    TakesFinished, Proceed, TestErr, StoreErr, SendResult, WgDone,
                    PeerChanges, sendVars, heartVars, connVars
<1>3. CASE Negotiate
  BY <1>3 DEF Negotiate, connVars
<1>4. CASE NegotiateFails
  BY <1>4 DEF NegotiateFails, sendVars, heartVars
<1>5. CASE CheckFailed \/ ReadHeartbeat \/ ReadFails \/ \E r \in Requests : ReadRequest(r)
  BY <1>5 DEF CheckFailed, ReadHeartbeat, ReadFails, ReadRequest, sendVars, heartVars,
              connVars
<1>6. CASE WaitHandlers \/ Unwind
  BY <1>6 DEF WaitHandlers, Leave, Unwind, sendVars, heartVars, connVars
<1>7. CASE SenderReceives
  <2>1. Head(resultCh) # None
    <3>1. resultCh \in Seq(Requests) /\ Len(resultCh) <= ResultCap /\ resultCh # <<>>
      BY <1>7 DEF SenderReceives, TypeOK
    <3> QED BY <3>1, ChannelTail, ServerConstants
  <2> QED BY <1>7, <2>1 DEF SenderReceives, heartVars, connVars
<1>8. CASE SenderEnds \/ SenderWrites \/ SenderFails \/ Drain
  BY <1>8 DEF SenderEnds, SenderWrites, SenderFails, GiveUp, Drain, heartVars, connVars
<1>9. CASE HeartStep
  BY <1>9 DEF HeartStep, HeartTick, HeartTimesOut, Expire, sendVars, connVars
<1> QED BY <1>1, <1>2, <1>3, <1>4, <1>5, <1>6, <1>7, <1>8, <1>9
        DEF Next, Running, Stopped, ClientStep, ReaderStep, SenderStep, vars, sendVars,
            heartVars, connVars

(* The requests whose handlers have let go of their responses. *)
LetGoOf == {r \in Requests : req[r].at \in LetGo}

(* A response moves when its handler sends it or the sender moves it.      *)
LEMMA ResponsesMove ==
    ASSUME TypeOK, [Next]_vars
    PROVE  \/ /\ UNCHANGED <<resultCh, out, sent>> /\ LetGoOf' = LetGoOf
              /\ closed => closed'
           \/ \E r \in Requests :
                 /\ req[r].at = "send" /\ LetGoOf' = LetGoOf \cup {r}
                 /\ resultCh' = Append(resultCh, r) /\ UNCHANGED <<out, sent, closed>>
           \/ SenderStep /\ LetGoOf' = LetGoOf
<1> DEFINE Still == LetGoOf' = LetGoOf
<1>1. UNCHANGED req => Still
  BY DEF LetGoOf
<1>2. ASSUME NEW r \in Requests, req[r].at \in LetGo <=> req'[r].at \in LetGo,
             \A x \in Requests : x # r => req'[x] = req[x]
      PROVE  Still
  BY <1>2 DEF LetGoOf
<1>3. ASSUME NEW r \in Requests, ServiceStep(r) PROVE Still
  <2>1. req \in [Requests -> Handling] /\ req[r] \in Handling
    BY DEF TypeOK
  <2>2. req'[r].at = req[r].at /\ \A x \in Requests : x # r => req'[x] = req[x]
    <3>1. CASE Serve(r)
      <4>1. ASSUME NEW v \in {"nil", "value"},
                   req' = [req EXCEPT ![r].svc = "served", ![r].resp.val = v]
            PROVE  req'[r].at = req[r].at /\ \A x \in Requests : x # r => req'[x] = req[x]
        BY <2>1, <4>1 DEF Handling
      <4>2. ASSUME req' = [req EXCEPT ![r].svc = "failed", ![r].resp.err = "failed"]
            PROVE  req'[r].at = req[r].at /\ \A x \in Requests : x # r => req'[x] = req[x]
        BY <2>1, <4>2 DEF Handling
      <4> QED BY <3>1, <4>1, <4>2 DEF Serve
    <3>2. CASE AssignErr(r) BY <2>1, <3>2 DEF AssignErr, Handling
    <3>3. CASE Finish(r) BY <2>1, <3>3 DEF Finish, Handling
    <3> QED BY <1>3, <3>1, <3>2, <3>3 DEF ServiceStep
  <2> QED BY <1>2, <2>2
<1>4. ASSUME NEW r \in Requests,
             TimesOut(r) \/ TakesFinished(r) \/ TestErr(r) \/ StoreErr(r) \/ WgDone(r)
      PROVE  Still
  <2>1. req \in [Requests -> Handling] /\ req[r] \in Handling
    BY DEF TypeOK
  <2>2. CASE TimesOut(r)
    BY <1>2, <2>1, <2>2 DEF TimesOut, Handling, LetGo
  <2>3. CASE TakesFinished(r)
    BY <1>2, <2>1, <2>3 DEF TakesFinished, Proceed, Handling, LetGo
  <2>4. CASE TestErr(r)
    <3>1. req[r].at = "test" /\ req' = [req EXCEPT ![r].at = req'[r].at]
          /\ req'[r].at \in {"send", "store"}
      BY <2>1, <2>4 DEF TestErr, Handling
    <3> QED BY <1>2, <2>1, <3>1 DEF LetGo
  <2>5. CASE StoreErr(r)
    <3>1. CASE UNCHANGED req
      BY <1>1, <3>1
    <3>2. CASE ~UNCHANGED req
      <4>1. PICK e : req' = [req EXCEPT ![r].at = "send", ![r].resp.err = e]
        BY <2>5, <3>2 DEF StoreErr
      <4> QED BY <1>2, <2>1, <2>5, <4>1 DEF StoreErr, Handling, LetGo
    <3> QED BY <3>1, <3>2
  <2>6. CASE WgDone(r)
    BY <1>2, <2>1, <2>6 DEF WgDone, Handling, LetGo
  <2> QED BY <1>4, <2>2, <2>3, <2>4, <2>5, <2>6
<1>5. ASSUME NEW r \in Requests, SendResult(r), ~UNCHANGED req
      PROVE  /\ req[r].at = "send" /\ LetGoOf' = LetGoOf \cup {r}
             /\ resultCh' = Append(resultCh, r) /\ UNCHANGED <<out, sent, closed>>
  <2>1. req \in [Requests -> Handling] /\ req[r] \in Handling
    BY DEF TypeOK
  <2>2. req' = [req EXCEPT ![r].at = "done"] /\ req[r].at = "send"
    BY <1>5 DEF SendResult
  <2>3. LetGoOf' = LetGoOf \cup {r}
    BY <2>1, <2>2 DEF LetGoOf, LetGo, Handling
  <2> QED BY <1>5, <2>2, <2>3 DEF SendResult
<1>6. ASSUME NEW r \in Requests, SendResult(r), UNCHANGED req
      PROVE  UNCHANGED <<resultCh, out, sent, closed>>
  <2>1. req[r].at = "send" /\ [req EXCEPT ![r].at = "done"] # req
    BY <1>6 DEF TypeOK, Handling, SendResult
  <2> QED BY <1>6, <2>1 DEF SendResult
<1>7. ASSUME NEW r \in Requests, ReadRequest(r)
      PROVE  Still /\ UNCHANGED <<resultCh, out, sent, closed>>
  <2>1. req \in [Requests -> Handling] /\ req[r] \in Handling
    BY DEF TypeOK
  <2> QED BY <1>2, <1>7, <2>1 DEF ReadRequest, Handling, LetGo, sendVars, connVars
<1>8. ASSUME NEW r \in Requests, ServiceStep(r) \/ (HandlerStep(r) /\ ~SendResult(r))
      PROVE  UNCHANGED <<resultCh, out, sent, closed>>
  BY <1>8 DEF ServiceStep, Serve, AssignErr, Finish, HandlerStep, TimesOut, TakesFinished,
              Proceed, TestErr, StoreErr, WgDone, sendVars, connVars
<1>9. CASE \/ Negotiate \/ NegotiateFails \/ ReadHeartbeat \/ ReadFails \/ PeerChanges
           \/ CheckFailed \/ WaitHandlers \/ Unwind \/ HeartStep
  <2>1. UNCHANGED <<req, resultCh, out, sent>> /\ (closed => closed')
    BY <1>9 DEF Negotiate, NegotiateFails, ReadHeartbeat, ReadFails, PeerChanges, CheckFailed,
                WaitHandlers, Leave, Unwind, HeartStep, HeartTick, HeartTimesOut, Expire,
                sendVars, connVars
  <2> QED BY <1>1, <2>1
<1>10. CASE SenderStep
  BY <1>1, <1>10 DEF SenderStep, SenderReceives, SenderEnds, SenderWrites, SenderFails,
                     GiveUp, Drain
<1>11. CASE UNCHANGED vars
  BY <1>1, <1>11 DEF vars, sendVars, connVars
<1>12. CASE \E r \in Requests : ServiceStep(r) \/ ReadRequest(r)
  BY <1>3, <1>7, <1>8, <1>12
<1>13. CASE \E r \in Requests : HandlerStep(r)
  <2> PICK r \in Requests : HandlerStep(r)
    BY <1>13
  <2>1. CASE SendResult(r)
    BY <1>1, <1>5, <1>6, <2>1
  <2>2. CASE ~SendResult(r)
    BY <1>4, <1>8, <2>2 DEF HandlerStep
  <2> QED BY <2>1, <2>2
<1> QED BY <1>9, <1>10, <1>11, <1>12, <1>13
        DEF Next, Running, Stopped, ClientStep, ReaderStep

(* What appending to the channel leaves in it, and what taking from it.    *)
LEMMA ChannelAppend ==
    ASSUME resultCh \in Seq(Requests), NEW r \in Requests, resultCh' = Append(resultCh, r)
    PROVE  /\ Len(resultCh') = Len(resultCh) + 1 /\ Len(resultCh) \in Nat
           /\ resultCh'[Len(resultCh')] = r
           /\ \A i \in 1 .. Len(resultCh) :
                 i \in 1 .. Len(resultCh') /\ resultCh'[i] = resultCh[i]
           /\ \A i \in 1 .. Len(resultCh') : \/ i \in 1 .. Len(resultCh)
                                             \/ i = Len(resultCh')
OBVIOUS

LEMMA ChannelTake ==
    ASSUME resultCh \in Seq(Requests), resultCh # <<>>, resultCh' = Tail(resultCh)
    PROVE  /\ Len(resultCh') = Len(resultCh) - 1 /\ Len(resultCh) \in Nat
           /\ 1 \in 1 .. Len(resultCh) /\ Head(resultCh) = resultCh[1]
           /\ \A i \in 1 .. Len(resultCh') :
                 i + 1 \in 1 .. Len(resultCh) /\ resultCh'[i] = resultCh[i + 1]
           /\ \A i \in 1 .. Len(resultCh) :
                 i = 1 \/ (i - 1 \in 1 .. Len(resultCh') /\ resultCh'[i - 1] = resultCh[i])
OBVIOUS

(* What the sender makes of out. *)
LEMMA SenderMakes ==
    ASSUME TypeOK, Companions, SenderStep
    PROVE  \/ /\ resultCh # <<>> /\ resultCh' = Tail(resultCh) /\ UNCHANGED <<sent, closed>>
              /\ \/ out = None /\ out' = Head(resultCh)
                 \/ closed /\ UNCHANGED out
           \/ UNCHANGED <<resultCh, out, sent, closed>>
           \/ UNCHANGED <<resultCh, sent>> /\ closed' /\ out' = None
           \/ /\ UNCHANGED <<resultCh, closed>> /\ out' = None /\ out \in Requests
              /\ sent'[out] # None /\ \A r \in Requests : r # out => sent'[r] = sent[r]
<1>1. CASE SenderReceives \/ SenderEnds \/ SenderFails \/ Drain
  BY <1>1 DEF SenderReceives, SenderEnds, SenderFails, GiveUp, Drain, Companions, connVars
<1>2. CASE SenderWrites
  <2>1. PICK m \in Encoded(out) : sent' = [sent EXCEPT ![out] = m]
    BY <1>2 DEF SenderWrites
  <2>2. out \in Requests
    BY <1>2 DEF SenderWrites, Companions, TypeOK
  <2>3. m \in Response
    <3>1. req[out] \in Handling
      BY <2>2 DEF TypeOK
    <3> QED BY <2>1, <3>1 DEF Encoded, Handling, Response, ErrValues
  <2> QED BY <1>2, <2>1, <2>2, <2>3, NothingSent DEF SenderWrites, TypeOK, connVars
<1> QED BY <1>1, <1>2 DEF SenderStep

(* A response that was let go of stays in the channel, with the sender or  *)
(* with the client while the connection is open.                           *)
LEMMA KeptStep ==
    ASSUME TypeOK, Companions, Kept, [Next]_vars
    PROVE  Kept'
<1> SUFFICES ASSUME ~closed', NEW r \in Requests, r \in LetGoOf'
             PROVE  sent'[r] # None \/ out' = r \/ Queued(r)'
  BY DEF Kept, LetGoOf
<1> USE DEF Queued
<1>0. resultCh \in Seq(Requests)
  BY DEF TypeOK
<1>1. CASE UNCHANGED <<resultCh, out, sent>> /\ LetGoOf' = LetGoOf /\ (closed => closed')
  BY <1>1 DEF Kept, LetGoOf
<1>2. ASSUME NEW q \in Requests, LetGoOf' = LetGoOf \cup {q},
             resultCh' = Append(resultCh, q), UNCHANGED <<out, sent, closed>>
      PROVE  sent'[r] # None \/ out' = r \/ Queued(r)'
  <2>1. CASE r = q
    <3>1. Len(resultCh') \in 1 .. Len(resultCh') /\ resultCh'[Len(resultCh')] = r
      BY <1>0, <1>2, <2>1, ChannelAppend
    <3> QED BY <3>1
  <2>2. CASE r # q
    <3>1. sent[r] # None \/ out = r \/ Queued(r)
      BY <1>2, <2>2 DEF Kept, LetGoOf
    <3>2. Queued(r) => Queued(r)'
      BY <1>0, <1>2, ChannelAppend
    <3> QED BY <1>2, <3>1, <3>2
  <2> QED BY <2>1, <2>2
<1>3. CASE SenderStep /\ LetGoOf' = LetGoOf
  <2>1. closed \/ sent[r] # None \/ out = r \/ Queued(r)
    BY <1>3 DEF Kept, LetGoOf
  <2>2. CASE resultCh # <<>> /\ resultCh' = Tail(resultCh) /\ UNCHANGED <<sent, closed>>
             /\ out = None /\ out' = Head(resultCh)
    <3>1. Queued(r) => out' = r \/ Queued(r)'
      BY <1>0, <2>2, ChannelTake
    <3> QED BY <2>1, <2>2, <3>1, ServerConstants
  <2>3. CASE UNCHANGED <<resultCh, out, sent, closed>>
    BY <2>1, <2>3
  <2>4. CASE /\ UNCHANGED <<resultCh, closed>> /\ out' = None /\ out \in Requests
             /\ sent'[out] # None /\ \A x \in Requests : x # out => sent'[x] = sent[x]
    BY <2>1, <2>4
  <2> QED BY <1>3, <2>2, <2>3, <2>4, SenderMakes
<1> QED BY <1>1, <1>2, <1>3, ResponsesMove

(* A response has one place at most. *)
LEMMA OnePlaceStep ==
    ASSUME TypeOK, Companions, WholeInv, OnePlace, [Next]_vars
    PROVE  OnePlace'
<1>0. resultCh \in Seq(Requests) /\ \A i \in 1 .. Len(resultCh) : resultCh[i] \in Requests
  <2>1. resultCh \in Seq(Requests)
    BY DEF TypeOK
  <2> QED BY <2>1
<1>1. CASE UNCHANGED <<resultCh, out, sent>>
  BY <1>1 DEF OnePlace
<1>2. ASSUME NEW q \in Requests, req[q].at = "send",
             resultCh' = Append(resultCh, q), UNCHANGED <<out, sent>>
      PROVE  OnePlace'
  <2>1. /\ \A i \in 1 .. Len(resultCh) : resultCh[i] # q
        /\ out # q /\ sent[q] = None
    BY <1>2, ServerConstants DEF WholeInv, OnItsWay, LetGo
  <2> QED BY <1>0, <1>2, <2>1, ChannelAppend DEF OnePlace
<1>3. CASE SenderStep
  <2>1. CASE /\ resultCh # <<>> /\ resultCh' = Tail(resultCh) /\ UNCHANGED sent
             /\ out' \in {out, Head(resultCh)}
    <3>1. \A i \in 1 .. Len(resultCh') : /\ i + 1 \in 1 .. Len(resultCh) /\ i + 1 # 1
                                         /\ resultCh'[i] = resultCh[i + 1]
      BY <1>0, <2>1, ChannelTake
    <3>2. 1 \in 1 .. Len(resultCh) /\ Head(resultCh) = resultCh[1]
      BY <1>0, <2>1, ChannelTake
    <3>3. \A i, j \in 1 .. Len(resultCh') : resultCh'[i] = resultCh'[j] => i = j
      <4> TAKE i, j \in 1 .. Len(resultCh')
      <4> HAVE resultCh'[i] = resultCh'[j]
      <4>1. i + 1 = j + 1
        BY <3>1 DEF OnePlace
      <4>2. i \in Nat /\ j \in Nat
        OBVIOUS
      <4> QED BY <4>1, <4>2
    <3>4. \A i \in 1 .. Len(resultCh') : resultCh'[i] # out' /\ sent'[resultCh'[i]] = None
      BY <2>1, <3>1, <3>2 DEF OnePlace
    <3>5. out' # None => sent'[out'] = None
      BY <2>1, <3>2 DEF OnePlace
    <3> QED BY <3>3, <3>4, <3>5 DEF OnePlace
  <2>2. CASE UNCHANGED <<resultCh, sent>> /\ out' = None
    BY <1>0, <2>2, ServerConstants DEF OnePlace
  <2>3. CASE /\ UNCHANGED resultCh /\ out' = None /\ out \in Requests
             /\ \A x \in Requests : x # out => sent'[x] = sent[x]
    BY <1>0, <2>3, ServerConstants DEF OnePlace
  <2> QED BY <1>1, <1>3, <2>1, <2>2, <2>3, SenderMakes
<1> QED BY <1>1, <1>2, <1>3, ResponsesMove

(* What every reachable state keeps. *)
FlowInv == IInv /\ WholeInv /\ Companions /\ Kept /\ OnePlace
LEMMA FlowHolds == Spec => []FlowInv
<1>1. Init => WholeInv
  BY ServerConstants DEF Init, WholeInv, OnItsWay, Whole, Fresh
<1>2. Init => Companions /\ Kept /\ OnePlace
  BY DEF Init, Companions, Kept, OnePlace, Fresh, LetGo
<1>3. TypeOK /\ WholeInv /\ Companions /\ Kept /\ OnePlace /\ [Next]_vars
          => WholeInv' /\ Companions' /\ Kept' /\ OnePlace'
  BY WholeStep, CompanionsStep, KeptStep, OnePlaceStep
<1> QED BY <1>1, <1>2, <1>3, TypeCorrect, Invariant, PTL DEF Spec, FlowInv

(* For any number of requests and any capacity of resultCh: no handler, and *)
(* nothing of a closed connection, waits for what will never come.          *)
THEOREM ConnectionNeverStuck == Spec => []ConnNeverStuck
<1>1. FlowInv => ConnNeverStuck
  <2> SUFFICES ASSUME FlowInv, panic = "no" PROVE ConnNeverStuck
    BY DEF ConnNeverStuck
  <2> USE DEF FlowInv, IInv
  <2>1. /\ reader \in {"negotiate", "check", "read", "wait", "defer", "closing", "exit"}
        /\ sender \in {"none", "recv", "write", "drain", "exit"}
        /\ heart \in {"none", "listen", "exit"}
        /\ resultCh \in Seq(Requests)
        /\ \A r \in Requests : req[r].at \in {"none", "select", "test", "store", "send",
                                              "done", "exit"}
    BY DEF TypeOK, Handling
  <2>2. ASSUME NEW r \in Requests, req[r].at \notin {"none", "exit"}
        PROVE  HandlerMoves(r) \/ SenderMoves
    <3>1. reader \notin {"negotiate", "defer", "closing", "exit"}
      BY <2>2 DEF HandlersFirst, HandlersDone
    <3>2. sender \in {"recv", "write", "drain"}
      BY <2>1, <3>1 DEF Companions, ResultsClosed
    <3>3. Len(resultCh) < ResultCap \/ resultCh # <<>>
      <4>1. ResultCap > 0 /\ ResultCap \in Nat
        BY ServerConstants
      <4>2. resultCh = <<>> => Len(resultCh) = 0
        OBVIOUS
      <4> QED BY <4>1, <4>2
    <3> QED BY <2>1, <2>2, <3>2, <3>3 DEF HandlerMoves, SenderMoves
  <2>3. ASSUME closed
        PROVE  \/ Unwound \/ ReaderMoves \/ SenderMoves \/ HeartMoves
               \/ \E r \in Requests : HandlerMoves(r)
    <3>1. CASE ~HandlersDone
      BY <2>2, <3>1 DEF HandlersDone
    <3>2. CASE HandlersDone /\ reader # "exit"
      BY <2>1, <2>3, <3>2 DEF ReaderMoves, Companions
    <3>3. CASE HandlersDone /\ reader = "exit"
      BY <2>1, <3>3 DEF SenderMoves, HeartMoves, Unwound, ResultsClosed, TicksClosed
    <3> QED BY <3>1, <3>2, <3>3
  <2> QED BY <2>2, <2>3 DEF ConnNeverStuck
<1> QED BY <1>1, FlowHolds, PTL

(* As long as the connection is open, the response of every handler that   *)
(* has ended is queued, being written, or with the client.                 *)
THEOREM ResponsesAreKept == Spec => []NoResponseLost
<1>1. FlowInv => NoResponseLost
  BY DEF FlowInv, Kept, NoResponseLost, LetGo
<1> QED BY <1>1, FlowHolds, PTL

(* What the client has been sent for a request is never overwritten: its   *)
(* response was sent to the channel, and taken from it, once.              *)
THEOREM AnswersAreFinal == Spec => AnsweredOnce
<1>1. ASSUME FlowInv, [Next]_vars, NEW r \in Requests, sent[r] # None
      PROVE  sent'[r] = sent[r]
  <2>1. CASE UNCHANGED sent
    BY <2>1
  <2>2. CASE SenderStep
    <3>1. out # None => sent[out] = None
      BY <1>1 DEF FlowInv, OnePlace
    <3>2. UNCHANGED sent \/ (out \in Requests /\ (r # out => sent'[r] = sent[r]))
      BY <1>1, <2>2, SenderMakes DEF FlowInv, IInv
    <3> QED BY <1>1, <3>1, <3>2, ServerConstants
  <2> QED BY <1>1, <2>1, <2>2, ResponsesMove DEF FlowInv, IInv
<1>2. FlowInv /\ [Next]_vars => [\A r \in Requests : sent[r] # None => sent'[r] = sent[r]]_vars
  BY <1>1
<1> QED BY <1>2, FlowHolds, PTL DEF AnsweredOnce, Spec

-----------------------------------------------------------------------------
(* The connection between a client and a server (RpcConnect). *)

LEMMA OneRequestNext == NextRequest \subseteq Requests
<1> DEFINE unread == {r \in Requests : req[r].at = "none"}
<1>1. CASE unread = {}
  BY <1>1 DEF NextRequest
<1>2. CASE unread # {}
  <2>1. (CHOOSE r \in unread : TRUE) \in unread
    BY <1>2
  <2> QED BY <1>2, <2>1 DEF NextRequest
<1> QED BY <1>1, <1>2

(* Joining the two ends adds no behaviour to either: what is proved of a   *)
(* server connection, or of dialling, holds where they meet.               *)
THEOREM ConnectImplementsBoth == ConnectSpec => Spec /\ DialSpec
<1>1. ConnectInit => Init /\ DialInit
  BY DEF ConnectInit
<1>2. ASSUME [ConnectNext]_connectVars PROVE [Next]_vars /\ [DialNext]_dialVars
  <2>1. CASE ClientMoves
    BY <2>1 DEF ClientMoves, DialNext
  <2>2. CASE ServerLost
    BY <2>2 DEF ServerLost, DialNext
  <2>3. CASE panic = "no" /\ ServerMoves
    <3>1. Running
      BY <2>3 DEF ServerMoves, Running, ReaderStep, ClientStep
    <3> QED BY <2>3, <3>1 DEF ServerMoves, Next
  <2>4. CASE panic = "no" /\ Confirm
    BY <2>4 DEF Confirm, DialNext, Next, Running, ClientStep
  <2>5. CASE panic = "no" /\ Refuse
    BY <2>5 DEF Refuse, Next, Running, ClientStep
  <2>6. CASE panic = "no" /\ Requested
    <3>1. ClientStep
      BY <2>6, OneRequestNext DEF Requested, ClientStep
    <3> QED BY <2>6, <3>1 DEF Requested, Next, Running
  <2>7. CASE panic = "no" /\ PeerLost
    BY <2>7 DEF PeerLost, Next, Running, ClientStep
  <2>8. CASE UNCHANGED connectVars
    BY <2>8 DEF connectVars
  <2> QED
    BY <1>2, <2>1, <2>2, <2>3, <2>4, <2>5, <2>6, <2>7, <2>8
       DEF ConnectNext, Connecting, ConnectStopped
<1> QED BY <1>1, <1>2, PTL DEF ConnectSpec, Spec, DialSpec
=============================================================================
