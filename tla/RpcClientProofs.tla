--------------------------- MODULE RpcClientProofs ---------------------------
(***************************************************************************)
(* What holds of RpcClient for every set of calls, every connection buffer *)
(* and every choice of timed, typed and unencodable calls; and of RpcDial, *)
(* for both constructors and with or without heartbeats.                   *)
(***************************************************************************)
EXTENDS RpcClient, RpcDial, TLAPS

(* The threads of a client, and number 0 that the first call gets. *)
LEMMA ThreadNames ==
    /\ "receiver" \in Threads /\ "ticker" \in Threads /\ "user" \in Threads
    /\ \A c \in Calls : c \in Threads /\ c # None
    /\ \A c \in Calls : c # "receiver" /\ c # "ticker" /\ c # "user"
    /\ None \notin Threads
    /\ 0 \in SeqNos
  BY ClientConstants DEF Threads, Helpers, SeqNos

USE ThreadNames

-----------------------------------------------------------------------------
(* Types. *)

(* Ending a call keeps the types of the fields it sets. *)
LEMMA SettleType ==
    ASSUME TypeOK, NEW c, NEW e, c \in Calls => e \in Errors, Settle(c, e)
    PROVE  /\ err' \in [Calls -> Errors]
           /\ status' \in [Calls -> {"NEW", "RECEIVING", "FINISHED"}]
           /\ done' \in [Calls -> BOOLEAN]
           /\ crash' \in {"no", "double close", "logical error", "reply"}
  BY DEF TypeOK, Settle

(* Taking a call out of pending keeps the types of the map and the hands. *)
LEMMA TakeType ==
    ASSUME TypeOK, NEW t \in Threads, NEW s \in SeqNos, Take(t, s)
    PROVE  /\ pending' \in [SeqNos -> Calls \cup {None}]
           /\ hand' \in [Threads -> Calls \cup {None}]
  BY DEF TypeOK, Take

(* The steps of a caller keep every variable in its type. *)
LEMMA CallerType ==
    ASSUME TypeOK, NEW c \in Calls, CallerStep(c)
    PROVE  TypeOK'
<1> USE DEF TypeOK, Goto, CallerPCs, ClosePCs, callVars, clientVars, netVars
<1>1. CASE Register(c)
  <2> HIDE DEF TypeOK, Goto, CallerPCs, ClosePCs
  <2>1. /\ pc[c] = "idle" /\ MuFree
        /\ UNCHANGED <<status, err, done, reply, result, closed, mu, sending, todo,
                       hand, got, conn, wire, serving, answers, crash>>
    BY <1>1 DEF Register, RegisterBody
  <2>2. CASE closed
    BY <1>1, <2>1, <2>2 DEF Register, RegisterBody, Goto, TypeOK, CallerPCs
  <2>3. CASE ~closed
    <3>1. /\ seq \in SeqNos /\ seq' = seq + 1
          /\ pending' = [pending EXCEPT ![seq] = c]
          /\ seqOf' = [seqOf EXCEPT ![c] = seq]
          /\ pc' = [pc EXCEPT ![c] = "lock"]
      BY <1>1, <2>3 DEF Register, RegisterBody, Goto
    <3>2. seq \in Nat
      BY DEF TypeOK
    <3>3. seq' \in Nat
      BY <3>1, <3>2
    <3>4. pending' \in [SeqNos -> Calls \cup {None}] /\ seqOf' \in [Calls -> SeqNos]
      BY <3>1 DEF TypeOK
    <3>5. pc' \in [Threads -> CallerPCs \cup ClosePCs \cup
                              {"read", "deliver", "sleep", "using", "exit"}]
      BY <3>1 DEF TypeOK, CallerPCs
    <3> QED BY <2>1, <3>3, <3>4, <3>5 DEF TypeOK
  <2> QED BY <2>2, <2>3
<1>2. CASE Refuse(c)
  <2>1. "ErrShutdown" \in Errors
    BY DEF Errors
  <2> QED BY <1>2, <2>1, SettleType DEF Refuse
<1>3. CASE CheckStatus(c)
  BY <1>3 DEF CheckStatus, CheckBody
<1>4. CASE TakeBack(c)
  <2>1. seqOf[c] \in SeqNos
    OBVIOUS
  <2>2. Take(c, seqOf[c]) => /\ pending' \in [SeqNos -> Calls \cup {None}]
                            /\ hand' \in [Threads -> Calls \cup {None}]
    BY <2>1 DEF Take
  <2> QED BY <1>4, <2>2 DEF TakeBack, Errors
<1>5. CASE Drop(c)
  <2>1. "ErrShutdown" \in Errors
    BY DEF Errors
  <2> QED BY <1>5, <2>1, SettleType DEF Drop, LetGo
<1>6. CASE Return(c)
  BY <1>6 DEF Return
<1>7. CASE TimerFires(c)
  <2>1. seqOf[c] \in SeqNos
    OBVIOUS
  <2>2. Take(c, seqOf[c]) => /\ pending' \in [SeqNos -> Calls \cup {None}]
                            /\ hand' \in [Threads -> Calls \cup {None}]
    BY <2>1 DEF Take
  <2>3. result' \in [Calls -> Errors \cup {"none", "torn"}]
    BY <1>7 DEF TimerFires
  <2>4. /\ pending' \in [SeqNos -> Calls \cup {None}]
        /\ hand' \in [Threads -> Calls \cup {None}]
    BY <1>7, <2>2 DEF TimerFires
  <2> QED BY <1>7, <2>3, <2>4 DEF TimerFires
<1>8. CASE Cancel(c)
  <2>1. "ErrWaitingForReceiving" \in Errors
    BY DEF Errors
  <2> QED BY <1>8, <2>1, SettleType DEF Cancel, LetGo
<1> QED BY <1>1, <1>2, <1>3, <1>4, <1>5, <1>6, <1>7, <1>8 DEF CallerStep

(* The steps of a sender keep every variable in its type. *)
LEMMA SenderType ==
    ASSUME TypeOK, NEW t \in Calls \cup {"ticker"}, SenderStep(t)
    PROVE  TypeOK'
<1> USE DEF TypeOK, Goto, CallerPCs, ClosePCs, callVars, clientVars, netVars
<1>1. CASE LockSending(t)
  BY <1>1 DEF LockSending
<1>2. CASE Write(t)
  <2> DEFINE m == IF t \in Calls THEN [seq |-> seqOf[t], of |-> t] ELSE Tick
             Msgs == [seq : SeqNos, of : Calls] \cup {Tick}
  <2>1. m \in Msgs
    OBVIOUS
  <2>2. wire' \in Seq(Msgs)
    <3>1. wire' = wire \/ wire' = Append(wire, m)
      BY <1>2 DEF Write, Transmit
    <3>2. wire \in Seq(Msgs)
      OBVIOUS
    <3> HIDE DEF m, Msgs, TypeOK
    <3> QED BY <2>1, <3>1, <3>2
  <2> QED BY <1>2, <2>2 DEF Write
<1>3. CASE WriteFails(t)
  BY <1>3 DEF WriteFails
<1> QED BY <1>1, <1>2, <1>3 DEF SenderStep

(* The steps of Close keep every variable in its type. *)
LEMMA CloseType ==
    ASSUME TypeOK, NEW t \in Threads, CloseStep(t)
    PROVE  TypeOK'
<1> USE DEF TypeOK, Goto, CallerPCs, ClosePCs, callVars, clientVars, netVars
<1>1. CASE CloseBegin(t)
  <2>1. PendingCalls \subseteq Calls
    <3> HIDE DEF TypeOK
    <3>1. \A s \in SeqNos : pending[s] \in Calls \cup {None}
      BY DEF TypeOK
    <3> QED BY <3>1 DEF PendingCalls
  <2> QED BY <1>1, <2>1 DEF CloseBegin, CloseBeginBody, Resume
<1>2. CASE Terminate(t)
  <2>1. "ErrWaitingForReceiving" \in Errors
    BY DEF Errors
  <2> QED BY <1>2, <2>1, SettleType DEF Terminate
<1>3. CASE CloseMark(t)
  BY <1>3 DEF CloseMark, NoPending
<1>4. CASE CloseConn(t)
  BY <1>4 DEF CloseConn, Resume
<1> QED BY <1>1, <1>2, <1>3, <1>4 DEF CloseStep

(* The steps of the receiver keep every variable in its type. *)
LEMMA ReceiverType ==
    ASSUME TypeOK, ReceiverStep
    PROVE  TypeOK'
<1> USE DEF TypeOK, Goto, CallerPCs, ClosePCs, callVars, clientVars, netVars
<1>1. CASE Read
  <2> HIDE DEF TypeOK, Goto, callVars
  <2>1. PICK a \in answers, k \in AnswerKinds :
          /\ answers' = answers \ {a}
          /\ \/ /\ Take("receiver", a.seq)
                /\ got' = [kind |-> k, from |-> a.of]
                /\ Goto("receiver", "deliver")
             \/ /\ UNCHANGED <<pending, hand, got>>
                /\ pc' = pc \/ Goto("receiver", "close")
    BY <1>1 DEF Read
  <2>2. a.seq \in SeqNos /\ k \in Kinds /\ a.of \in Calls
    BY ClientConstants DEF TypeOK
  <2>3. /\ pending' \in [SeqNos -> Calls \cup {None}]
        /\ hand' \in [Threads -> Calls \cup {None}]
    <3>1. CASE Take("receiver", a.seq)
      BY <2>2, <3>1 DEF Take, TypeOK
    <3>2. CASE UNCHANGED <<pending, hand, got>>
      BY <3>2 DEF TypeOK
    <3> QED BY <2>1, <3>1, <3>2
  <2>4. got' \in [kind : Kinds, from : Calls \cup {None}]
    <3>1. [kind |-> k, from |-> a.of] \in [kind : Kinds, from : Calls \cup {None}]
      BY <2>2
    <3>2. got \in [kind : Kinds, from : Calls \cup {None}]
      BY DEF TypeOK
    <3> QED BY <2>1, <3>1, <3>2
  <2>5. pc' \in [Threads -> CallerPCs \cup ClosePCs \cup
                            {"read", "deliver", "sleep", "using", "exit"}]
    BY <2>1 DEF TypeOK, Goto
  <2>6. UNCHANGED <<status, err, done, reply, seqOf, result, seq, closed, mu, sending,
                    todo, conn, wire, serving, crash>>
    BY <1>1 DEF Read, callVars
  <2>7. answers' \subseteq answers
    BY <2>1
  <2> QED BY <2>3, <2>4, <2>5, <2>6, <2>7 DEF TypeOK
<1>2. CASE ReadFails
  BY <1>2 DEF ReadFails
<1>3. CASE Deliver
  <2> HIDE DEF TypeOK, Goto, callVars
  <2>1. UNCHANGED <<seqOf, result, pending, seq, closed, mu, sending, todo, conn, wire,
                    serving, answers>>
    BY <1>3 DEF Deliver, callVars
  <2>2. CASE UNCHANGED <<pc, hand, got, status, done, reply>>
             /\ crash' \in {"logical error", "reply"}
             /\ err' \in {err, [err EXCEPT ![hand["receiver"]] = "remote"]}
    BY <2>1, <2>2 DEF TypeOK, Errors
  <2> DEFINE e == IF got.kind = "error" THEN "remote" ELSE err[hand["receiver"]]
  <2>3. CASE /\ Settle(hand["receiver"], e)
             /\ reply' = [reply EXCEPT ![hand["receiver"]] = got.from]
             /\ LetGo("receiver") /\ got' = NoAnswer /\ Goto("receiver", "read")
    <3>1. /\ err' \in [Calls -> Errors]
          /\ status' \in [Calls -> {"NEW", "RECEIVING", "FINISHED"}]
          /\ done' \in [Calls -> BOOLEAN]
          /\ crash' \in {"no", "double close", "logical error", "reply"}
      <4>1. hand["receiver"] \in Calls => e \in Errors
        BY DEF TypeOK, Errors
      <4> HIDE DEF e
      <4> QED BY <2>3, <4>1, SettleType
    <3>2. reply' \in [Calls -> Calls \cup {None}]
      BY <2>3 DEF TypeOK
    <3>3. got' \in [kind : Kinds, from : Calls \cup {None}]
      BY <2>3 DEF NoAnswer, Kinds
    <3>4. hand' \in [Threads -> Calls \cup {None}]
      BY <2>3 DEF TypeOK, LetGo
    <3>5. pc' \in [Threads -> CallerPCs \cup ClosePCs \cup
                              {"read", "deliver", "sleep", "using", "exit"}]
      BY <2>3 DEF TypeOK, Goto
    <3> QED BY <2>1, <3>1, <3>2, <3>3, <3>4, <3>5 DEF TypeOK
  <2>4. [err EXCEPT ![hand["receiver"]] = e]
           \in {err, [err EXCEPT ![hand["receiver"]] = "remote"]}
    BY DEF TypeOK
  <2> QED BY <1>3, <2>2, <2>3, <2>4 DEF Deliver, callVars
<1> QED BY <1>1, <1>2, <1>3 DEF ReceiverStep

(* The steps of the server keep every variable in its type. *)
LEMMA ServerType ==
    ASSUME TypeOK, ServerStep
    PROVE  TypeOK'
<1> USE DEF callVars, clientVars, netVars
<1>1. CASE ServerReads
  <2> DEFINE Msgs == [seq : SeqNos, of : Calls] \cup {Tick}
  <2>1. wire \in Seq(Msgs) /\ wire # <<>> /\ wire' = Tail(wire)
    BY <1>1 DEF ServerReads, TypeOK
  <2>2. Head(wire) \in Msgs /\ wire' \in Seq(Msgs)
    <3> HIDE DEF Msgs
    <3> QED BY <2>1
  <2>3. serving' \subseteq [seq : SeqNos, of : Calls]
    BY <1>1, <2>2 DEF ServerReads, TypeOK
  <2> QED BY <1>1, <2>2, <2>3 DEF ServerReads, TypeOK
<1>2. CASE \E c \in Calls : ServerAnswers(c)
  <2>1. PICK c \in Calls, r \in serving :
          /\ serving' = serving \ {r}
          /\ answers' = answers \cup {r}
    BY <1>2 DEF ServerAnswers
  <2>3. serving' \subseteq [seq : SeqNos, of : Calls]
        /\ answers' \subseteq [seq : SeqNos, of : Calls]
    BY <2>1 DEF TypeOK
  <2> QED BY <1>2, <2>3 DEF ServerAnswers, TypeOK
<1>3. CASE ServerVanishes
  BY <1>3 DEF ServerVanishes, TypeOK
<1> QED BY <1>1, <1>2, <1>3 DEF ServerStep

(* The initial state is well typed. *)
LEMMA TypeInit == Init => TypeOK
<1> SUFFICES ASSUME Init PROVE TypeOK
  OBVIOUS
<1>1. pc \in [Threads -> CallerPCs \cup ClosePCs \cup
                         {"read", "deliver", "sleep", "using", "exit"}]
  BY DEF Init, CallerPCs
<1>2. got \in [kind : Kinds, from : Calls \cup {None}]
  BY DEF Init, NoAnswer, Kinds
<1>3. wire \in Seq([seq : SeqNos, of : Calls] \cup {Tick})
  BY DEF Init
<1>4. /\ status \in [Calls -> {"NEW", "RECEIVING", "FINISHED"}]
      /\ err \in [Calls -> Errors] /\ done \in [Calls -> BOOLEAN]
      /\ reply \in [Calls -> Calls \cup {None}] /\ seqOf \in [Calls -> SeqNos]
      /\ result \in [Calls -> Errors \cup {"none", "torn"}]
      /\ pending \in [SeqNos -> Calls \cup {None}]
      /\ hand \in [Threads -> Calls \cup {None}]
  BY DEF Init, Errors, NoPending
<1> QED BY <1>1, <1>2, <1>3, <1>4 DEF Init, TypeOK

(* Every step keeps every variable in its type. *)
LEMMA TypeStep == TypeOK /\ [Next]_vars => TypeOK'
<1> SUFFICES ASSUME TypeOK, [Next]_vars PROVE TypeOK'
  OBVIOUS
<1>1. CASE UNCHANGED vars
  BY <1>1 DEF TypeOK, vars, callVars, clientVars, netVars
<1>2. CASE Running
  <2>1. CASE TickerWakes \/ UserCloses
    <3>1. pc' \in [Threads -> CallerPCs \cup ClosePCs \cup
                              {"read", "deliver", "sleep", "using", "exit"}]
      <4>1. pc' = [pc EXCEPT !["ticker"] = "lock"] \/ pc' = [pc EXCEPT !["user"] = "close"]
        BY <2>1 DEF TickerWakes, UserCloses, Goto
      <4> QED BY <4>1 DEF TypeOK, CallerPCs, ClosePCs
    <3>2. UNCHANGED <<callVars, clientVars, netVars, crash>>
      BY <2>1 DEF TickerWakes, UserCloses
    <3> QED BY <3>1, <3>2 DEF TypeOK, callVars, clientVars, netVars
  <2> QED BY <1>2, <2>1, CallerType, SenderType, CloseType, ReceiverType, ServerType
          DEF Running
<1> QED BY <1>1, <1>2 DEF Next, Stopped

(* Every variable always has its type. *)
THEOREM TypeCorrect == Spec => []TypeOK
  BY TypeInit, TypeStep, PTL DEF Spec

-----------------------------------------------------------------------------
(* The inductive invariant.                                                *)

(* Control points that IInv speaks about; a step between two others only   *)
(* has to keep the sender of a call where its number is known.             *)
Marked == {"idle", "refused", "cancel", "drop", "deliver", "terminate"}
invVars == <<status, done, seqOf, pending, seq, closed, mu, todo, hand, got, reply, crash>>

(* A step that moves one thread between unmarked points keeps the          *)
(* invariant if it sends only messages that InvTraffic allows.             *)
LEMMA QuietStep ==
    ASSUME IInv, TypeOK', NEW t \in Threads, NEW l,
           pc' = [pc EXCEPT ![t] = l],
           l # pc[t] => /\ pc[t] \notin Marked /\ l \notin Marked
                        /\ t \in Calls /\ l \in {"lock", "check", "write"} =>
                              pc[t] \in {"lock", "check", "write"}
                        /\ t \in Calls /\ l = "write" => status[t] # "NEW",
           UNCHANGED invVars, InvTraffic'
    PROVE  IInv'
<1> USE DEF invVars, IInv
<1>1. pc \in [Threads -> CallerPCs \cup ClosePCs \cup
                         {"read", "deliver", "sleep", "using", "exit"}]
      /\ pending \in [SeqNos -> Calls \cup {None}] /\ hand \in [Threads -> Calls \cup {None}]
  BY DEF TypeOK
<1>2. \A u \in Threads : pc'[u] # pc[u] => u = t /\ pc'[t] = l /\ l # pc[t]
  BY <1>1
<1>3. \A u \in Threads, m \in Marked : pc'[u] = m <=> pc[u] = m
  BY <1>1, <1>2
<1>4. InvPending'
  BY <1>1, <1>3 DEF InvPending, Marked
<1>5. InvHand'
  BY <1>1, <1>3 DEF InvHand, Marked
<1>6. InvStatus'
  BY <1>1, <1>2, <1>3 DEF InvStatus, Marked
<1>7. InvTraffic'
  OBVIOUS
<1>8. InvClose'
  BY <1>3 DEF InvClose, Marked, PendingCalls
<1>9. InvOwned'
  BY <1>3 DEF InvOwned, Marked, PendingCalls
<1> QED BY <1>4, <1>5, <1>6, <1>7, <1>8, <1>9 DEF InvCrash, AnswerIsOwn

(* removeCall by a thread that will settle the call it found. *)
LEMMA TakeStep ==
    ASSUME IInv, TypeOK', NEW t \in Threads, NEW s \in SeqNos, NEW l,
           l \in {"cancel", "drop", "deliver"}, pc[t] \notin Marked,
           pc' = [pc EXCEPT ![t] = l],
           mu = None, pending[s] # None, Take(t, s),
           UNCHANGED <<status, done, seqOf, seq, closed, mu, todo, reply, crash>>,
           Traffic' \subseteq Traffic,
           IF t = "receiver" THEN status[pending[s]] = "RECEIVING" /\ got'.from = pending[s]
                             ELSE UNCHANGED got
    PROVE  IInv'
<1> DEFINE c == pending[s]
<1> USE DEF IInv
<1>1. /\ pc \in [Threads -> CallerPCs \cup ClosePCs \cup
                           {"read", "deliver", "sleep", "using", "exit"}]
      /\ pending \in [SeqNos -> Calls \cup {None}] /\ hand \in [Threads -> Calls \cup {None}]
  BY DEF TypeOK
<1>2. /\ c \in Calls /\ c # None
      /\ hand' = [hand EXCEPT ![t] = c] /\ pending' = [pending EXCEPT ![s] = None]
  BY <1>1 DEF Take
<1>3. /\ ~done[c] /\ pc[c] \notin {"idle", "refused"} /\ seqOf[c] = s
      /\ \A u \in Threads : hand[u] # c
  BY <1>2 DEF InvPending
<1>4. hand[t] = None /\ pc'[t] = l /\ \A u \in Threads : u # t => pc'[u] = pc[u]
  BY <1>1 DEF InvHand, Marked
<1>5. \A r \in SeqNos : pending[r] = c => r = s
  BY <1>2, <1>3 DEF InvPending
<1>6. InvPending'
  BY <1>1, <1>2, <1>4, <1>5 DEF InvPending
<1>7. InvHand'
  <2>1. \A u \in Threads :
          /\ hand'[u] # None <=> pc'[u] \in {"cancel", "drop", "deliver"}
          /\ hand'[u] # None => ~done'[hand'[u]] /\ pc'[hand'[u]] \notin {"idle", "refused"}
    BY <1>1, <1>2, <1>3, <1>4 DEF InvHand
  <2>2. \A u, v \in Threads : hand'[u] = hand'[v] => u = v \/ hand'[u] = None
    BY <1>1, <1>2, <1>3, <1>4 DEF InvHand
  <2>3. hand'["receiver"] # None => /\ status'[hand'["receiver"]] = "RECEIVING"
                                   /\ got'.from = hand'["receiver"]
    BY <1>1, <1>2 DEF InvHand
  <2> QED BY <2>1, <2>2, <2>3 DEF InvHand
<1>8. InvStatus'
  BY <1>1, <1>2, <1>4 DEF InvStatus, TypeOK
<1>9. InvTraffic'
  BY <1>1, <1>2 DEF InvTraffic
<1>10. InvClose'
  <2>1. todo = {} /\ mu' = None
    BY DEF InvClose
  <2>2. ~closed
    BY <1>2 DEF InvClose, NoPending
  <2> QED BY <1>4, <2>1, <2>2 DEF InvClose, Marked
<1>11. InvOwned'
  <2>1. \A d \in Calls : d \in PendingCalls => d = c \/ d \in PendingCalls'
    BY <1>1, <1>2 DEF PendingCalls
  <2>2. hand'[t] = c /\ \A u \in Threads : hand[u] # None => hand'[u] = hand[u]
    BY <1>1, <1>2, <1>4
  <2> QED BY <1>4, <2>1, <2>2 DEF InvOwned, Marked
<1> QED BY <1>6, <1>7, <1>8, <1>9, <1>10, <1>11 DEF InvCrash, AnswerIsOwn

(* The settling of a call by the thread that has it in its hand. *)
LEMMA HandStep ==
    ASSUME IInv, TypeOK', NEW t \in Threads, NEW l, NEW e,
           l \notin Marked, l \notin {"lock", "check", "write"},
           pc[t] \in {"cancel", "drop", "deliver"},
           pc' = [pc EXCEPT ![t] = l],
           Settle(hand[t], e), LetGo(t),
           UNCHANGED <<seqOf, pending, seq, closed, mu, todo>>,
           Traffic' \subseteq Traffic,
           reply' \in {reply, [reply EXCEPT ![hand[t]] = hand[t]]},
           t = "receiver" \/ UNCHANGED got
    PROVE  IInv'
<1> DEFINE c == hand[t]
<1> USE DEF IInv
<1>1. /\ pc \in [Threads -> CallerPCs \cup ClosePCs \cup
                           {"read", "deliver", "sleep", "using", "exit"}]
      /\ pending \in [SeqNos -> Calls \cup {None}] /\ hand \in [Threads -> Calls \cup {None}]
      /\ done \in [Calls -> BOOLEAN] /\ status \in [Calls -> {"NEW", "RECEIVING", "FINISHED"}]
      /\ reply \in [Calls -> Calls \cup {None}]
  BY DEF TypeOK
<1>2. c # None /\ c \in Calls /\ ~done[c] /\ pc[c] \notin {"idle", "refused"}
  BY <1>1 DEF InvHand
<1>3. /\ done' = [done EXCEPT ![c] = TRUE] /\ status' = [status EXCEPT ![c] = "FINISHED"]
      /\ crash' = crash /\ hand' = [hand EXCEPT ![t] = None]
  BY <1>2 DEF Settle, LetGo
<1>4. pc'[t] = l /\ \A u \in Threads : u # t => pc'[u] = pc[u]
  BY <1>1
<1>5. \A s \in SeqNos : pending[s] # c
  BY <1>2 DEF InvPending
<1>6. InvPending'
  BY <1>1, <1>3, <1>4, <1>5 DEF InvPending, Marked
<1>7. InvHand'
  <2>1. \A u \in Threads : u # t => hand'[u] = hand[u] /\ (hand[u] # None => hand[u] # c)
    BY <1>1, <1>2, <1>3 DEF InvHand
  <2>2. hand'[t] = None
    BY <1>1, <1>3
  <2>3. \A u \in Threads :
          /\ hand'[u] # None <=> pc'[u] \in {"cancel", "drop", "deliver"}
          /\ hand'[u] # None => ~done'[hand'[u]] /\ pc'[hand'[u]] \notin {"idle", "refused"}
    BY <1>1, <1>3, <1>4, <2>1, <2>2 DEF InvHand, Marked
  <2>4. \A u, v \in Threads : hand'[u] = hand'[v] => u = v \/ hand'[u] = None
    BY <2>1, <2>2 DEF InvHand
  <2>5. hand'["receiver"] # None => /\ status'[hand'["receiver"]] = "RECEIVING"
                                   /\ got'.from = hand'["receiver"]
    BY <1>1, <1>3, <2>1, <2>2 DEF InvHand
  <2> QED BY <2>3, <2>4, <2>5 DEF InvHand
<1>8. InvStatus'
  <2> SUFFICES ASSUME NEW d \in Calls
               PROVE  /\ done'[d] <=> status'[d] = "FINISHED"
                      /\ pc'[d] \in {"idle", "refused"} => ~done'[d]
                      /\ pc'[d] = "write" => status'[d] # "NEW"
                      /\ pc'[d] \in {"lock", "check", "write"} =>
                            seqOf'[d] < seq' /\ pending'[seqOf'[d]] \in {d, None}
    BY DEF InvStatus
  <2>1. pc'[d] \in {"idle", "refused", "lock", "check", "write"} => pc'[d] = pc[d]
    BY <1>4 DEF Marked
  <2>2. pc'[d] \in {"idle", "refused"} => d # c
    BY <1>2, <2>1
  <2>3. d # c => done'[d] = done[d] /\ status'[d] = status[d]
    BY <1>3
  <2>4. done'[c] /\ status'[c] = "FINISHED"
    BY <1>1, <1>2, <1>3
  <2>5. /\ done[d] <=> status[d] = "FINISHED"
        /\ pc[d] \in {"idle", "refused"} => ~done[d]
        /\ pc[d] = "write" => status[d] # "NEW"
        /\ pc[d] \in {"lock", "check", "write"} =>
              seqOf[d] < seq /\ pending[seqOf[d]] \in {d, None}
    BY DEF InvStatus
  <2> QED BY <2>1, <2>2, <2>3, <2>4, <2>5
<1>9. InvTraffic'
  <2>1. \A d \in Calls : status[d] # "NEW" => status'[d] # "NEW"
    BY <1>1, <1>3
  <2> QED BY <2>1 DEF InvTraffic
<1>10. InvClose'
  <2>1. \A d \in todo : d # c
    BY <1>5 DEF InvClose, PendingCalls
  <2> QED BY <1>1, <1>3, <1>4, <2>1 DEF InvClose, Marked, PendingCalls
<1>11. InvOwned'
  <2>1. \A d \in Calls : ~done'[d] => ~done[d] /\ d # c
    BY <1>1, <1>3
  <2>2. \A u \in Threads : hand[u] # c => hand'[u] = hand[u]
    BY <1>1, <1>3
  <2> QED BY <1>4, <2>1, <2>2 DEF InvOwned, Marked, PendingCalls
<1>12. AnswerIsOwn'
  BY <1>1 DEF AnswerIsOwn
<1> QED BY <1>3, <1>6, <1>7, <1>8, <1>9, <1>10, <1>11, <1>12 DEF InvCrash

(* The types IInv's conjuncts are proved from. *)
LEMMA Types ==
    ASSUME TypeOK
    PROVE  /\ pc \in [Threads -> CallerPCs \cup ClosePCs \cup
                                {"read", "deliver", "sleep", "using", "exit"}]
           /\ pending \in [SeqNos -> Calls \cup {None}]
           /\ hand \in [Threads -> Calls \cup {None}]
           /\ done \in [Calls -> BOOLEAN] /\ seqOf \in [Calls -> SeqNos]
           /\ status \in [Calls -> {"NEW", "RECEIVING", "FINISHED"}]
           /\ seq \in Nat /\ todo \subseteq Calls
  BY DEF TypeOK

(* Messages change only in the steps of the network and of a write. *)
LEMMA SameTraffic == ASSUME UNCHANGED netVars PROVE Traffic' = Traffic
  BY DEF netVars, Traffic, Entries

(* A message in flight is of some call and has a sequence number. *)
LEMMA TrafficType ==
    ASSUME TypeOK
    PROVE  \A e \in Traffic : e.seq \in SeqNos /\ e.of \in Calls
<1> DEFINE Msgs == [seq : SeqNos, of : Calls] \cup {Tick}
<1>1. wire \in Seq(Msgs)
  BY DEF TypeOK
<1>2. \A i \in DOMAIN wire : wire[i] \in Msgs
  <2> HIDE DEF Msgs
  <2> QED BY <1>1
<1>3. \A e \in Entries : e \in [seq : SeqNos, of : Calls]
  BY <1>2 DEF Entries
<1>4. /\ serving \subseteq [seq : SeqNos, of : Calls]
      /\ answers \subseteq [seq : SeqNos, of : Calls]
  BY DEF TypeOK
<1> QED BY <1>3, <1>4 DEF Traffic

(* registerCall on an open client: the next number is free, and nothing    *)
(* else is known of a call that was idle.                                  *)
LEMMA RegisterStep ==
    ASSUME IInv, TypeOK', NEW c \in Calls, Register(c), ~closed
    PROVE  IInv'
<1> USE DEF IInv
<1>1. /\ pc \in [Threads -> CallerPCs \cup ClosePCs \cup
                           {"read", "deliver", "sleep", "using", "exit"}]
      /\ pending \in [SeqNos -> Calls \cup {None}] /\ seqOf \in [Calls -> SeqNos]
      /\ seq \in Nat /\ hand \in [Threads -> Calls \cup {None}]
  BY Types
<1>2. /\ pc[c] = "idle" /\ mu = None /\ seq \in SeqNos
      /\ pc' = [pc EXCEPT ![c] = "lock"]
      /\ pending' = [pending EXCEPT ![seq] = c]
      /\ seqOf' = [seqOf EXCEPT ![c] = seq]
      /\ seq' = seq + 1
      /\ UNCHANGED <<status, done, reply, closed, mu, todo, hand, got, netVars, crash>>
  BY DEF Register, RegisterBody, MuFree, Goto
<1>3. Traffic' = Traffic
  BY <1>2, SameTraffic
<1>4. pc'[c] = "lock" /\ \A u \in Threads : u # c => pc'[u] = pc[u]
  BY <1>1, <1>2
<1>5. /\ ~done[c] /\ todo = {}
      /\ \A s \in SeqNos : pending[s] # c
      /\ \A u \in Threads : hand[u] # c
      /\ \A s \in SeqNos : pending[s] # None => s < seq /\ s # seq
      /\ \A n \in SeqNos : n < seq => n < seq + 1 /\ n # seq
  <2>1. \A n \in SeqNos : n \in Nat
    BY ClientConstants DEF SeqNos
  <2>2. ~done[c] /\ todo = {}
    BY <1>2 DEF InvStatus, InvClose
  <2>3. \A s \in SeqNos : pending[s] # c
    BY <1>2 DEF InvPending
  <2>4. \A u \in Threads : hand[u] # c
    BY <1>2 DEF InvHand
  <2>5. \A s \in SeqNos : pending[s] # None => s < seq
    BY DEF InvPending
  <2>6. \A n \in SeqNos : n < seq => n < seq + 1 /\ n # seq
    BY <1>1, <2>1
  <2> QED BY <2>2, <2>3, <2>4, <2>5, <2>6
<1>6. pending[seq] = None /\ seq < seq + 1
  BY <1>1, <1>2, <1>5
<1>7. InvPending'
  <2>1. \A s \in SeqNos : s # seq => pending'[s] = pending[s]
    BY <1>1, <1>2
  <2>2. pending'[seq] = c /\ seqOf'[c] = seq
    BY <1>1, <1>2
  <2>3. \A d \in Calls : d # c => seqOf'[d] = seqOf[d]
    BY <1>1, <1>2
  <2>4. \A s \in SeqNos : s # seq /\ pending[s] # None =>
          pending[s] \in Calls /\ pending[s] # c
    BY <1>1, <1>5
  <2>5. \A s \in SeqNos : s # seq /\ pending[s] # None =>
          /\ s < seq'
          /\ pc'[pending'[s]] \notin {"idle", "refused"}
          /\ \A u \in Threads : hand'[u] # pending'[s]
          /\ seqOf'[pending'[s]] = s
          /\ done'[pending'[s]] <=> mu' # None /\ pending'[s] \notin todo'
    BY <1>2, <1>4, <1>5, <2>1, <2>3, <2>4 DEF InvPending
  <2>6. /\ seq < seq' /\ pc'[c] \notin {"idle", "refused"}
        /\ \A u \in Threads : hand'[u] # c
        /\ ~done'[c] /\ mu' = None
    BY <1>2, <1>4, <1>5, <1>6
  <2> QED BY <2>1, <2>2, <2>5, <2>6 DEF InvPending
<1>8. InvHand'
  BY <1>2, <1>4 DEF InvHand
<1>9. InvStatus'
  <2> SUFFICES ASSUME NEW d \in Calls
               PROVE  /\ done'[d] <=> status'[d] = "FINISHED"
                      /\ pc'[d] \in {"idle", "refused"} => ~done'[d]
                      /\ pc'[d] = "write" => status'[d] # "NEW"
                      /\ pc'[d] \in {"lock", "check", "write"} =>
                            seqOf'[d] < seq' /\ pending'[seqOf'[d]] \in {d, None}
    BY DEF InvStatus
  <2>1. CASE d = c
    <3>1. seqOf'[c] = seq /\ pending'[seq] = c
      BY <1>1, <1>2
    <3> QED BY <1>2, <1>4, <1>6, <2>1, <3>1 DEF InvStatus
  <2>2. CASE d # c
    <3>1. pc'[d] = pc[d] /\ seqOf'[d] = seqOf[d] /\ seqOf[d] \in SeqNos
      BY <1>1, <1>2, <2>2
    <3>2. seqOf[d] < seq => seqOf[d] < seq' /\ pending'[seqOf[d]] = pending[seqOf[d]]
      BY <1>1, <1>2, <1>5, <3>1
    <3> QED BY <1>2, <3>1, <3>2 DEF InvStatus
  <2> QED BY <2>1, <2>2
<1>10. InvTraffic'
  <2> SUFFICES ASSUME NEW e \in Traffic
               PROVE  /\ e.of \in Calls /\ e.seq < seq'
                      /\ status'[e.of] # "NEW"
                      /\ pending'[e.seq] \in {e.of, None}
    BY <1>3 DEF InvTraffic
  <2>1. e.seq \in SeqNos
    BY TrafficType
  <2>2. e.of \in Calls /\ e.seq < seq /\ status[e.of] # "NEW"
        /\ pending[e.seq] \in {e.of, None}
    BY DEF InvTraffic
  <2>3. e.seq < seq' /\ pending'[e.seq] = pending[e.seq]
    BY <1>1, <1>2, <1>5, <2>1, <2>2
  <2> QED BY <1>2, <2>2, <2>3
<1>11. InvClose'
  BY <1>2, <1>4, <1>5 DEF InvClose
<1>12. InvOwned'
  <2>1. \A d \in PendingCalls \cup {c} : d \in PendingCalls'
    <3>1. \A s \in SeqNos : pending[s] # None => pending'[s] = pending[s]
      BY <1>1, <1>2, <1>6
    <3>2. pending'[seq] = c
      BY <1>1, <1>2
    <3> QED BY <1>2, <3>1, <3>2 DEF PendingCalls
  <2> QED BY <1>2, <1>4, <2>1 DEF InvOwned
<1> QED BY <1>2, <1>7, <1>8, <1>9, <1>10, <1>11, <1>12 DEF InvCrash, AnswerIsOwn

(* The settling of a call that registerCall has refused. *)
LEMMA RefuseStep ==
    ASSUME IInv, TypeOK', NEW c \in Calls, Refuse(c)
    PROVE  IInv'
<1> USE DEF IInv
<1>1. /\ pc \in [Threads -> CallerPCs \cup ClosePCs \cup
                           {"read", "deliver", "sleep", "using", "exit"}]
      /\ pending \in [SeqNos -> Calls \cup {None}]
      /\ hand \in [Threads -> Calls \cup {None}]
      /\ done \in [Calls -> BOOLEAN]
      /\ status \in [Calls -> {"NEW", "RECEIVING", "FINISHED"}]
  BY Types
<1>2. /\ pc[c] = "refused" /\ ~done[c]
      /\ \A s \in SeqNos : pending[s] # c
      /\ \A u \in Threads : hand[u] # c
      /\ c \notin todo
  <2>1. pc[c] = "refused"
    BY DEF Refuse
  <2>2. ~done[c]
    BY <2>1 DEF InvStatus
  <2>3. \A s \in SeqNos : pending[s] # c
    BY <2>1 DEF InvPending
  <2>4. \A u \in Threads : hand[u] # c
    BY <2>1 DEF InvHand
  <2> QED BY <2>1, <2>2, <2>3, <2>4 DEF InvClose, PendingCalls
<1>3. /\ done' = [done EXCEPT ![c] = TRUE] /\ status' = [status EXCEPT ![c] = "FINISHED"]
      /\ pc' = [pc EXCEPT ![c] = "wait"]
      /\ UNCHANGED <<reply, seqOf, pending, seq, closed, mu, todo, hand, got, netVars, crash>>
  BY <1>2 DEF Refuse, Settle, Goto, clientVars
<1>4. pc'[c] = "wait" /\ \A u \in Threads : u # c => pc'[u] = pc[u]
  BY <1>1, <1>3
<1>5. /\ done'[c] /\ status'[c] = "FINISHED"
      /\ \A d \in Calls : d # c => done'[d] = done[d] /\ status'[d] = status[d]
  BY <1>1, <1>3
<1>6. InvPending'
  <2>1. \A s \in SeqNos : pending[s] # None => pending[s] \in Calls /\ pending[s] # c
    BY <1>1, <1>2
  <2> QED BY <1>3, <1>4, <1>5, <2>1 DEF InvPending
<1>7. InvHand'
  <2>1. \A u \in Threads : hand[u] # None => hand[u] \in Calls /\ hand[u] # c
    BY <1>1, <1>2
  <2> QED BY <1>2, <1>3, <1>4, <1>5, <2>1 DEF InvHand
<1>8. InvStatus'
  BY <1>2, <1>3, <1>4, <1>5 DEF InvStatus
<1>9. InvTraffic'
  BY <1>3, <1>5, SameTraffic DEF InvTraffic
<1>10. InvClose'
  BY <1>2, <1>3, <1>4, <1>5, Types DEF InvClose, PendingCalls
<1>11. InvOwned'
  BY <1>2, <1>3, <1>4, <1>5 DEF InvOwned, PendingCalls
<1> QED BY <1>3, <1>6, <1>7, <1>8, <1>9, <1>10, <1>11 DEF InvCrash, AnswerIsOwn

(* send puts a call that has not been ended into RECEIVING. *)
LEMMA CheckStep ==
    ASSUME IInv, TypeOK', NEW c \in Calls, CheckStatus(c), status[c] # "FINISHED"
    PROVE  IInv'
<1> USE DEF IInv
<1>1. /\ pc \in [Threads -> CallerPCs \cup ClosePCs \cup
                           {"read", "deliver", "sleep", "using", "exit"}]
      /\ hand \in [Threads -> Calls \cup {None}]
      /\ status \in [Calls -> {"NEW", "RECEIVING", "FINISHED"}]
  BY Types
<1>2. /\ pc[c] = "check" /\ pc' = [pc EXCEPT ![c] = "write"]
      /\ status' = [status EXCEPT ![c] = "RECEIVING"]
      /\ UNCHANGED <<reply, done, seqOf, pending, seq, closed, mu, todo, hand, got,
                     netVars, crash>>
  BY DEF CheckStatus, CheckBody, Goto
<1>3. pc'[c] = "write" /\ \A u \in Threads : u # c => pc'[u] = pc[u]
  BY <1>1, <1>2
<1>4. /\ status'[c] = "RECEIVING"
      /\ \A d \in Calls : d # c => status'[d] = status[d]
  BY <1>1, <1>2
<1>5. InvPending'
  BY <1>2, <1>3 DEF InvPending
<1>6. InvHand'
  BY <1>1, <1>2, <1>3, <1>4 DEF InvHand
<1>7. InvStatus'
  BY <1>2, <1>3, <1>4 DEF InvStatus
<1>8. InvTraffic'
  BY <1>2, <1>4, SameTraffic DEF InvTraffic
<1>9. InvClose'
  BY <1>2, <1>3 DEF InvClose, PendingCalls
<1>10. InvOwned'
  BY <1>2, <1>3 DEF InvOwned, PendingCalls
<1> QED BY <1>2, <1>5, <1>6, <1>7, <1>8, <1>9, <1>10 DEF InvCrash, AnswerIsOwn

(* registerCall on a closed client: only the caller knows of the call.     *)
LEMMA RefusedStep ==
    ASSUME IInv, TypeOK', NEW c \in Calls, pc[c] = "idle",
           pc' = [pc EXCEPT ![c] = "refused"], UNCHANGED <<invVars, netVars>>
    PROVE  IInv'
<1> USE DEF IInv, invVars
<1>1. \A u \in Threads : pc'[u] = pc[u] \/ (u = c /\ pc'[u] = "refused")
  BY Types
<1>2. pc'[c] = "refused"
  BY Types
<1>3. InvPending'
  BY <1>1, Types DEF InvPending
<1>4. InvHand'
  BY <1>1, <1>2, Types DEF InvHand
<1>5. InvStatus'
  BY <1>1, <1>2 DEF InvStatus
<1>6. InvTraffic'
  BY SameTraffic DEF InvTraffic
<1>7. InvClose'
  BY <1>1, <1>2 DEF InvClose, PendingCalls
<1>8. InvOwned'
  BY <1>1, <1>2 DEF InvOwned, PendingCalls
<1> QED BY <1>3, <1>4, <1>5, <1>6, <1>7, <1>8 DEF InvCrash, AnswerIsOwn

(* Without new messages, and with the same calls, numbers and states, the  *)
(* messages stay the right ones.                                           *)
LEMMA TrafficKept ==
    ASSUME InvTraffic, UNCHANGED <<status, pending, seq>>,
           \A e \in Traffic' : \E f \in Traffic : e.seq = f.seq /\ e.of = f.of
    PROVE  InvTraffic'
  BY DEF InvTraffic

(* The steps of a caller keep the invariant. *)
LEMMA CallerInv ==
    ASSUME IInv, TypeOK', NEW c \in Calls, CallerStep(c)
    PROVE  IInv'
<1> USE DEF callVars, clientVars
<1>0. /\ c \in Threads /\ TypeOK /\ InvTraffic
      /\ (UNCHANGED netVars => Traffic' = Traffic)
      /\ (UNCHANGED netVars /\ UNCHANGED <<status, pending, seq>> => InvTraffic')
  BY SameTraffic, TrafficKept DEF IInv
<1>1. CASE Register(c)
  <2>1. CASE closed
    <3>1. /\ pc[c] = "idle" /\ pc' = [pc EXCEPT ![c] = "refused"]
          /\ UNCHANGED <<invVars, netVars>>
      BY <1>1, <2>1 DEF Register, RegisterBody, Goto, invVars
    <3> QED BY <1>0, <3>1, RefusedStep
  <2> QED BY <1>1, <2>1, RegisterStep
<1>2. CASE Refuse(c)
  BY <1>2, RefuseStep
<1>3. CASE CheckStatus(c)
  <2>1. CASE status[c] = "FINISHED"
    <3>1. /\ pc[c] = "check" /\ pc' = [pc EXCEPT ![c] = "wait"]
          /\ UNCHANGED <<invVars, netVars>>
      BY <1>3, <2>1 DEF CheckStatus, CheckBody, Goto, invVars
    <3> QED BY <1>0, <3>1, QuietStep DEF Marked, invVars
  <2> QED BY <1>3, <2>1, CheckStep
<1>4. CASE TakeBack(c)
  <2>1. CASE pending[seqOf[c]] = None
    <3>1. /\ pc[c] = "failed" /\ pc' = [pc EXCEPT ![c] = "close"]
          /\ UNCHANGED <<invVars, netVars>>
      BY <1>4, <2>1 DEF TakeBack, Goto, invVars
    <3> QED BY <1>0, <3>1, QuietStep DEF Marked, invVars
  <2>2. CASE pending[seqOf[c]] # None
    <3>1. /\ pc[c] = "failed" /\ pc' = [pc EXCEPT ![c] = "drop"]
          /\ mu = None /\ Take(c, seqOf[c])
          /\ UNCHANGED <<status, done, seqOf, seq, closed, mu, todo, reply, crash, got, netVars>>
      BY <1>4, <2>2 DEF TakeBack, Goto, MuFree
    <3> QED BY <1>0, <2>2, <3>1, TakeStep, Types DEF Marked
  <2> QED BY <2>1, <2>2
<1>5. CASE Drop(c)
  <2>1. /\ pc[c] = "drop" /\ pc' = [pc EXCEPT ![c] = "close"]
        /\ Settle(hand[c], "ErrShutdown") /\ LetGo(c)
        /\ UNCHANGED <<seqOf, pending, seq, closed, mu, todo, reply, got, netVars>>
    BY <1>5 DEF Drop, Goto
  <2> QED BY <1>0, <2>1, HandStep DEF Marked
<1>6. CASE Return(c)
  <2>1. /\ pc[c] = "wait" /\ pc' = [pc EXCEPT ![c] = "returned"]
        /\ UNCHANGED <<invVars, netVars>>
    BY <1>6 DEF Return, Goto, invVars
  <2> QED BY <1>0, <2>1, QuietStep DEF Marked, invVars
<1>7. CASE TimerFires(c)
  <2>1. CASE pending[seqOf[c]] = None
    <3>1. /\ pc[c] = "wait" /\ pc' = [pc EXCEPT ![c] = "returned"]
          /\ UNCHANGED <<invVars, netVars>>
      BY <1>7, <2>1 DEF TimerFires, Goto, invVars
    <3> QED BY <1>0, <3>1, QuietStep DEF Marked, invVars
  <2>2. CASE pending[seqOf[c]] # None
    <3>1. /\ pc[c] = "wait" /\ pc' = [pc EXCEPT ![c] = "cancel"]
          /\ mu = None /\ Take(c, seqOf[c])
          /\ UNCHANGED <<status, done, seqOf, seq, closed, mu, todo, reply, crash, got, netVars>>
      BY <1>7, <2>2 DEF TimerFires, Goto, MuFree
    <3> QED BY <1>0, <2>2, <3>1, TakeStep, Types DEF Marked
  <2> QED BY <2>1, <2>2
<1>8. CASE Cancel(c)
  <2>1. /\ pc[c] = "cancel" /\ pc' = [pc EXCEPT ![c] = "returned"]
        /\ Settle(hand[c], "ErrWaitingForReceiving") /\ LetGo(c)
        /\ UNCHANGED <<seqOf, pending, seq, closed, mu, todo, reply, got, netVars>>
    BY <1>8 DEF Cancel, Goto
  <2> QED BY <1>0, <2>1, HandStep DEF Marked
<1> QED BY <1>1, <1>2, <1>3, <1>4, <1>5, <1>6, <1>7, <1>8 DEF CallerStep

(* The steps of a sender keep the invariant. *)
LEMMA SenderInv ==
    ASSUME IInv, TypeOK', NEW t \in Calls \cup {"ticker"}, SenderStep(t)
    PROVE  IInv'
<1> USE DEF callVars, clientVars
<1>0. /\ t \in Threads /\ TypeOK /\ InvTraffic
      /\ (UNCHANGED netVars /\ UNCHANGED <<status, pending, seq>> => InvTraffic')
  BY SameTraffic, TrafficKept DEF IInv
<1>1. CASE LockSending(t)
  <2>1. /\ pc[t] = "lock" /\ UNCHANGED <<invVars, netVars>>
        /\ pc' = [pc EXCEPT ![t] = IF t \in Calls THEN "check" ELSE "write"]
    BY <1>1 DEF LockSending, Goto, invVars
  <2> QED BY <1>0, <2>1, QuietStep DEF Marked, invVars
<1>2. CASE Write(t)
  <2> DEFINE m == IF t \in Calls THEN [seq |-> seqOf[t], of |-> t] ELSE Tick
             Msgs == [seq : SeqNos, of : Calls] \cup {Tick}
  <2>1. /\ pc[t] = "write" /\ UNCHANGED invVars
        /\ pc' = [pc EXCEPT ![t] = IF t \in Calls THEN "wait" ELSE "sleep"]
        /\ wire' = wire \/ wire' = Append(wire, m)
        /\ UNCHANGED <<serving, answers>>
    BY <1>2 DEF Write, Transmit, Goto, invVars
  <2>2. \A e \in Traffic' : e \in Traffic \/ (e = m /\ m # Tick)
    <3>1. wire \in Seq(Msgs) /\ m \in Msgs
      BY <1>0, Types DEF TypeOK
    <3>2. \A i \in DOMAIN wire' : wire'[i] = m \/ \E j \in DOMAIN wire : wire'[i] = wire[j]
      <4> HIDE DEF Msgs, m
      <4> QED BY <2>1, <3>1
    <3> HIDE DEF m
    <3> QED BY <2>1, <3>2 DEF Traffic, Entries
  <2>3. t \in Calls => /\ m.of \in Calls /\ m.seq < seq /\ status[m.of] # "NEW"
                       /\ pending[m.seq] \in {m.of, None}
    BY <2>1 DEF IInv, InvStatus
  <2>4. InvTraffic'
    <3>1. UNCHANGED <<status, pending, seq>>
      BY <2>1 DEF invVars
    <3>2. m # Tick => t \in Calls
      OBVIOUS
    <3> HIDE DEF m
    <3> QED BY <1>0, <2>2, <2>3, <3>1, <3>2 DEF InvTraffic
  <2> QED BY <1>0, <2>1, <2>4, QuietStep DEF Marked, invVars
<1>3. CASE WriteFails(t)
  <2>1. /\ pc[t] = "write" /\ UNCHANGED <<invVars, netVars>>
        /\ pc' = [pc EXCEPT ![t] = IF t \in Calls THEN "failed" ELSE "close"]
    BY <1>3 DEF WriteFails, Goto, invVars
  <2> QED BY <1>0, <2>1, QuietStep DEF Marked, invVars
<1> QED BY <1>1, <1>2, <1>3 DEF SenderStep

(* Close takes mu: nothing in pending is finished, and all of it is to do. *)
LEMMA BeginStep ==
    ASSUME IInv, TypeOK', NEW t \in Threads, pc[t] = "close", mu = None, ~closed,
           pc' = [pc EXCEPT ![t] = "terminate"], mu' = t, todo' = PendingCalls,
           UNCHANGED <<status, done, seqOf, pending, seq, closed, hand, got, reply,
                       crash, netVars>>
    PROVE  IInv'
<1> USE DEF IInv
<1>1. /\ pc'[t] = "terminate" /\ (\A u \in Threads : u # t => pc'[u] = pc[u]) /\ t # None
  BY Types
<1>2. \A s \in SeqNos : pending[s] # None => ~done[pending[s]]
  BY DEF InvPending
<1>3. InvPending'
  <2>1. \A s \in SeqNos : pending[s] # None => pending[s] \in Calls /\ pending[s] \in todo'
    BY Types DEF PendingCalls
  <2> QED BY <1>1, <1>2, <2>1 DEF InvPending
<1>4. InvHand'
  BY <1>1, Types DEF InvHand
<1>5. InvStatus'
  BY <1>1 DEF InvStatus
<1>6. InvTraffic'
  BY SameTraffic DEF InvTraffic
<1>7. InvClose'
  <2>1. \A u \in Threads : pc[u] # "terminate"
    BY DEF InvClose
  <2>2. PendingCalls' = PendingCalls /\ \A c \in PendingCalls : ~done[c]
    BY <1>2 DEF PendingCalls
  <2> QED BY <1>1, <2>1, <2>2 DEF InvClose
<1>8. InvOwned'
  BY <1>1 DEF InvOwned, PendingCalls
<1> QED BY <1>3, <1>4, <1>5, <1>6, <1>7, <1>8 DEF InvCrash, AnswerIsOwn

(* terminateCalls ends one call, which stays in pending but off the list. *)
LEMMA TerminateStep ==
    ASSUME IInv, TypeOK', NEW t \in Threads, Terminate(t)
    PROVE  IInv'
<1> USE DEF IInv
<1>1. PICK c \in todo : Settle(c, "ErrWaitingForReceiving") /\ todo' = todo \ {c}
  BY DEF Terminate
<1>2. /\ c \in Calls /\ c \in PendingCalls /\ ~done[c]
      /\ pc[t] = "terminate" /\ mu = t /\ t # None
  BY <1>1, Types DEF InvClose, Terminate
<1>3. /\ done' = [done EXCEPT ![c] = TRUE] /\ status' = [status EXCEPT ![c] = "FINISHED"]
      /\ UNCHANGED <<pc, reply, seqOf, pending, seq, closed, mu, hand, got, netVars, crash>>
  BY <1>1, <1>2 DEF Terminate, Settle
<1>4. /\ done'[c] /\ status'[c] = "FINISHED"
      /\ \A d \in Calls : d # c => done'[d] = done[d] /\ status'[d] = status[d]
  BY <1>2, <1>3, Types
<1>5. PICK s \in SeqNos : pending[s] = c /\ c # None
  BY <1>2 DEF PendingCalls
<1>6. /\ \A u \in Threads : hand[u] # c
      /\ pc[c] \notin {"idle", "refused"}
  BY <1>5 DEF InvPending
<1>7. InvPending'
  BY <1>1, <1>2, <1>3, <1>4, Types DEF InvPending
<1>8. InvHand'
  BY <1>3, <1>4, <1>6, Types DEF InvHand
<1>9. InvStatus'
  BY <1>3, <1>4, <1>6 DEF InvStatus
<1>10. InvTraffic'
  BY <1>3, <1>4, SameTraffic DEF InvTraffic
<1>11. InvClose'
  BY <1>1, <1>2, <1>3, <1>4, Types DEF InvClose, PendingCalls
<1>12. InvOwned'
  BY <1>2, <1>3, <1>4 DEF InvOwned, PendingCalls
<1> QED BY <1>3, <1>7, <1>8, <1>9, <1>10, <1>11, <1>12 DEF InvCrash, AnswerIsOwn

(* Close forgets pending once every call in it is finished. *)
LEMMA MarkStep ==
    ASSUME IInv, TypeOK', NEW t \in Threads, CloseMark(t)
    PROVE  IInv'
<1> USE DEF IInv
<1>1. /\ pc[t] = "terminate" /\ todo = {} /\ pending' = NoPending /\ closed' = TRUE
      /\ mu' = None /\ pc' = [pc EXCEPT ![t] = "closeconn"]
      /\ UNCHANGED <<status, done, reply, seqOf, seq, todo, hand, got, netVars, crash>>
  BY DEF CloseMark, Goto, callVars
<1>2. /\ pc'[t] = "closeconn" /\ (\A u \in Threads : u # t => pc'[u] = pc[u])
      /\ mu = t /\ \A s \in SeqNos : pending'[s] = None
  BY <1>1, Types DEF InvClose, NoPending
<1>3. /\ \A s \in SeqNos : pending[s] # None => done[pending[s]]
      /\ \A c \in PendingCalls : done[c]
  BY <1>1, <1>2, Types DEF InvPending, PendingCalls
<1>4. InvPending'
  BY <1>2 DEF InvPending
<1>5. InvHand'
  BY <1>1, <1>2, Types DEF InvHand
<1>6. InvStatus'
  <2>1. \A n \in SeqNos : pending'[n] = None
    BY <1>2
  <2> QED BY <1>1, <1>2, <2>1, Types DEF InvStatus
<1>7. InvTraffic'
  BY <1>1, <1>2, SameTraffic, TrafficType DEF InvTraffic
<1>8. InvClose'
  BY <1>1, <1>2, Types DEF InvClose
<1>9. InvOwned'
  BY <1>1, <1>2, <1>3 DEF InvOwned
<1> QED BY <1>1, <1>4, <1>5, <1>6, <1>7, <1>8, <1>9 DEF InvCrash, AnswerIsOwn

(* The steps of Close keep the invariant. *)
LEMMA CloseInv ==
    ASSUME IInv, TypeOK', NEW t \in Threads, CloseStep(t)
    PROVE  IInv'
<1> USE DEF callVars, clientVars
<1>0. /\ TypeOK /\ InvTraffic
      /\ (UNCHANGED netVars /\ UNCHANGED <<status, pending, seq>> => InvTraffic')
  BY SameTraffic, TrafficKept DEF IInv
<1>1. CASE CloseBegin(t)
  <2>1. CASE closed
    <3>1. /\ pc[t] = "close" /\ UNCHANGED <<invVars, netVars>>
          /\ pc' = [pc EXCEPT ![t] = IF t \in Calls THEN "wait" ELSE "exit"]
      BY <1>1, <2>1 DEF CloseBegin, CloseBeginBody, Resume, Goto, invVars
    <3> QED BY <1>0, <3>1, QuietStep DEF Marked, invVars
  <2>2. CASE ~closed
    <3>1. /\ pc[t] = "close" /\ mu = None
          /\ pc' = [pc EXCEPT ![t] = "terminate"] /\ mu' = t /\ todo' = PendingCalls
          /\ UNCHANGED <<status, done, seqOf, pending, seq, closed, hand, got, reply,
                         crash, netVars>>
      BY <1>1, <2>2 DEF CloseBegin, CloseBeginBody, MuFree, Goto
    <3> QED BY <2>2, <3>1, BeginStep
  <2> QED BY <2>1, <2>2
<1>2. CASE Terminate(t)
  BY <1>2, TerminateStep
<1>3. CASE CloseMark(t)
  BY <1>3, MarkStep
<1>4. CASE CloseConn(t)
  <2>1. /\ pc[t] = "closeconn" /\ UNCHANGED <<invVars, wire, serving, answers>>
        /\ pc' = [pc EXCEPT ![t] = IF t \in Calls THEN "wait" ELSE "exit"]
    BY <1>4 DEF CloseConn, Resume, Goto, invVars
  <2>2. InvTraffic'
    BY <1>0, <2>1, TrafficKept DEF Traffic, Entries, invVars
  <2> QED BY <2>1, <2>2, QuietStep DEF Marked, invVars
<1> QED BY <1>1, <1>2, <1>3, <1>4 DEF CloseStep

(* The steps of the receiver keep the invariant. *)
LEMMA ReceiverInv ==
    ASSUME IInv, TypeOK', ReceiverStep
    PROVE  IInv'
<1> USE DEF callVars, clientVars
<1>0. /\ TypeOK /\ InvTraffic
      /\ (UNCHANGED netVars /\ UNCHANGED <<status, pending, seq>> => InvTraffic')
  BY SameTraffic, TrafficKept DEF IInv
<1>1. CASE Read
  <2>1. PICK a \in answers, k \in AnswerKinds :
          /\ answers' = answers \ {a}
          /\ \/ /\ k = "garbled"
                /\ Goto("receiver", "close") /\ UNCHANGED <<pending, hand, got>>
             \/ /\ k # "garbled" /\ pending[a.seq] # None
                /\ Take("receiver", a.seq)
                /\ got' = [kind |-> k, from |-> a.of]
                /\ Goto("receiver", "deliver")
             \/ /\ k # "garbled" /\ pending[a.seq] = None
                /\ UNCHANGED <<pc, pending, hand, got>>
    BY <1>1 DEF Read
  <2>2. /\ pc["receiver"] = "read" /\ mu = None
        /\ UNCHANGED <<status, done, seqOf, reply, seq, closed, mu, todo, wire, serving, crash>>
    BY <1>1 DEF Read, MuFree
  <2>3. Traffic' \subseteq Traffic
    BY <2>1, <2>2 DEF Traffic, Entries
  <2>4. CASE UNCHANGED <<pending, hand, got>> /\ (pc' = pc \/ Goto("receiver", "close"))
    <3>1. InvTraffic'
      BY <1>0, <2>2, <2>3, <2>4, TrafficKept
    <3>2. \E l \in {"read", "close"} : pc' = [pc EXCEPT !["receiver"] = l]
      BY <1>0, <2>2, <2>4, Types DEF Goto
    <3> QED BY <2>2, <2>4, <3>1, <3>2, QuietStep DEF Marked, invVars
  <2>5. CASE /\ pending[a.seq] # None /\ Take("receiver", a.seq)
             /\ got' = [kind |-> k, from |-> a.of] /\ Goto("receiver", "deliver")
    <3>1. /\ a \in Traffic /\ a.seq \in SeqNos /\ pending[a.seq] = a.of /\ a.of \in Calls
          /\ status[a.of] # "NEW"
      BY <1>0, <2>5, TrafficType DEF Traffic, InvTraffic
    <3>2. ~done[a.of]
      BY <2>2, <2>5, <3>1 DEF IInv, InvPending
    <3>3. status[a.of] = "RECEIVING"
      BY <1>0, <3>1, <3>2, Types DEF IInv, InvStatus
    <3> QED BY <2>2, <2>3, <2>5, <3>1, <3>3, TakeStep DEF Marked, Goto
  <2> QED BY <2>1, <2>4, <2>5
<1>2. CASE ReadFails
  <2>1. /\ pc["receiver"] = "read" /\ UNCHANGED <<invVars, netVars>>
        /\ pc' = [pc EXCEPT !["receiver"] = "close"]
    BY <1>2 DEF ReadFails, Goto, invVars
  <2> QED BY <1>0, <2>1, QuietStep DEF Marked, invVars
<1>3. CASE Deliver
  <2> DEFINE c == hand["receiver"]
  <2>1. /\ pc["receiver"] = "deliver" /\ c # None /\ status[c] = "RECEIVING" /\ got.from = c
    BY <1>3 DEF Deliver, IInv, InvHand
  <2>2. UNCHANGED <<seqOf, pending, seq, closed, mu, todo, netVars>> /\ Traffic' = Traffic
    BY <1>3, SameTraffic DEF Deliver
  <2>3. CASE crash' = "reply" /\ UNCHANGED <<pc, hand, got, status, done, reply>>
    <3>1. InvTraffic'
      BY <1>0, <2>2, <2>3, TrafficKept
    <3> QED BY <2>2, <2>3, <3>1 DEF IInv, InvPending, InvHand, InvStatus, InvClose,
               InvOwned, InvCrash, AnswerIsOwn, PendingCalls
  <2>4. CASE \E e : /\ Settle(c, e) /\ reply' = [reply EXCEPT ![c] = got.from]
                   /\ LetGo("receiver") /\ Goto("receiver", "read")
    BY <2>1, <2>2, <2>4, HandStep DEF Marked, Goto
  <2> QED BY <1>3, <2>1, <2>3, <2>4 DEF Deliver
<1> QED BY <1>1, <1>2, <1>3 DEF ReceiverStep

(* The steps of the server keep the invariant. *)
LEMMA ServerInv ==
    ASSUME IInv, TypeOK', ServerStep
    PROVE  IInv'
<1> USE DEF callVars, clientVars
<1>0. TypeOK /\ InvTraffic
  BY DEF IInv
<1>1. UNCHANGED <<pc, callVars, clientVars, crash>>
  BY DEF ServerStep, ServerReads, ServerAnswers, ServerVanishes
<1>2. \A e \in Traffic' : \E f \in Traffic : e.seq = f.seq /\ e.of = f.of
  <2>1. CASE ServerReads
    <3> DEFINE Msgs == [seq : SeqNos, of : Calls] \cup {Tick}
    <3>1. wire \in Seq(Msgs) /\ wire # <<>> /\ wire' = Tail(wire) /\ answers' = answers
          /\ serving' \subseteq serving \cup ({Head(wire)} \ {Tick})
      BY <1>0, <2>1 DEF ServerReads, TypeOK
    <3>2. /\ \E j \in DOMAIN wire : Head(wire) = wire[j]
          /\ \A i \in DOMAIN wire' : \E j \in DOMAIN wire : wire'[i] = wire[j]
      <4> HIDE DEF Msgs
      <4>1. Head(wire) = wire[1] /\ 1 \in DOMAIN wire
        BY <3>1
      <4>2. \A i \in DOMAIN wire' : i + 1 \in DOMAIN wire /\ wire'[i] = wire[i + 1]
        BY <3>1
      <4> QED BY <4>1, <4>2
    <3>3. Traffic' \subseteq Traffic
      BY <3>1, <3>2 DEF Traffic, Entries
    <3> QED BY <3>3
  <2>2. CASE \E c \in Calls : ServerAnswers(c)
    <3>1. PICK r \in serving :
            /\ serving' = serving \ {r} /\ UNCHANGED wire
            /\ answers' = answers \cup {r}
      BY <2>2 DEF ServerAnswers
    <3> QED BY <3>1 DEF Traffic, Entries
  <2>3. CASE ServerVanishes
    BY <2>3 DEF ServerVanishes, Traffic, Entries
  <2> QED BY <2>1, <2>2, <2>3 DEF ServerStep
<1>3. InvTraffic'
  BY <1>0, <1>1, <1>2, TrafficKept
<1>4. pc' = [pc EXCEPT !["user"] = pc["user"]]
  BY <1>0, <1>1, Types
<1> QED BY <1>1, <1>3, <1>4, QuietStep DEF invVars

(* The initial state satisfies the invariant. *)
LEMMA InvInit == Init => IInv
<1> SUFFICES ASSUME Init PROVE IInv
  OBVIOUS
<1>1. TypeOK
  BY TypeInit
<1>2. Traffic = {}
  BY DEF Init, Traffic, Entries
<1>3. \A s \in SeqNos : pending[s] = None
  BY DEF Init, NoPending
<1>4. PendingCalls = {}
  BY <1>3 DEF PendingCalls
<1>5. InvPending /\ InvTraffic
  BY <1>2, <1>3 DEF InvPending, InvTraffic
<1>6. InvHand
  BY DEF Init, InvHand
<1>7. InvStatus
  BY DEF Init, InvStatus
<1>8. InvClose
  BY DEF Init, InvClose
<1>9. InvOwned
  BY DEF Init, InvOwned
<1> QED BY <1>1, <1>5, <1>6, <1>7, <1>8, <1>9 DEF Init, IInv, InvCrash, AnswerIsOwn

(* Every step keeps the invariant. *)
LEMMA InvStep == IInv /\ [Next]_vars => IInv'
<1> SUFFICES ASSUME IInv, [Next]_vars PROVE IInv'
  OBVIOUS
<1>1. TypeOK'
  BY TypeStep DEF IInv
<1>2. CASE UNCHANGED vars
  <2>1. UNCHANGED <<pc, invVars, netVars>> /\ pc' = [pc EXCEPT !["user"] = pc["user"]]
    BY <1>2, Types DEF IInv, vars, callVars, clientVars, invVars
  <2>2. InvTraffic'
    BY <2>1, SameTraffic, TrafficKept DEF IInv, invVars
  <2> QED BY <1>1, <2>1, <2>2, QuietStep
<1>3. CASE TickerWakes \/ UserCloses
  <2>1. \E t \in Threads, l \in {"lock", "close"} :
          pc[t] \in {"sleep", "using"} /\ pc' = [pc EXCEPT ![t] = l] /\ t \notin Calls
    BY <1>3 DEF TickerWakes, UserCloses, Goto
  <2>2. UNCHANGED <<invVars, netVars>>
    BY <1>3 DEF TickerWakes, UserCloses, callVars, clientVars, invVars
  <2>3. InvTraffic'
    BY <2>2, SameTraffic, TrafficKept DEF IInv, invVars
  <2> QED BY <1>1, <2>1, <2>2, <2>3, QuietStep DEF Marked
<1>4. CASE Running
  BY <1>1, <1>3, <1>4, CallerInv, SenderInv, CloseInv, ReceiverInv, ServerInv DEF Running
<1> QED BY <1>2, <1>4 DEF Next, Stopped

(* The inductive invariant holds of every reachable state. *)
THEOREM Invariant == Spec => []IInv
  BY InvInit, InvStep, PTL DEF Spec

-----------------------------------------------------------------------------
(* What follows from it. *)

(* The panic of receive is unreachable. *)
THEOREM NeverLogicalPanic == Spec => []NoLogicalPanic
<1>1. IInv => NoLogicalPanic
  BY DEF IInv, InvCrash, NoLogicalPanic
<1> QED BY <1>1, Invariant, PTL

(* No call's Done channel is closed twice. *)
THEOREM NeverDoubleClose == Spec => []NoDoubleClose
<1>1. IInv => NoDoubleClose
  BY DEF IInv, InvCrash, NoDoubleClose
<1> QED BY <1>1, Invariant, PTL

(* Exactly one of the goroutines that may end a call ends it.              *)
THEOREM CallsEndOnce == Spec => []EndedByOne
<1>1. NoLogicalPanic /\ NoDoubleClose => EndedByOne
  BY DEF EndedByOne
<1> QED BY <1>1, NeverLogicalPanic, NeverDoubleClose, PTL

(* The answer stored in a call is its own. *)
THEOREM AnswersAreOwn == Spec => []AnswerIsOwn
<1>1. IInv => AnswerIsOwn
  BY DEF IInv
<1> QED BY <1>1, Invariant, PTL

(* An unfinished call always has exactly one owner. *)
THEOREM CallsAreOwned == Spec => []NoCallStranded
<1>1. IInv => NoCallStranded
  <2> SUFFICES ASSUME IInv, NEW c \in Calls, pc[c] # "idle", ~done[c], pc[c] # "refused"
               PROVE  \/ c \in PendingCalls /\ Holders(c) = {}
                      \/ c \notin PendingCalls /\ \E t \in Threads : Holders(c) = {t}
    BY DEF NoCallStranded
  <2>1. c \in PendingCalls => \A t \in Threads : hand[t] # c
    BY DEF IInv, InvPending, PendingCalls
  <2>2. \A t, u \in Threads : hand[t] = c /\ hand[u] = c => t = u
    BY DEF IInv, InvHand
  <2>3. c \in PendingCalls \/ \E t \in Threads : hand[t] = c
    BY DEF IInv, InvOwned
  <2> QED BY <2>1, <2>2, <2>3 DEF Holders
<1> QED BY <1>1, Invariant, PTL

(* Settling another call, or assigning to its fields, leaves a call alone. *)
LEMMA SettleOther ==
    ASSUME TypeOK, NEW c \in Calls, NEW d, NEW e, d # c, done[c], Settle(d, e)
    PROVE  done'[c] /\ err'[c] = err[c] /\ status'[c] = status[c]
  BY DEF TypeOK, Settle

(* No step changes the outcome of a finished call: whoever settles a call  *)
(* owns an unfinished one.                                                 *)
LEMMA FinalStep ==
    ASSUME IInv, Next, NEW c \in Calls, done[c]
    PROVE  done'[c] /\ err'[c] = err[c] /\ reply'[c] = reply[c] /\ status'[c] = status[c]
<1> DEFINE Same == UNCHANGED <<done, err, reply, status>>
<1>1. TypeOK /\ status[c] = "FINISHED"
  BY DEF IInv, InvStatus
<1>2. \A t \in Threads : hand[t] # None => hand[t] # c
  BY DEF IInv, InvHand
<1>3. ASSUME NEW d \in Calls, CallerStep(d)
      PROVE  done'[c] /\ err'[c] = err[c] /\ reply'[c] = reply[c] /\ status'[c] = status[c]
  <2>1. CASE Register(d) \/ TakeBack(d) \/ Return(d) \/ TimerFires(d)
    BY <2>1 DEF Register, RegisterBody, TakeBack, Return, TimerFires, callVars
  <2>2. CASE Refuse(d)
    <3>1. d # c
      BY <2>2 DEF Refuse, IInv, InvStatus
    <3> QED BY <1>1, <2>2, <3>1, SettleOther DEF Refuse
  <2>3. CASE CheckStatus(d)
    BY <1>1, <2>3 DEF CheckStatus, CheckBody, TypeOK
  <2>4. CASE Drop(d) \/ Cancel(d)
    <3>1. hand[d] # c
      BY <1>2, <2>4 DEF Drop, Cancel, IInv, InvHand
    <3> QED BY <1>1, <2>4, <3>1, SettleOther DEF Drop, Cancel
  <2> QED BY <1>3, <2>1, <2>2, <2>3, <2>4 DEF CallerStep
<1>4. ASSUME NEW t \in Threads, SenderStep(t)
      PROVE  Same
  BY <1>4 DEF SenderStep, LockSending, Write, WriteFails, callVars
<1>5. ASSUME NEW t \in Threads, CloseStep(t)
      PROVE  done'[c] /\ err'[c] = err[c] /\ reply'[c] = reply[c] /\ status'[c] = status[c]
  <2>1. CASE Terminate(t)
    <3>1. c \notin todo
      BY DEF IInv, InvClose
    <3> QED BY <1>1, <2>1, <3>1, SettleOther DEF Terminate
  <2>2. CASE CloseBegin(t) \/ CloseMark(t) \/ CloseConn(t)
    BY <2>2 DEF CloseBegin, CloseBeginBody, CloseMark, CloseConn, callVars
  <2> QED BY <1>5, <2>1, <2>2 DEF CloseStep
<1>6. ASSUME ReceiverStep
      PROVE  done'[c] /\ err'[c] = err[c] /\ reply'[c] = reply[c] /\ status'[c] = status[c]
  <2>1. CASE Read \/ ReadFails
    BY <2>1 DEF Read, ReadFails, callVars
  <2>2. CASE Deliver
    <3> DEFINE d == hand["receiver"]
    <3>1. d # c /\ status[d] = "RECEIVING"
      BY <1>2, <2>2 DEF Deliver, IInv, InvHand
    <3>2. CASE UNCHANGED <<done, reply, status>> /\ \E e : err' = [err EXCEPT ![d] = e]
      BY <1>1, <3>1, <3>2 DEF TypeOK
    <3>3. CASE \E e : Settle(d, e) /\ reply' = [reply EXCEPT ![d] = got.from]
      BY <1>1, <3>1, <3>3, SettleOther DEF TypeOK
    <3> QED BY <2>2, <3>1, <3>2, <3>3 DEF Deliver
  <2> QED BY <1>6, <2>1, <2>2 DEF ReceiverStep
<1>7. ASSUME TickerWakes \/ UserCloses \/ ServerStep PROVE Same
  BY <1>7 DEF TickerWakes, UserCloses, ServerStep, ServerReads, ServerAnswers,
     ServerVanishes, callVars
<1>8. CASE UNCHANGED vars
  BY <1>8 DEF vars, callVars
<1> QED BY <1>3, <1>4, <1>5, <1>6, <1>7, <1>8 DEF Next, Running, Stopped

(* A finished call keeps its outcome for ever. *)
THEOREM OutcomesAreFinal == Spec => FinishedIsFinal
<1>1. IInv /\ [Next]_vars =>
        [\A c \in Calls : done[c] =>
            /\ done'[c] /\ err'[c] = err[c] /\ reply'[c] = reply[c]
            /\ status'[c] = status[c]]_vars
  BY FinalStep
<1> QED BY <1>1, Invariant, PTL DEF Spec, FinishedIsFinal

-----------------------------------------------------------------------------
(* The client implements CallContract.                                     *)

(* A call that has been registered, or refused and ended, stays so.        *)
Begun(c) == pc[c] \notin {"idle", "refused"}
Stays(c) == pc'[c] = pc[c] \/ (Begun(c) /\ Begun(c)')

(* Steps that register nothing and start no cancelling of a call.          *)
LEMMA OwnQuiet ==
    ASSUME InvOwnCall, UNCHANGED <<seqOf, seq>>, closed => closed',
           \A s \in SeqNos : pending'[s] \in {pending[s], None},
           seqOf \in [Calls -> SeqNos],
           \A c \in Calls : \/ pc'[c] = pc[c] /\ hand'[c] = hand[c]
                            \/ Begun(c) /\ Begun(c)' /\ pc'[c] # "cancel"
    PROVE  InvOwnCall'
<1> SUFFICES ASSUME NEW c \in Calls
             PROVE  /\ pc'[c] = "refused" => closed'
                    /\ Begun(c)' => /\ pending'[seqOf[c]] \in {c, None}
                                    /\ closed' \/ seqOf[c] < seq
                    /\ pc'[c] = "cancel" => hand'[c] = c /\ c \in Timed
  BY DEF InvOwnCall, Begun
<1>1. seqOf[c] \in SeqNos
  OBVIOUS
<1>2. Begun(c)' => Begun(c)
  BY DEF Begun
<1>3. Begun(c) => pending[seqOf[c]] \in {c, None} /\ (closed \/ seqOf[c] < seq)
  BY DEF InvOwnCall, Begun
<1> QED BY <1>1, <1>2, <1>3 DEF InvOwnCall, Begun

(* The steps of callers.                                                   *)
LEMMA OwnCaller ==
    ASSUME IInv, InvOwnCall, NEW c \in Calls, CallerStep(c)
    PROVE  InvOwnCall'
<1>1. /\ pc \in [Threads -> CallerPCs \cup ClosePCs \cup
                    {"read", "deliver", "sleep", "using", "exit"}]
      /\ seqOf \in [Calls -> SeqNos] /\ pending \in [SeqNos -> Calls \cup {None}]
      /\ seq \in Nat /\ closed \in BOOLEAN /\ hand \in [Threads -> Calls \cup {None}]
      /\ c \in Threads /\ Calls \subseteq Threads
  BY DEF IInv, TypeOK
<1>2. CASE Register(c)
  <2>1. /\ pc[c] = "idle" /\ UNCHANGED <<closed, hand>>
        /\ \A d \in Calls : d # c => pc'[d] = pc[d]
    BY <1>1, <1>2 DEF Register, RegisterBody, Goto
  <2>2. CASE closed
    <3>1. pc'[c] = "refused" /\ UNCHANGED <<seqOf, pending, seq>>
      BY <1>1, <1>2, <2>2 DEF Register, RegisterBody, Goto
    <3> QED BY <2>1, <2>2, <3>1 DEF InvOwnCall
  <2>3. CASE ~closed
    <3>1. /\ pc'[c] = "lock" /\ seq \in SeqNos /\ seq' = seq + 1
          /\ seqOf' = [seqOf EXCEPT ![c] = seq] /\ pending' = [pending EXCEPT ![seq] = c]
      BY <1>1, <1>2, <2>3 DEF Register, RegisterBody, Goto
    <3>2. seqOf'[c] = seq /\ pending'[seq] = c /\ seq < seq'
      BY <1>1, <3>1
    <3>3. ASSUME NEW d \in Calls, d # c, pc[d] \notin {"idle", "refused"}
          PROVE  pending'[seqOf'[d]] \in {d, None} /\ seqOf'[d] < seq'
      <4>1. seqOf'[d] = seqOf[d] /\ seqOf[d] \in SeqNos /\ seqOf[d] < seq
        BY <1>1, <2>3, <3>1, <3>3 DEF InvOwnCall
      <4>2. pending'[seqOf[d]] = pending[seqOf[d]]
        BY <1>1, <3>1, <4>1 DEF SeqNos
      <4>3. seqOf[d] < seq'
        BY <1>1, <3>1, <4>1 DEF SeqNos
      <4> QED BY <3>3, <4>1, <4>2, <4>3 DEF InvOwnCall
    <3> QED BY <2>1, <2>3, <3>1, <3>2, <3>3 DEF InvOwnCall
  <2> QED BY <1>1, <2>2, <2>3
<1>3. CASE Refuse(c)
  <2>1. /\ pc[c] = "refused" /\ pc'[c] = "wait" /\ \A d \in Calls : d # c => pc'[d] = pc[d]
        /\ UNCHANGED <<seqOf, pending, seq, closed, hand>>
    BY <1>1, <1>3 DEF Refuse, Goto, clientVars
  <2>2. closed /\ pending = NoPending
    BY <2>1 DEF InvOwnCall, IInv, InvClose
  <2>3. pending[seqOf[c]] = None
    BY <1>1, <2>2 DEF NoPending
  <2> QED BY <2>1, <2>2, <2>3 DEF InvOwnCall
<1>4. CASE TimerFires(c)
  <2>1. /\ pc[c] = "wait" /\ c \in Timed /\ UNCHANGED <<seqOf, seq, closed>>
        /\ \A d \in Calls : d # c => pc'[d] = pc[d]
    BY <1>1, <1>4 DEF TimerFires, Goto
  <2>2. CASE pending[seqOf[c]] # None
    <3>1. /\ pc'[c] = "cancel" /\ hand' = [hand EXCEPT ![c] = pending[seqOf[c]]]
          /\ pending' = [pending EXCEPT ![seqOf[c]] = None]
      BY <1>1, <1>4, <2>2 DEF TimerFires, Goto, Take
    <3>2. hand'[c] = c /\ \A d \in Calls : d # c => hand'[d] = hand[d]
      BY <1>1, <2>1, <2>2, <3>1 DEF InvOwnCall
    <3>3. \A s \in SeqNos : pending'[s] \in {pending[s], None}
      BY <1>1, <3>1
    <3> QED BY <1>1, <2>1, <3>1, <3>2, <3>3 DEF InvOwnCall
  <2>3. CASE pending[seqOf[c]] = None
    BY <1>1, <1>4, <2>1, <2>3, OwnQuiet DEF TimerFires, Goto, Begun
  <2> QED BY <2>2, <2>3
<1>5. CASE CheckStatus(c) \/ Return(c)
  BY <1>1, <1>5, OwnQuiet DEF CheckStatus, CheckBody, Return, Goto, Begun, clientVars
<1>6. CASE TakeBack(c)
  <2>1. /\ Begun(c) /\ Begun(c)' /\ pc'[c] # "cancel" /\ UNCHANGED <<seqOf, seq, closed>>
        /\ \A d \in Calls : d # c => pc'[d] = pc[d]
    BY <1>1, <1>6 DEF TakeBack, Goto, Begun, callVars
  <2>2. (pending' = pending /\ hand' = hand) \/ Take(c, seqOf[c])
    BY <1>6 DEF TakeBack
  <2>3. /\ \A d \in Calls : d # c => hand'[d] = hand[d]
        /\ \A s \in SeqNos : pending'[s] \in {pending[s], None}
    BY <1>1, <2>2 DEF Take
  <2> QED BY <1>1, <2>1, <2>3, OwnQuiet
<1>7. CASE Drop(c) \/ Cancel(c)
  BY <1>1, <1>7, OwnQuiet DEF Drop, Cancel, LetGo, Goto, Begun
<1> QED BY <1>2, <1>3, <1>4, <1>5, <1>6, <1>7 DEF CallerStep

(* Every step.                                                             *)
LEMMA OwnStep == IInv /\ InvOwnCall /\ [Next]_vars => InvOwnCall'
<1> SUFFICES ASSUME IInv, InvOwnCall, [Next]_vars PROVE InvOwnCall'
  OBVIOUS
<1>1. /\ pc \in [Threads -> CallerPCs \cup ClosePCs \cup
                    {"read", "deliver", "sleep", "using", "exit"}]
      /\ seqOf \in [Calls -> SeqNos] /\ pending \in [SeqNos -> Calls \cup {None}]
      /\ hand \in [Threads -> Calls \cup {None}] /\ Calls \subseteq Threads
  BY DEF IInv, TypeOK
<1>2. ASSUME NEW t \in Calls \cup {"ticker"}, SenderStep(t) PROVE InvOwnCall'
  BY <1>1, <1>2, OwnQuiet
     DEF SenderStep, LockSending, Write, WriteFails, Goto, Begun, callVars
<1>3. ASSUME NEW t \in Threads, CloseStep(t) PROVE InvOwnCall'
  <2>1. CASE CloseBegin(t) \/ CloseConn(t)
    BY <1>1, <2>1, OwnQuiet
       DEF CloseBegin, CloseBeginBody, CloseConn, Resume, Goto, Begun, callVars
  <2>2. CASE Terminate(t)
    BY <1>1, <2>2, OwnQuiet DEF Terminate
  <2>3. CASE CloseMark(t)
    <3>1. \A s \in SeqNos : pending'[s] = None
      BY <2>3 DEF CloseMark, NoPending
    <3> QED BY <1>1, <2>3, <3>1, OwnQuiet DEF CloseMark, Goto, Begun, callVars
  <2> QED BY <1>3, <2>1, <2>2, <2>3 DEF CloseStep
<1>4. CASE ReceiverStep
  <2>1. CASE Read
    <3>1. PICK a \in answers : (pending' = pending /\ hand' = hand) \/ Take("receiver", a.seq)
      BY <2>1 DEF Read
    <3> QED BY <1>1, <2>1, <3>1, OwnQuiet DEF Read, Take, Goto, callVars
  <2>2. CASE ReadFails
    BY <1>1, <2>2, OwnQuiet DEF ReadFails, Goto, callVars, clientVars
  <2>3. CASE Deliver
    <3>1. /\ UNCHANGED <<seqOf, seq, pending, closed>>
          /\ pc' = pc \/ Goto("receiver", "read")
          /\ hand' = hand \/ LetGo("receiver")
      BY <2>3 DEF Deliver, callVars
    <3>2. \A c \in Calls : pc'[c] = pc[c] /\ hand'[c] = hand[c]
      BY <1>1, <3>1 DEF LetGo, Goto
    <3> QED BY <1>1, <3>1, <3>2, OwnQuiet
  <2> QED BY <1>4, <2>1, <2>2, <2>3 DEF ReceiverStep
<1>5. CASE TickerWakes \/ UserCloses \/ ServerStep
  BY <1>1, <1>5, OwnQuiet DEF TickerWakes, UserCloses, ServerStep, ServerReads,
     ServerAnswers, ServerVanishes, Goto, callVars, clientVars
<1>6. CASE UNCHANGED vars
  BY <1>1, <1>6, OwnQuiet DEF vars, callVars, clientVars
<1> QED BY <1>2, <1>3, <1>4, <1>5, <1>6, OwnCaller DEF Next, Running, Stopped

(* Only who ends a call, or dies, sets its error.                          *)
LEMMA SettleErr ==
    ASSUME TypeOK, InvErr, NEW d \in Calls, NEW e, Settle(d, e), crash = "no"
    PROVE  InvErr'
<1>1. done'[d] /\ \A c \in Calls : c # d => done'[c] = done[c] /\ err'[c] = err[c]
  BY DEF Settle, TypeOK
<1> QED BY <1>1 DEF InvErr

LEMMA ErrStep == IInv /\ InvErr /\ [Next]_vars => InvErr'
<1> SUFFICES ASSUME IInv, InvErr, [Next]_vars PROVE InvErr'
  OBVIOUS
<1>1. TypeOK /\ \A t \in Threads : hand[t] \in Calls \cup {None}
  BY DEF IInv, TypeOK
<1>2. CASE UNCHANGED <<err, done, crash>>
  BY <1>2 DEF InvErr
<1>3. ASSUME crash = "no", NEW c \in Calls, CallerStep(c) PROVE InvErr'
  <2>1. CASE Refuse(c)
    BY <1>1, <1>3, <2>1, SettleErr DEF Refuse
  <2>2. CASE Drop(c) \/ Cancel(c)
    <3>1. hand[c] \in Calls
      BY <1>1, <2>2 DEF Drop, Cancel, IInv, InvHand
    <3> QED BY <1>1, <1>3, <2>2, <3>1, SettleErr DEF Drop, Cancel
  <2>3. CASE \/ Register(c) \/ CheckStatus(c) \/ TakeBack(c) \/ Return(c) \/ TimerFires(c)
    BY <1>2, <2>3 DEF Register, RegisterBody, CheckStatus, CheckBody, TakeBack, Return,
       TimerFires, callVars
  <2> QED BY <1>3, <2>1, <2>2, <2>3 DEF CallerStep
<1>4. ASSUME crash = "no", NEW t \in Threads, CloseStep(t) PROVE InvErr'
  <2>1. CASE Terminate(t)
    <3>1. PICK c \in todo : Settle(c, "ErrWaitingForReceiving")
      BY <2>1 DEF Terminate
    <3> QED BY <1>1, <1>4, <3>1, SettleErr DEF TypeOK
  <2>2. CASE CloseBegin(t) \/ CloseMark(t) \/ CloseConn(t)
    BY <1>2, <2>2 DEF CloseBegin, CloseBeginBody, CloseMark, CloseConn, callVars
  <2> QED BY <1>4, <2>1, <2>2 DEF CloseStep
<1>5. ASSUME crash = "no", Deliver PROVE InvErr'
  <2>1. hand["receiver"] \in Calls
    BY <1>1, <1>5 DEF Deliver, IInv, InvHand
  <2>2. crash' # "no" \/ \E e : Settle(hand["receiver"], e)
    BY <1>5 DEF Deliver
  <2> QED BY <1>1, <1>5, <2>1, <2>2, SettleErr DEF InvErr
<1>6. CASE \/ Read \/ ReadFails \/ TickerWakes \/ UserCloses \/ ServerStep
         \/ \E t \in Calls \cup {"ticker"} : SenderStep(t)
  BY <1>2, <1>6 DEF Read, ReadFails, TickerWakes, UserCloses, ServerStep, ServerReads,
     ServerAnswers, ServerVanishes, SenderStep, LockSending, Write, WriteFails, callVars
<1>7. CASE UNCHANGED vars
  BY <1>2, <1>7 DEF vars, callVars
<1> QED BY <1>3, <1>4, <1>5, <1>6, <1>7 DEF Next, Running, Stopped, ReceiverStep

(* Both hold of every reachable state.                                     *)
LEMMA OwnAndErr == Spec => [](InvOwnCall /\ InvErr)
<1>1. Init => InvOwnCall /\ InvErr
  BY DEF Init, InvOwnCall, InvErr
<1>2. IInv /\ InvOwnCall /\ InvErr /\ [Next]_vars => (InvOwnCall /\ InvErr)'
  BY OwnStep, ErrStep
<1> QED BY <1>1, <1>2, Invariant, PTL DEF Spec

(* A call whose control stays begun and whose fields do not change keeps   *)
(* its place in the contract.                                              *)
LEMMA CallStays ==
    ASSUME NEW c \in Calls, Stays(c), done'[c] = done[c], done[c] => err'[c] = err[c]
    PROVE  CallState(c)' = CallState(c)
  BY DEF CallState, Stays, Begun

(* If that is so of every call, nothing is seen of the step.               *)
Seen == [Contract!Next]_<<CallStates, Open>>
LEMMA CallsStay ==
    ASSUME \A c \in Calls : Stays(c), UNCHANGED <<done, err>>
    PROVE  UNCHANGED CallStates
  BY CallStays DEF CallStates

(* Ending a begun call is seen as the move to its outcome.                 *)
Outcome(e) == IF e \in {"nil", "remote"} THEN "answered" ELSE e
LEMMA Settled ==
    ASSUME TypeOK, NEW d \in Calls, NEW e, Settle(d, e), Begun(d)', Begun(d), ~done[d],
           \A c \in Calls : c # d => Stays(c)
    PROVE  /\ CallStates[d] = "running"
           /\ CallStates' = [CallStates EXCEPT ![d] = Outcome(e)]
<1>1. /\ done'[d] /\ err'[d] = e
      /\ \A c \in Calls : c # d => done'[c] = done[c] /\ err'[c] = err[c]
  BY DEF Settle, TypeOK
<1>2. CallState(d) = "running" /\ CallState(d)' = Outcome(e)
  BY <1>1 DEF CallState, Begun, Outcome
<1>3. \A c \in Calls : c # d => CallState(c)' = CallState(c)
  BY <1>1 DEF CallState, Stays, Begun
<1> QED BY <1>2, <1>3 DEF CallStates

(* What a caller does is a step of the contract.                           *)
LEMMA CallerSeen ==
    ASSUME IInv, InvOwnCall, NEW c \in Calls, CallerStep(c)
    PROVE  Seen
<1>1. /\ TypeOK /\ c \in Threads /\ Calls \subseteq Threads
      /\ pc \in [Threads -> CallerPCs \cup ClosePCs \cup
                    {"read", "deliver", "sleep", "using", "exit"}]
      /\ closed \in BOOLEAN /\ hand \in [Threads -> Calls \cup {None}]
      /\ done \in [Calls -> BOOLEAN]
      /\ \A d \in Calls : pc[d] \in {"idle", "refused"} => ~done[d]
  BY DEF IInv, TypeOK, InvStatus
<1>2. /\ UNCHANGED <<closed, mu>>
      /\ \A d \in Calls : d # c => pc'[d] = pc[d]
  BY <1>1 DEF CallerStep, Register, RegisterBody, Refuse, CheckStatus, CheckBody,
     TakeBack, Drop, Return, TimerFires, Cancel, Goto, clientVars
<1>3. UNCHANGED Open /\ \A d \in Calls : d # c => Stays(d)
  BY <1>2 DEF Open, Stays
<1>4. CASE Register(c)
  <2>1. /\ pc[c] = "idle" /\ mu = None /\ UNCHANGED <<done, err>>
        /\ pc'[c] = IF closed THEN "refused" ELSE "lock"
    BY <1>1, <1>4 DEF Register, RegisterBody, MuFree, Goto
  <2>2. /\ CallState(c) = "unused"
        /\ CallState(c)' = IF Open THEN "running" ELSE "refused"
    BY <1>1, <2>1 DEF CallState, Open
  <2>3. \A d \in Calls : d # c => CallState(d)' = CallState(d)
    BY <1>3, <2>1, CallStays
  <2>4. /\ CallStates[c] = "unused"
        /\ CallStates' = [CallStates EXCEPT ![c] = IF Open THEN "running" ELSE "refused"]
    BY <2>2, <2>3 DEF CallStates
  <2>5. Contract!Issue(c)
    BY <1>3, <2>4 DEF Contract!Issue, Contract!Become
  <2> QED BY <2>5 DEF Seen, Contract!Next
<1>5. CASE Refuse(c)
  <2>1. /\ pc[c] = "refused" /\ pc'[c] = "wait" /\ Settle(c, "ErrShutdown")
    BY <1>1, <1>5 DEF Refuse, Goto
  <2>2. /\ done'[c] /\ err'[c] = "ErrShutdown"
        /\ \A d \in Calls : d # c => done'[d] = done[d] /\ err'[d] = err[d]
    BY <1>1, <2>1 DEF Settle, TypeOK
  <2>3. CallState(c) = "refused" /\ CallState(c)' = "ErrShutdown"
    BY <2>1, <2>2 DEF CallState
  <2>4. \A d \in Calls : d # c => CallState(d)' = CallState(d)
    BY <1>3, <2>2, CallStays
  <2>5. /\ CallStates[c] = "refused"
        /\ CallStates' = [CallStates EXCEPT ![c] = "ErrShutdown"]
    BY <2>3, <2>4 DEF CallStates
  <2>6. Contract!Refuse(c)
    BY <1>3, <2>5 DEF Contract!Refuse, Contract!Become
  <2> QED BY <2>6 DEF Seen, Contract!Next, Contract!End
<1>6. CASE Drop(c)
  <2>1. /\ pc[c] = "drop" /\ pc'[c] = "close" /\ Settle(hand[c], "ErrShutdown")
    BY <1>1, <1>6 DEF Drop, Goto
  <2>2. PICK d \in Calls : d = hand[c]
    BY <1>1, <2>1 DEF IInv, InvHand
  <2>3. Begun(d) /\ ~done[d]
    BY <1>1, <2>1, <2>2 DEF IInv, InvHand, Begun
  <2>4. Begun(d)' /\ \A x \in Calls : Stays(x)
    BY <1>2, <2>1, <2>3 DEF Stays, Begun
  <2>5. /\ CallStates[d] = "running"
        /\ CallStates' = [CallStates EXCEPT ![d] = "ErrShutdown"]
    BY <1>1, <2>1, <2>2, <2>3, <2>4, Settled DEF Outcome
  <2>6. Contract!NotSent(d)
    BY <1>3, <2>5 DEF Contract!NotSent, Contract!Become
  <2> QED BY <2>6 DEF Seen, Contract!Next, Contract!End
<1>7. CASE Cancel(c)
  <2>1. /\ pc[c] = "cancel" /\ pc'[c] = "returned"
        /\ Settle(hand[c], "ErrWaitingForReceiving")
    BY <1>1, <1>7 DEF Cancel, Goto
  <2>2. hand[c] = c /\ c \in Timed /\ ~done[c] /\ Begun(c) /\ Begun(c)'
    BY <1>1, <2>1 DEF InvOwnCall, IInv, InvHand, Begun
  <2>3. /\ CallStates[c] = "running"
        /\ CallStates' = [CallStates EXCEPT ![c] = "ErrWaitingForReceiving"]
    BY <1>1, <1>3, <2>1, <2>2, Settled DEF Outcome
  <2>4. Contract!Cancel(c)
    BY <1>3, <2>2, <2>3 DEF Contract!Cancel, Contract!Become
  <2> QED BY <2>4 DEF Seen, Contract!Next, Contract!End
<1>8. CASE CheckStatus(c) \/ TakeBack(c) \/ Return(c) \/ TimerFires(c)
  <2>1. Stays(c) /\ UNCHANGED <<done, err>>
    BY <1>1, <1>8 DEF CheckStatus, CheckBody, TakeBack, Return, TimerFires, Goto, Stays,
       Begun, callVars
  <2>2. UNCHANGED CallStates
    BY <1>3, <2>1, CallsStay
  <2> QED BY <1>3, <2>2 DEF Seen
<1> QED BY <1>4, <1>5, <1>6, <1>7, <1>8 DEF CallerStep

(* So is what a Close does: it shuts the client before it ends a call.     *)
LEMMA CloseSeen ==
    ASSUME IInv, NEW t \in Threads, CloseStep(t)
    PROVE  Seen
<1>1. /\ TypeOK /\ Calls \subseteq Threads
      /\ pc \in [Threads -> CallerPCs \cup ClosePCs \cup
                    {"read", "deliver", "sleep", "using", "exit"}]
  BY DEF IInv, TypeOK
<1>2. \A c \in Calls : Stays(c)
  BY <1>1 DEF CloseStep, CloseBegin, CloseBeginBody, Terminate, CloseMark, CloseConn,
     Resume, Goto, Stays, Begun
<1>3. CASE Terminate(t)
  <2>1. PICK c \in todo : Settle(c, "ErrWaitingForReceiving")
    BY <1>3 DEF Terminate
  <2>2. mu # None /\ UNCHANGED <<mu, closed>> /\ UNCHANGED pc
    BY <1>3 DEF Terminate, IInv, InvClose
  <2>3. c \in Calls /\ ~done[c] /\ c \in PendingCalls
    BY DEF IInv, InvClose, TypeOK
  <2>4. Begun(c) /\ Begun(c)'
    BY <2>2, <2>3 DEF IInv, InvPending, PendingCalls, Begun
  <2>5. /\ CallStates[c] = "running"
        /\ CallStates' = [CallStates EXCEPT ![c] = "ErrWaitingForReceiving"]
    BY <1>1, <1>2, <2>1, <2>3, <2>4, Settled DEF Outcome
  <2>6. ~Open /\ UNCHANGED Open
    BY <2>2 DEF Open
  <2>7. Contract!Cancel(c)
    BY <2>5, <2>6 DEF Contract!Cancel, Contract!Become
  <2> QED BY <2>3, <2>7 DEF Seen, Contract!Next, Contract!End
<1>4. CASE CloseBegin(t) \/ CloseMark(t) \/ CloseConn(t)
  <2>1. UNCHANGED CallStates
    BY <1>2, <1>4, CallsStay
       DEF CloseBegin, CloseBeginBody, CloseMark, CloseConn, callVars
  <2>2. UNCHANGED Open \/ (Open /\ ~Open')
    <3>1. CASE CloseMark(t)
      BY <3>1 DEF CloseMark, IInv, InvClose, Open
    <3>2. CASE CloseBegin(t) \/ CloseConn(t)
      BY <3>2 DEF CloseBegin, CloseBeginBody, CloseConn, MuFree, Open
    <3> QED BY <1>4, <3>1, <3>2
  <2>3. (Open /\ ~Open') => Contract!Shut
    BY <2>1 DEF Contract!Shut, Open
  <2> QED BY <2>1, <2>2, <2>3 DEF Seen, Contract!Next
<1> QED BY <1>3, <1>4 DEF CloseStep

(* The receiver answers one running call, or dies.                         *)
LEMMA DeliverSeen ==
    ASSUME IInv, InvErr, crash = "no", Deliver
    PROVE  Seen
<1>0. PICK d \in Calls : d = hand["receiver"]
  BY DEF Deliver, IInv, TypeOK, InvHand
<1>1. /\ TypeOK /\ Begun(d) /\ ~done[d] /\ UNCHANGED <<closed, mu>>
      /\ err[d] = "nil"
  BY <1>0 DEF Deliver, IInv, InvHand, InvErr, Begun
<1>2. UNCHANGED Open /\ \A c \in Calls : pc'[c] = pc[c]
  <2>1. pc' = pc \/ Goto("receiver", "read")
    BY DEF Deliver
  <2> QED BY <1>1, <2>1 DEF Open, Goto, TypeOK
<1>3. CASE \E e \in {"nil", "remote"} : Settle(d, e)
  <2>1. PICK e \in {"nil", "remote"} : Settle(d, e)
    BY <1>3
  <2>2. Begun(d)' /\ \A c \in Calls : Stays(c)
    BY <1>1, <1>2 DEF Begun, Stays
  <2>3. /\ CallStates[d] = "running"
        /\ CallStates' = [CallStates EXCEPT ![d] = Outcome(e)]
    BY <1>1, <2>1, <2>2, Settled
  <2>4. Contract!Answer(d)
    BY <1>2, <2>3 DEF Outcome, Contract!Answer, Contract!Become
  <2> QED BY <1>1, <2>4 DEF Seen, Contract!Next, Contract!End
<1>4. CASE UNCHANGED done /\ \E e : err' \in {err, [err EXCEPT ![d] = e]}
  <2>1. \A c \in Calls : done'[c] = done[c] /\ (done[c] => err'[c] = err[c])
    BY <1>1, <1>4 DEF TypeOK
  <2>2. \A c \in Calls : Stays(c)
    BY <1>2 DEF Stays
  <2>3. UNCHANGED CallStates
    BY <2>1, <2>2, CallStays DEF CallStates
  <2> QED BY <1>2, <2>3 DEF Seen
<1> QED BY <1>0, <1>1, <1>3, <1>4 DEF Deliver, callVars

(* Nobody else is seen.                                                    *)
LEMMA OthersUnseen ==
    ASSUME TypeOK,
           \/ Read \/ ReadFails \/ TickerWakes \/ UserCloses \/ ServerStep
           \/ \E t \in Calls \cup {"ticker"} : SenderStep(t)
           \/ UNCHANGED vars
    PROVE  Seen
<1>1. UNCHANGED <<err, done, closed, mu>>
  BY DEF Read, ReadFails, TickerWakes, UserCloses, ServerStep, ServerReads,
     ServerAnswers, ServerVanishes, SenderStep, LockSending, Write, WriteFails, Take,
     vars, callVars, clientVars
<1>2. \A c \in Calls : Stays(c)
  <2>0. /\ Calls \subseteq Threads
        /\ pc \in [Threads -> CallerPCs \cup ClosePCs \cup
                      {"read", "deliver", "sleep", "using", "exit"}]
    BY DEF TypeOK
  <2>1. CASE \E t \in Calls \cup {"ticker"} : SenderStep(t)
    BY <2>0, <2>1 DEF SenderStep, LockSending, Write, WriteFails, Goto, Stays, Begun
  <2>2. CASE Read \/ ReadFails \/ TickerWakes \/ UserCloses
    <3>1. \/ pc' = pc \/ Goto("receiver", "deliver") \/ Goto("receiver", "close")
          \/ Goto("ticker", "lock") \/ Goto("user", "close")
      BY <2>2 DEF Read, ReadFails, TickerWakes, UserCloses
    <3> QED BY <2>0, <3>1 DEF Goto, Stays
  <2>3. CASE ServerStep \/ UNCHANGED vars
    BY <2>3 DEF ServerStep, ServerReads, ServerAnswers, ServerVanishes, Stays, vars
  <2> QED BY <2>1, <2>2, <2>3
<1>3. UNCHANGED <<CallStates, Open>>
  BY <1>1, <1>2, CallsStay DEF Open
<1> QED BY <1>3 DEF Seen

(* The client implements its contract: every call is issued once and ends  *)
(* once, answered, not written, or cancelled by its own timer or by a      *)
(* client that a Close has shut before, and later calls are refused.       *)
THEOREM ImplementsCallContract == Spec => ImplementsContract
<1>1. Init => Contract!Init
  BY DEF Init, Contract!Init, CallStates, CallState, Open
<1>2. IInv /\ InvOwnCall /\ InvErr /\ [Next]_vars => Seen
  BY CallerSeen, CloseSeen, DeliverSeen, OthersUnseen
     DEF Next, Running, Stopped, ReceiverStep, IInv
<1>3. Seen => [Contract!Next]_<<CallStates, Open>>
  BY DEF Seen
<1> QED BY <1>1, <1>2, <1>3, Invariant, OwnAndErr, PTL
    DEF Spec, ImplementsContract, Contract!Spec

-----------------------------------------------------------------------------
(* No call is ever stuck: the half of EveryCallReturns that needs no       *)
(* fairness.                                                               *)

(* Where a thread can stand. *)
PlaceOf(t) ==
    CASE t = "receiver" -> {"read", "deliver", "exit"} \cup ClosePCs
      [] t = "ticker" -> {"sleep", "lock", "write", "exit"} \cup ClosePCs
      [] t = "user" -> {"using", "exit"} \cup ClosePCs
      [] OTHER -> CallerPCs \cup ClosePCs
Places == \A t \in Threads : pc[t] \in PlaceOf(t)

(* The sending lock is held by the one thread that is inside send, from    *)
(* its check to its return, or between the ticker's Lock and Unlock.       *)
InSend(t) ==
    IF t \in Calls
    THEN pc[t] \in {"check", "write", "failed", "drop", "close", "terminate", "closeconn"}
    ELSE t = "ticker" /\ pc[t] = "write"
InvSending == \A t \in Threads : sending = t <=> InSend(t)

(* Who has passed the marking of Close stands in a closed client, and the  *)
(* receiver ends only through Close.                                       *)
InvMarked ==
    /\ \A t \in Threads : pc[t] = "closeconn" => closed
    /\ pc["receiver"] = "exit" => closed

(* A pending call whose send has returned has its message on its way to    *)
(* the server or back, unless the receiver has given the connection up.    *)
Unwinding == pc["receiver"] \in {"exit"} \cup ClosePCs
Waiting(c) == c \in PendingCalls /\ ~done[c] /\ pc[c] = "wait"
Underway(c) == \E e \in Traffic : e.of = c /\ e.seq = seqOf[c]
InvSent == \A c \in Calls : Waiting(c) /\ conn = "up" /\ ~Unwinding => Underway(c)

(* The thread can take its next step, whatever the server does. *)
CanMove(t) ==
    \/ pc[t] \in {"refused", "check", "drop", "cancel", "deliver", "terminate", "closeconn"}
    \/ pc[t] = "lock" /\ sending = None
    \/ pc[t] = "write" /\ (conn # "up" \/ Len(wire) < WireCap)
    \/ pc[t] \in {"failed", "close"} /\ mu = None
    \/ pc[t] = "wait" /\ done[t]
    \/ pc[t] = "read" /\ conn # "up"

(* A call that has not returned can move, or the thread it waits for can:  *)
(* the holder of mu or of the sending lock, the thread that has the call   *)
(* in its hand, the receiver that has to unwind.  On a connection that     *)
(* stands it may also wait for the server to read, or to answer it.        *)
NeverStuck ==
    crash = "no" => \A c \in Calls : pc[c] \notin {"idle", "returned"} =>
        \/ CanMove(c)
        \/ mu # None /\ CanMove(mu)
        \/ pc[c] = "lock" /\ sending # None /\ CanMove(sending)
        \/ pc[c] = "wait" /\ \E t \in Threads : hand[t] = c /\ CanMove(t)
        \/ pc[c] = "wait" /\ CanMove("receiver")
        \/ conn = "up" /\ pc[c] \in {"lock", "write"} /\ wire # <<>>
        \/ conn = "up" /\ pc[c] = "wait" /\ Underway(c)

(* The frames of two senders are never mixed on the connection. *)
OneWriter == \A t, u \in Threads : pc[t] = "write" /\ pc[u] = "write" => t = u

(* Close leaves no call behind: what is unfinished in a closed client is   *)
(* in the hand of a thread that is about to end it.                        *)
ClosedLeavesNoCall ==
    closed => \A c \in Calls : pc[c] \notin {"idle", "refused"} /\ ~done[c] =>
        \E t \in Threads : hand[t] = c /\ pc[t] \in {"cancel", "drop", "deliver"}

(* A step of one thread keeps the places and the lock if it moves the      *)
(* thread to one of its places and takes or releases the lock with it.     *)
LockInv == Places /\ InvSending /\ InvMarked
LEMMA LockStep ==
    ASSUME TypeOK, LockInv, NEW t \in Threads, NEW l \in PlaceOf(t), Goto(t, l),
           closed => closed', l = "closeconn" => closed',
           t = "receiver" /\ l = "exit" => closed',
           \/ sending' = sending /\ (InSend(t)' <=> InSend(t))
           \/ sending = None /\ sending' = t /\ InSend(t)'
           \/ sending' = None /\ InSend(t) /\ ~InSend(t)'
    PROVE  LockInv'
<1>1. pc'[t] = l /\ \A u \in Threads : u # t => pc'[u] = pc[u]
  BY Types DEF Goto
<1>2. Places'
  BY <1>1 DEF LockInv, Places
<1>3. InvMarked'
  BY <1>1 DEF LockInv, InvMarked
<1>4. InvSending'
  <2>1. \A u \in Threads : u # t => (InSend(u)' <=> InSend(u))
    BY <1>1 DEF InSend
  <2>2. None \notin Threads
    OBVIOUS
  <2> QED BY <2>1, <2>2 DEF LockInv, InvSending
<1> QED BY <1>2, <1>3, <1>4 DEF LockInv

(* Steps that move nobody. *)
LEMMA LockStays ==
    ASSUME LockInv, UNCHANGED <<pc, sending>>, closed => closed'
    PROVE  LockInv'
  BY DEF LockInv, Places, InvSending, InvMarked, InSend

LEMMA CallPlaces == \A c \in Calls : PlaceOf(c) = CallerPCs \cup ClosePCs
  BY DEF PlaceOf

(* The steps of callers and of senders. *)
LEMMA LockCaller ==
    ASSUME TypeOK, LockInv, NEW c \in Calls, CallerStep(c)
    PROVE  LockInv'
<1>1. /\ c \in Threads /\ PlaceOf(c) = CallerPCs \cup ClosePCs
      /\ pc[c] \in PlaceOf(c) /\ (sending = c <=> InSend(c)) /\ c # "receiver"
  BY CallPlaces DEF LockInv, Places, InvSending
<1>6. closed' = closed
  BY DEF CallerStep, Register, RegisterBody, Refuse, CheckStatus, CheckBody, TakeBack, Drop,
     Return, TimerFires, Cancel, clientVars
<1>7. \A l : Goto(c, l) => pc'[c] = l
  BY <1>1, Types DEF Goto
<1> USE DEF CallerPCs, ClosePCs
<1>2. CASE Register(c) \/ Refuse(c)
  <2>1. \E l \in {"refused", "lock", "wait"} :
           Goto(c, l) /\ pc[c] \in {"idle", "refused"} /\ sending' = sending
    BY <1>2 DEF Register, RegisterBody, Refuse, clientVars
  <2> QED BY <1>1, <1>6, <1>7, <2>1, LockStep DEF InSend
<1>3. CASE CheckStatus(c)
  <2>1. /\ pc[c] = "check"
        /\ \/ Goto(c, "wait") /\ sending' = None
           \/ Goto(c, "write") /\ sending' = sending
    BY <1>3 DEF CheckStatus, CheckBody
  <2> QED BY <1>1, <1>6, <1>7, <2>1, LockStep DEF InSend
<1>4. CASE TakeBack(c) \/ Drop(c)
  <2>1. /\ pc[c] \in {"failed", "drop"} /\ sending' = sending
        /\ Goto(c, "drop") \/ Goto(c, "close")
    BY <1>4 DEF TakeBack, Drop
  <2> QED BY <1>1, <1>6, <1>7, <2>1, LockStep DEF InSend
<1>5. CASE Return(c) \/ TimerFires(c) \/ Cancel(c)
  <2>1. /\ pc[c] \in {"wait", "cancel"} /\ sending' = sending
        /\ Goto(c, "cancel") \/ Goto(c, "returned")
    BY <1>5 DEF Return, TimerFires, Cancel, clientVars
  <2> QED BY <1>1, <1>6, <1>7, <2>1, LockStep DEF InSend
<1> QED BY <1>2, <1>3, <1>4, <1>5 DEF CallerStep

LEMMA LockSender ==
    ASSUME TypeOK, LockInv, NEW t \in Calls \cup {"ticker"}, SenderStep(t)
    PROVE  LockInv'
<1>1. /\ t \in Threads /\ (sending = t <=> InSend(t)) /\ t # "receiver"
      /\ t \in Calls => PlaceOf(t) = CallerPCs \cup ClosePCs
      /\ t \notin Calls => t = "ticker"
  BY CallPlaces DEF LockInv, InvSending
<1>5. PlaceOf("ticker") = {"sleep", "lock", "write", "exit"} \cup ClosePCs
  BY DEF PlaceOf
<1>6. closed' = closed
  BY DEF SenderStep, LockSending, Write, WriteFails
<1>7. \A l : Goto(t, l) => pc'[t] = l
  BY <1>1, Types DEF Goto
<1> USE DEF CallerPCs, ClosePCs
<1>2. CASE LockSending(t)
  <2>1. /\ pc[t] = "lock" /\ sending = None /\ sending' = t
        /\ Goto(t, IF t \in Calls THEN "check" ELSE "write")
    BY <1>2 DEF LockSending
  <2> QED BY <1>1, <1>5, <1>6, <1>7, <2>1, LockStep DEF InSend
<1>3. CASE Write(t)
  <2>1. /\ pc[t] = "write" /\ sending' = None
        /\ Goto(t, IF t \in Calls THEN "wait" ELSE "sleep")
    BY <1>3 DEF Write
  <2> QED BY <1>1, <1>5, <1>6, <1>7, <2>1, LockStep DEF InSend
<1>4. CASE WriteFails(t)
  <2>1. /\ pc[t] = "write"
        /\ IF t \in Calls THEN Goto(t, "failed") /\ sending' = sending
                          ELSE Goto(t, "close") /\ sending' = None
    BY <1>4 DEF WriteFails
  <2> QED BY <1>1, <1>5, <1>6, <1>7, <2>1, LockStep DEF InSend
<1> QED BY <1>2, <1>3, <1>4 DEF SenderStep

(* The steps of Close, whoever runs it. *)
LEMMA LockClose ==
    ASSUME TypeOK, LockInv, NEW t \in Threads, CloseStep(t)
    PROVE  LockInv'
<1>1. /\ sending = t <=> InSend(t)
      /\ pc[t] = "closeconn" => closed
  BY DEF LockInv, InvSending, InvMarked
<1>7. \A l : Goto(t, l) => pc'[t] = l
  BY Types DEF Goto
<1>6. /\ t \in Calls => "wait" \in PlaceOf(t)
      /\ t \notin Calls => "exit" \in PlaceOf(t)
      /\ ClosePCs \subseteq PlaceOf(t)
  BY CallPlaces DEF PlaceOf, Threads, Helpers, CallerPCs
<1> USE DEF ClosePCs
<1>2. CASE closed /\ Resume(t) /\ closed' = closed /\ pc[t] \in {"close", "closeconn"}
  BY <1>1, <1>2, <1>6, <1>7, LockStep DEF Resume, InSend
<1>3. CASE CloseBegin(t) /\ ~closed
  <2>1. pc[t] = "close" /\ Goto(t, "terminate") /\ sending' = sending /\ closed' = closed
    BY <1>3 DEF CloseBegin, CloseBeginBody
  <2> QED BY <1>1, <1>6, <1>7, <2>1, LockStep DEF InSend
<1>4. CASE Terminate(t)
  BY <1>4, LockStays DEF Terminate
<1>5. CASE CloseMark(t)
  <2>1. pc[t] = "terminate" /\ Goto(t, "closeconn") /\ sending' = sending /\ closed'
    BY <1>5 DEF CloseMark
  <2> QED BY <1>1, <1>6, <1>7, <2>1, LockStep DEF InSend
<1> QED BY <1>1, <1>2, <1>3, <1>4, <1>5
     DEF CloseStep, CloseBegin, CloseBeginBody, CloseConn

(* The receiver ends what it delivers in one step. *)
LEMMA DeliverMoves ==
    ASSUME Deliver
    PROVE  /\ pc' = pc \/ Goto("receiver", "read")
           /\ UNCHANGED <<seqOf, pending, closed, sending, netVars>>
<1>1. pc' = pc \/ Goto("receiver", "read")
  BY DEF Deliver, callVars
<1>2. UNCHANGED <<pending, closed, sending, netVars>>
  BY DEF Deliver
<1>3. seqOf' = seqOf
  BY DEF Deliver, callVars
<1> QED BY <1>1, <1>2, <1>3

(* Every step. *)
LEMMA LockInvStep == TypeOK /\ LockInv /\ [Next]_vars => LockInv'
<1> SUFFICES ASSUME TypeOK, LockInv, [Next]_vars PROVE LockInv'
  OBVIOUS
<1>1. /\ "receiver" \in Threads /\ "ticker" \in Threads /\ "user" \in Threads
      /\ \A t \in Threads : \A l : Goto(t, l) => pc'[t] = l
  BY Types DEF Goto
<1>6. /\ {"read", "close", "deliver"} \subseteq PlaceOf("receiver")
      /\ "lock" \in PlaceOf("ticker") /\ "close" \in PlaceOf("user")
  BY DEF PlaceOf, ClosePCs
<1>2. CASE ReceiverStep
  <2>1. /\ UNCHANGED <<sending, closed>>
        /\ pc' = pc \/ \E l \in {"read", "close", "deliver"} : Goto("receiver", l)
    <3>1. CASE Read
      BY <3>1 DEF Read
    <3>2. CASE ReadFails
      BY <3>2 DEF ReadFails, clientVars
    <3>3. CASE Deliver
      BY <3>3, DeliverMoves
    <3> QED BY <1>2, <3>1, <3>2, <3>3 DEF ReceiverStep
  <2> QED BY <1>1, <1>6, <2>1, LockStep, LockStays DEF InSend
<1>3. CASE TickerWakes
  BY <1>1, <1>3, <1>6, LockStep DEF TickerWakes, InSend, clientVars
<1>4. CASE UserCloses
  BY <1>1, <1>4, <1>6, LockStep DEF UserCloses, InSend, clientVars
<1>5. CASE ServerStep \/ UNCHANGED vars
  BY <1>5, LockStays DEF ServerStep, ServerReads, ServerAnswers, ServerVanishes, vars, clientVars
<1> QED BY <1>2, <1>3, <1>4, <1>5, LockCaller, LockSender, LockClose DEF Next, Running, Stopped

(* Steps that start no waiting, lose no message and revive no connection   *)
(* keep the messages where they have to be.                                *)
LEMMA SentStep ==
    ASSUME InvSent, conn' = "up" => conn = "up", Unwinding => Unwinding',
           \A c \in Calls : Waiting(c)' /\ conn' = "up" /\ ~Unwinding' =>
                Underway(c)' \/ (Waiting(c) /\ (Underway(c) => Underway(c)'))
    PROVE  InvSent'
  BY DEF InvSent

(* Messages stay where they are while the network does not step. *)
LEMMA UnderwayStays ==
    ASSUME UNCHANGED netVars, NEW c \in Calls, seqOf'[c] = seqOf[c]
    PROVE  Underway(c) => Underway(c)'
  BY SameTraffic DEF Underway

(* A step that lets no call begin to wait, and steps no network. *)
LEMMA SentQuiet ==
    ASSUME InvSent, UNCHANGED netVars, Unwinding => Unwinding',
           \A c \in Calls : Waiting(c)' => Waiting(c) /\ seqOf'[c] = seqOf[c]
    PROVE  InvSent'
<1>1. conn' = conn
  BY DEF netVars
<1> QED BY <1>1, SentStep, UnderwayStays

(* No call begins to wait when a thread moves somewhere else, and takes    *)
(* calls out of pending or ends them.                                      *)
LEMMA WaitQuiet ==
    ASSUME TypeOK, NEW t \in Threads, NEW l, Goto(t, l), l # "wait",
           \A s \in SeqNos : pending'[s] \in {pending[s], None},
           \A c \in Calls : done[c] => done'[c]
    PROVE  \A c \in Calls : Waiting(c)' => Waiting(c)
<1> SUFFICES ASSUME NEW c \in Calls, Waiting(c)' PROVE Waiting(c)
  OBVIOUS
<1>1. c \in Threads /\ pc[c] = "wait"
  BY Types DEF Waiting, Goto
<1>2. c \in PendingCalls
  BY DEF Waiting, PendingCalls
<1> QED BY <1>1, <1>2 DEF Waiting

(* Ending a call only adds to the calls that are done. *)
LEMMA SettleDone ==
    ASSUME TypeOK, NEW d \in Calls, NEW e, Settle(d, e)
    PROVE  done'[d] /\ \A c \in Calls : done[c] => done'[c]
  BY Types DEF Settle

(* The receiver's place is its own. *)
LEMMA OthersUnwind ==
    ASSUME TypeOK, NEW t \in Threads, t # "receiver", NEW l, Goto(t, l)
    PROVE  Unwinding' <=> Unwinding
  BY Types DEF Unwinding, Goto

(* Where callers keep the messages.                                        *)
LEMMA SentCaller ==
    ASSUME IInv, InvSent, NEW c \in Calls, CallerStep(c)
    PROVE  InvSent'
<1>1. /\ TypeOK /\ c \in Threads /\ c # "receiver"
      /\ pending \in [SeqNos -> Calls \cup {None}] /\ seqOf \in [Calls -> SeqNos]
      /\ pc \in [Threads -> CallerPCs \cup ClosePCs \cup
                    {"read", "deliver", "sleep", "using", "exit"}]
  BY Types DEF IInv
<1>2. CASE Register(c)
  <2>1. /\ Goto(c, "refused") \/ Goto(c, "lock")
        /\ UNCHANGED <<done, netVars>>
        /\ \A d \in Calls : d # c => seqOf'[d] = seqOf[d]
        /\ \A s \in SeqNos : pending'[s] \in {pending[s], c}
    BY <1>1, <1>2 DEF Register, RegisterBody
  <2>2. pc'[c] # "wait" /\ \A d \in Calls : d # c => pc'[d] = pc[d]
    BY <1>1, <2>1 DEF Goto
  <2>3. ASSUME NEW d \in Calls, Waiting(d)' PROVE Waiting(d) /\ seqOf'[d] = seqOf[d]
    <3>1. d # c /\ pc[d] = "wait" /\ ~done[d]
      BY <2>1, <2>2, <2>3 DEF Waiting
    <3>2. d \in PendingCalls
      BY <2>1, <2>3, <3>1 DEF Waiting, PendingCalls
    <3> QED BY <2>1, <3>1, <3>2 DEF Waiting
  <2> QED BY <1>1, <2>1, <2>3, SentQuiet, OthersUnwind
<1>3. CASE Refuse(c)
  <2>1. /\ Settle(c, "ErrShutdown") /\ Goto(c, "wait")
        /\ UNCHANGED <<pending, seqOf, netVars>>
    BY <1>3 DEF Refuse, clientVars
  <2>2. ASSUME NEW d \in Calls, Waiting(d)' PROVE Waiting(d)
    <3>1. d # c /\ ~done[d]
      BY <1>1, <2>1, <2>2, SettleDone DEF Waiting
    <3>2. pc[d] = "wait"
      BY <1>1, <2>1, <2>2, <3>1 DEF Waiting, Goto
    <3> QED BY <2>1, <2>2, <3>1, <3>2 DEF Waiting, PendingCalls
  <2> QED BY <1>1, <2>1, <2>2, SentQuiet, OthersUnwind
<1>4. CASE CheckStatus(c) /\ status[c] = "FINISHED"
  <2>1. /\ Goto(c, "wait") /\ UNCHANGED <<done, pending, seqOf, netVars>> /\ done[c]
    BY <1>1, <1>4 DEF CheckStatus, CheckBody, IInv, InvStatus
  <2>2. ASSUME NEW d \in Calls, Waiting(d)' PROVE Waiting(d)
    <3>1. d # c
      BY <2>1, <2>2 DEF Waiting
    <3>2. pc[d] = "wait"
      BY <1>1, <2>1, <2>2, <3>1 DEF Waiting, Goto
    <3> QED BY <2>1, <2>2, <3>2 DEF Waiting, PendingCalls
  <2> QED BY <1>1, <2>1, <2>2, SentQuiet, OthersUnwind
<1>5. CASE CheckStatus(c) /\ status[c] # "FINISHED"
  <2>1. /\ Goto(c, "write") /\ UNCHANGED <<done, pending, seqOf, netVars>>
    BY <1>5 DEF CheckStatus, CheckBody
  <2> QED BY <1>1, <2>1, SentQuiet, OthersUnwind, WaitQuiet
<1>6. CASE TakeBack(c) \/ TimerFires(c) \/ Return(c)
  <2>1. /\ \E l \in {"drop", "close", "cancel", "returned"} : Goto(c, l)
        /\ UNCHANGED <<done, seqOf, netVars>>
        /\ pending' = pending \/ Take(c, seqOf[c])
    BY <1>6 DEF TakeBack, TimerFires, Return, callVars, clientVars
  <2>2. \A s \in SeqNos : pending'[s] \in {pending[s], None}
    BY <1>1, <2>1 DEF Take
  <2> QED BY <1>1, <2>1, <2>2, SentQuiet, OthersUnwind, WaitQuiet
<1>7. CASE Drop(c) \/ Cancel(c)
  <2>1. /\ \E l \in {"close", "returned"} : Goto(c, l)
        /\ \E e : Settle(hand[c], e)
        /\ UNCHANGED <<pending, seqOf, netVars>>
    BY <1>7 DEF Drop, Cancel
  <2>2. hand[c] \in Calls
    BY <1>1, <1>7, Types DEF Drop, Cancel, IInv, InvHand
  <2> QED BY <1>1, <2>1, <2>2, SentQuiet, OthersUnwind, WaitQuiet, SettleDone
<1> QED BY <1>2, <1>3, <1>4, <1>5, <1>6, <1>7 DEF CallerStep

(* Whose write succeeds has put its message on the wire. *)
LEMMA SentSender ==
    ASSUME IInv, InvSent, NEW t \in Calls \cup {"ticker"}, SenderStep(t)
    PROVE  InvSent'
<1>1. TypeOK /\ t \in Threads /\ t # "receiver"
  BY DEF IInv
<1>2. CASE LockSending(t) \/ WriteFails(t)
  <2>1. /\ \E l \in {"check", "write", "failed", "close"} : Goto(t, l)
        /\ UNCHANGED <<done, seqOf, netVars, pending>>
    BY <1>2 DEF LockSending, WriteFails, callVars
  <2> QED BY <1>1, <2>1, SentQuiet, OthersUnwind, WaitQuiet
<1>3. CASE Write(t) /\ conn # "up"
  BY <1>3 DEF Write, InvSent
<1>4. CASE Write(t) /\ conn = "up"
  <2> DEFINE m == IF t \in Calls THEN [seq |-> seqOf[t], of |-> t] ELSE Tick
             Msgs == [seq : SeqNos, of : Calls] \cup {Tick}
  <2>1. /\ wire' = Append(wire, m)
        /\ Goto(t, IF t \in Calls THEN "wait" ELSE "sleep")
        /\ UNCHANGED <<done, seqOf, pending, serving, answers>>
    BY <1>4 DEF Write, Transmit, callVars
  <2>2. wire \in Seq(Msgs) /\ m \in Msgs
    BY <1>1, Types DEF TypeOK
  <2>3. /\ \A i \in DOMAIN wire : \E j \in DOMAIN wire' : wire'[j] = wire[i]
        /\ \E j \in DOMAIN wire' : wire'[j] = m
    <3> HIDE DEF m, Msgs
    <3>1. Len(wire') = Len(wire) + 1 /\ wire'[Len(wire) + 1] = m
      BY <2>1, <2>2
    <3>2. \A i \in DOMAIN wire : i \in DOMAIN wire' /\ wire'[i] = wire[i]
      BY <2>1, <2>2
    <3>3. Len(wire) + 1 \in DOMAIN wire'
      BY <2>1, <2>2
    <3> QED BY <3>1, <3>2, <3>3
  <2>4. Traffic \subseteq Traffic' /\ (m # Tick => m \in Traffic')
    <3> HIDE DEF m
    <3> QED BY <2>1, <2>3 DEF Traffic, Entries
  <2>5. ASSUME NEW c \in Calls, Waiting(c)'
        PROVE  Underway(c)' \/ (Waiting(c) /\ (Underway(c) => Underway(c)'))
    <3>1. CASE c = t
      <4>1. m = [seq |-> seqOf[c], of |-> c] /\ m # Tick
        BY <3>1 DEF Tick
      <4> QED BY <2>1, <2>4, <4>1 DEF Underway
    <3>2. CASE c # t
      <4>1. pc[c] = "wait"
        BY <1>1, <2>1, <2>5, <3>2, Types DEF Waiting, Goto
      <4>2. Waiting(c)
        BY <2>1, <2>5, <4>1 DEF Waiting, PendingCalls
      <4> QED BY <2>1, <2>4, <4>2 DEF Underway
    <3> QED BY <3>1, <3>2
  <2>6. Unwinding' <=> Unwinding
    BY <1>1, <2>1, OthersUnwind
  <2> QED BY <1>4, <2>5, <2>6, SentStep
<1> QED BY <1>2, <1>3, <1>4 DEF SenderStep

(* Close ends every pending call before anybody returns to its wait. *)
LEMMA SentClose ==
    ASSUME IInv, InvSent, NEW t \in Threads, CloseStep(t)
    PROVE  InvSent'
<1>1. TypeOK /\ (closed => PendingCalls = {})
  BY DEF IInv, InvClose, NoPending, PendingCalls
<1>2. CASE CloseConn(t)
  BY <1>2 DEF CloseConn, InvSent
<1>3. CASE CloseBegin(t) /\ closed
  <2>1. pending' = pending /\ netVars' = netVars
        /\ \E l \in {"wait", "exit"} : Goto(t, l) /\ (t \notin Calls => l = "exit")
    BY <1>3 DEF CloseBegin, CloseBeginBody, Resume
  <2>2. Unwinding => Unwinding'
    BY <1>1, <2>1, Types DEF Unwinding, Goto
  <2>3. \A c \in Calls : ~Waiting(c)'
    BY <1>1, <1>3, <2>1 DEF Waiting, PendingCalls
  <2> QED BY <2>1, <2>2, <2>3, SentQuiet
<1>4. CASE CloseBegin(t) /\ ~closed
  <2>1. /\ Goto(t, "terminate") /\ UNCHANGED <<done, pending, seqOf, netVars>>
    BY <1>4 DEF CloseBegin, CloseBeginBody, callVars
  <2>2. Unwinding => Unwinding'
    BY <1>1, <2>1, Types DEF Unwinding, Goto, ClosePCs
  <2> QED BY <1>1, <2>1, <2>2, SentQuiet, WaitQuiet
<1>5. CASE Terminate(t)
  <2>1. PICK c \in todo : Settle(c, "ErrWaitingForReceiving")
    BY <1>5 DEF Terminate
  <2>2. c \in Calls /\ UNCHANGED <<pc, pending, seqOf, netVars>>
    BY <1>1, <1>5, Types DEF Terminate
  <2>3. \A d \in Calls : Waiting(d)' => Waiting(d)
    BY <1>1, <2>1, <2>2, SettleDone DEF Waiting, PendingCalls
  <2>4. Unwinding => Unwinding'
    BY <2>2 DEF Unwinding
  <2> QED BY <2>2, <2>3, <2>4, SentQuiet
<1>6. CASE CloseMark(t)
  <2>1. /\ Goto(t, "closeconn") /\ pending' = NoPending /\ netVars' = netVars
    BY <1>6 DEF CloseMark
  <2>2. Unwinding => Unwinding'
    BY <1>1, <2>1, Types DEF Unwinding, Goto, ClosePCs
  <2>3. \A c \in Calls : ~Waiting(c)'
    BY <2>1 DEF Waiting, PendingCalls, NoPending
  <2> QED BY <2>1, <2>2, <2>3, SentQuiet
<1> QED BY <1>2, <1>3, <1>4, <1>5, <1>6 DEF CloseStep

(* What the receiver takes from the answers was its call's last message:   *)
(* the call is taken out of pending with it.                               *)
LEMMA SentReceiver ==
    ASSUME IInv, InvSent, ReceiverStep
    PROVE  InvSent'
<1>1. /\ TypeOK /\ "receiver" \in Threads /\ pending \in [SeqNos -> Calls \cup {None}]
      /\ pc["receiver"] \in {"read", "deliver"} /\ ~Unwinding
      /\ \A l : Goto("receiver", l) =>
            pc'["receiver"] = l /\ \A c \in Calls : pc'[c] = pc[c]
  BY Types DEF IInv, ReceiverStep, Read, ReadFails, Deliver, Unwinding, Goto, ClosePCs
<1>2. CASE ReadFails
  BY <1>1, <1>2 DEF ReadFails, Unwinding, ClosePCs, InvSent
<1>3. CASE Read
  <2>1. PICK a \in answers, k \in AnswerKinds :
          /\ answers' = answers \ {a}
          /\ \/ Goto("receiver", "close")
             \/ pending[a.seq] # None /\ Take("receiver", a.seq) /\ Goto("receiver", "deliver")
             \/ pending[a.seq] = None /\ UNCHANGED <<pc, pending>>
    BY <1>3 DEF Read
  <2>2. UNCHANGED <<done, seqOf, conn, wire, serving>>
    BY <1>3 DEF Read, callVars
  <2>3. a.seq \in SeqNos
    BY <1>1, TrafficType DEF Traffic
  <2>4. CASE Goto("receiver", "close")
    BY <1>1, <2>4 DEF Unwinding, ClosePCs, InvSent
  <2>5. CASE \/ pending[a.seq] # None /\ Take("receiver", a.seq) /\ Goto("receiver", "deliver")
             \/ pending[a.seq] = None /\ UNCHANGED <<pc, pending>>
    <3>1. /\ \A s \in SeqNos : pending'[s] \in {pending[s], None}
          /\ pending'[a.seq] = None
          /\ \A c \in Calls : pc'[c] = pc[c]
      BY <1>1, <2>3, <2>5 DEF Take
    <3>2. ASSUME NEW c \in Calls, Waiting(c)' PROVE Waiting(c) /\ (Underway(c) => Underway(c)')
      <4>1. PICK s \in SeqNos : pending'[s] = c
        BY <3>2 DEF Waiting, PendingCalls
      <4>2. c # None /\ s # a.seq /\ pending[s] = c
        BY <3>1, <4>1
      <4>3. Waiting(c) /\ seqOf[c] = s
        BY <2>2, <3>1, <3>2, <4>2 DEF Waiting, PendingCalls, IInv, InvPending
      <4>4. \A e \in Traffic : e.seq = s => e \in Traffic'
        BY <2>1, <2>2, <4>2 DEF Traffic, Entries
      <4> QED BY <2>2, <4>3, <4>4 DEF Underway
    <3> QED BY <1>1, <2>2, <3>2, SentStep
  <2> QED BY <2>1, <2>4, <2>5
<1>4. CASE Deliver
  <2>1. pc' = pc \/ Goto("receiver", "read")
    BY <1>4, DeliverMoves
  <2>2. \A c \in Calls : pc'[c] = pc[c]
    BY <1>1, <2>1
  <2>3. \A c \in Calls : done[c] => done'[c]
    <3>1. hand["receiver"] \in Calls
      <4>1. pc["receiver"] = "deliver"
        BY <1>4 DEF Deliver
      <4> QED BY <1>1, <4>1, Types DEF IInv, InvHand
    <3>2. done' = done \/ \E e : Settle(hand["receiver"], e)
      BY <1>4 DEF Deliver, callVars
    <3> QED BY <1>1, <3>1, <3>2, SettleDone
  <2>4. \A c \in Calls : Waiting(c)' => Waiting(c)
    BY <1>4, <2>2, <2>3, DeliverMoves DEF Waiting, PendingCalls
  <2> QED BY <1>1, <1>4, <2>4, DeliverMoves, SentQuiet
<1> QED BY <1>2, <1>3, <1>4 DEF ReceiverStep

(* The server passes messages on, and loses none while it stands. *)
LEMMA SentServer ==
    ASSUME IInv, InvSent, ServerStep
    PROVE  InvSent'
<1>1. UNCHANGED <<pc, done, pending, seqOf>>
  BY DEF ServerStep, ServerReads, ServerAnswers, ServerVanishes, callVars, clientVars
<1>2. \A c \in Calls : Waiting(c)' => Waiting(c)
  BY <1>1 DEF Waiting, PendingCalls
<1>3. (Unwinding => Unwinding') /\ (conn' = "up" => conn = "up")
  BY <1>1 DEF Unwinding, ServerStep, ServerReads, ServerAnswers, ServerVanishes
<1>4. CASE ServerVanishes
  BY <1>4 DEF ServerVanishes, InvSent
<1>5. ASSUME ServerReads \/ \E c \in Calls : ServerAnswers(c) PROVE Traffic \subseteq Traffic'
  <2>1. CASE ServerReads
    <3> DEFINE Msgs == [seq : SeqNos, of : Calls] \cup {Tick}
    <3>1. wire \in Seq(Msgs) /\ wire # <<>> /\ wire' = Tail(wire) /\ answers' = answers
          /\ serving \subseteq serving' /\ (Head(wire) # Tick => Head(wire) \in serving')
      BY <2>1 DEF ServerReads, TypeOK, IInv
    <3>2. \A i \in DOMAIN wire : wire[i] = Head(wire) \/ \E j \in DOMAIN wire' : wire'[j] = wire[i]
      <4> HIDE DEF Msgs
      <4>1. \A i \in DOMAIN wire : i = 1 \/ (i - 1 \in DOMAIN wire' /\ wire'[i - 1] = wire[i])
        BY <3>1
      <4>2. Head(wire) = wire[1]
        BY <3>1
      <4> QED BY <4>1, <4>2
    <3> QED BY <3>1, <3>2 DEF Traffic, Entries
  <2>2. CASE \E c \in Calls : ServerAnswers(c)
    <3>1. PICK r \in serving :
            /\ serving' = serving \ {r} /\ UNCHANGED wire
            /\ answers' = answers \cup {r}
      BY <2>2 DEF ServerAnswers
    <3> QED BY <3>1 DEF Traffic, Entries
  <2> QED BY <1>5, <2>1, <2>2
<1>6. CASE ServerReads \/ \E c \in Calls : ServerAnswers(c)
  BY <1>1, <1>2, <1>3, <1>5, <1>6, SentStep DEF Underway
<1> QED BY <1>4, <1>6 DEF ServerStep

LEMMA SentInvStep == IInv /\ InvSent /\ [Next]_vars => InvSent'
<1> SUFFICES ASSUME IInv, InvSent, [Next]_vars PROVE InvSent'
  OBVIOUS
<1>1. CASE TickerWakes \/ UserCloses
  <2>1. /\ \E t \in Threads, l \in {"lock", "close"} : t # "receiver" /\ Goto(t, l)
        /\ UNCHANGED <<done, pending, seqOf, netVars>>
    BY <1>1 DEF TickerWakes, UserCloses, callVars, clientVars
  <2> QED BY <2>1, SentQuiet, OthersUnwind, WaitQuiet DEF IInv
<1>2. CASE UNCHANGED vars
  BY <1>2, SentQuiet DEF vars, callVars, clientVars, Waiting, PendingCalls, Unwinding
<1> QED BY <1>1, <1>2, SentCaller, SentSender, SentClose, SentReceiver, SentServer
     DEF Next, Running, Stopped

(* Both hold of every reachable state.                                     *)
LEMMA MoveInvHolds == Spec => [](LockInv /\ InvSent)
<1>1. Init => LockInv /\ InvSent
  <2> SUFFICES ASSUME Init PROVE LockInv /\ InvSent
    OBVIOUS
  <2>1. \A t \in Threads : pc[t] \in {"idle", "read", "using", "lock", "exit"} /\
            /\ t \in Calls => pc[t] = "idle"
            /\ t = "receiver" => pc[t] = "read"
            /\ t = "user" => pc[t] = "using"
            /\ t = "ticker" => pc[t] \in {"lock", "exit"}
    BY DEF Init, Threads, Helpers
  <2>2. Places
    BY <2>1 DEF Places, PlaceOf, CallerPCs, ClosePCs, Threads, Helpers
  <2>3. InvSending
    BY <2>1 DEF Init, InvSending, InSend
  <2>4. InvMarked
    BY <2>1 DEF InvMarked
  <2>5. InvSent
    BY <2>1 DEF InvSent, Waiting
  <2> QED BY <2>2, <2>3, <2>4, <2>5 DEF LockInv
<1>2. IInv /\ LockInv /\ InvSent /\ [Next]_vars => (LockInv /\ InvSent)'
  BY LockInvStep, SentInvStep DEF IInv
<1> QED BY <1>1, <1>2, Invariant, PTL DEF Spec

(* Two senders never mix their frames on the connection.                   *)
THEOREM OneWriterAtATime == Spec => []OneWriter
<1>1. LockInv => OneWriter
  BY DEF LockInv, Places, PlaceOf, InvSending, InSend, OneWriter, CallerPCs, ClosePCs,
     Threads, Helpers
<1> QED BY <1>1, MoveInvHolds, PTL

(* A Close leaves no unfinished call that nobody is about to end.          *)
THEOREM CloseLeavesNoCall == Spec => []ClosedLeavesNoCall
<1>1. IInv => ClosedLeavesNoCall
  BY DEF IInv, InvOwned, InvClose, InvHand, PendingCalls, NoPending, ClosedLeavesNoCall
<1> QED BY <1>1, Invariant, PTL

(* No call is ever stuck inside the client: whatever it waits for, some    *)
(* goroutine can move, or the server has its turn.                         *)
THEOREM CallsNeverStuck == Spec => []NeverStuck
<1>1. IInv /\ LockInv /\ InvSent => NeverStuck
  <2> SUFFICES ASSUME IInv, LockInv, InvSent, NEW c \in Calls, pc[c] \notin {"idle", "returned"}
               PROVE  \/ CanMove(c)
                      \/ mu # None /\ CanMove(mu)
                      \/ pc[c] = "lock" /\ sending # None /\ CanMove(sending)
                      \/ pc[c] = "wait" /\ \E t \in Threads : hand[t] = c /\ CanMove(t)
                      \/ pc[c] = "wait" /\ CanMove("receiver")
                      \/ conn = "up" /\ pc[c] \in {"lock", "write"} /\ wire # <<>>
                      \/ conn = "up" /\ pc[c] = "wait" /\ Underway(c)
    BY DEF NeverStuck
  <2>1. /\ pc[c] \in CallerPCs \cup ClosePCs /\ TypeOK
        /\ mu \in Threads \cup {None} /\ sending \in Threads \cup {None}
    BY CallPlaces DEF LockInv, Places, IInv, TypeOK
  <2>2. mu # None => CanMove(mu)
    BY <2>1 DEF IInv, InvClose, CanMove
  <2>3. \A t \in Threads : pc[t] = "write" => CanMove(t) \/ (conn = "up" /\ wire # <<>>)
    <3>1. wire = <<>> => Len(wire) < WireCap
      BY ClientConstants
    <3> QED BY <3>1 DEF CanMove
  <2>4. CASE pc[c] \notin {"lock", "write", "wait"}
    BY <2>1, <2>2, <2>4 DEF CanMove, CallerPCs, ClosePCs
  <2>5. CASE pc[c] = "write"
    BY <2>3, <2>5
  <2>6. CASE pc[c] = "lock"
    <3>1. CASE sending = None
      BY <2>6, <3>1 DEF CanMove
    <3>2. CASE sending # None
      <4>1. sending \in Threads /\ InSend(sending)
        BY <2>1, <3>2 DEF LockInv, InvSending
      <4>2. \/ pc[sending] \in {"check", "drop", "terminate", "closeconn"}
            \/ pc[sending] \in {"failed", "close"}
            \/ pc[sending] = "write"
        BY <4>1 DEF InSend
      <4> QED BY <2>2, <2>3, <2>6, <3>2, <4>1, <4>2 DEF CanMove
    <3> QED BY <3>1, <3>2
  <2>7. CASE pc[c] = "wait"
    <3>1. CASE done[c]
      BY <2>7, <3>1 DEF CanMove
    <3>2. CASE \E t \in Threads : hand[t] = c
      BY <2>7, <3>2 DEF IInv, InvHand, CanMove
    <3>3. CASE c \in PendingCalls /\ ~done[c]
      <4>1. ~closed
        BY <3>3 DEF IInv, InvClose, NoPending, PendingCalls
      <4>2. pc["receiver"] \in {"read", "deliver"} \cup ClosePCs
        BY <4>1 DEF LockInv, Places, PlaceOf, InvMarked
      <4>3. CASE pc["receiver"] = "read" /\ conn = "up"
        BY <2>7, <3>3, <4>3 DEF InvSent, Waiting, Unwinding, ClosePCs
      <4> QED BY <2>2, <2>7, <4>2, <4>3 DEF CanMove, ClosePCs
    <3> QED BY <2>7, <3>1, <3>2, <3>3 DEF IInv, InvOwned
  <2> QED BY <2>4, <2>5, <2>6, <2>7
<1> QED BY <1>1, Invariant, MoveInvHolds, PTL

-----------------------------------------------------------------------------
(* The constructors (RpcDial). *)

HIDE ThreadNames

(* cc is set by the section under mu alone, at the end of a negotiation,   *)
(* and the connection closed only by a Close that finds it.                *)
NoCodecYet ==
    /\ worker \in {"dial", "encode", "decode", "install"} => ~cc
    /\ dialConn = "closed" => dialClosed /\ cc

(* A worker has reported only when it ends; until the constructor has      *)
(* taken one of the two channels' values, its sender has yet to come or    *)
(* the value is there.                                                     *)
Channels ==
    /\ worker \in {"dial", "encode", "decode", "install", "tick", "report", "exit"}
    /\ main \in {"select", "drain", "release", "close"} \cup Results
    /\ worker # "exit" => finish = "empty"
    /\ main \in {"select", "drain"} => worker = "dial" \/ connCh
    /\ main = "select" /\ worker = "exit" => finish # "empty"
    /\ verdict \in {"ok", "err"}
    /\ cc \in BOOLEAN /\ dialClosed \in BOOLEAN

DialInv == ReleasedThroughCodec /\ NoCodecYet /\ Channels

(* A constructor that has not returned can move, or its worker can, or the *)
(* worker waits for a server that is silent, without a timeout to end it:  *)
(* that is dail, which NewClient calls in its own goroutine.  Neither      *)
(* channel of dailTimeout ever keeps a goroutine waiting.                  *)
DialMoves ==
    /\ main \notin Results =>
          \/ main \in {"release", "close"}
          \/ main = "drain" /\ connCh
          \/ main = "select" /\ (deadline \/ finish # "empty")
          \/ worker \in {"dial", "encode", "decode", "install", "tick"}
          \/ worker = "report" /\ finish = "empty"
    /\ worker = "report" => finish = "empty"
    /\ main = "drain" /\ worker # "dial" => connCh

LEMMA DialInvInit == DialInit => DialInv
  BY DEF DialInit, DialInv, ReleasedThroughCodec, NoCodecYet, Channels, Results

LEMMA DialInvStep == DialInv /\ [DialNext]_dialVars => DialInv'
<1> SUFFICES ASSUME DialInv, [DialNext]_dialVars PROVE DialInv'
  OBVIOUS
<1> USE DEF DialInv, ReleasedThroughCodec, NoCodecYet, Channels, Results,
            chanVars, peerVars, codecVars
<1>1. CASE WorkerStep
  <2>1. CASE Dial
    BY <2>1 DEF Dial
  <2>2. CASE SendOption \/ ReadReply
    BY <2>2 DEF SendOption, ReadReply
  <2>3. CASE Install
    BY <2>3 DEF Install, InstallIf
  <2>4. CASE StartTicker \/ Report
    BY <2>4 DEF StartTicker, Report, ReportWhen
  <2>5. QED
    BY <1>1, <2>1, <2>2, <2>3, <2>4 DEF WorkerStep
<1>2. CASE MainStep
  <2>1. CASE DialTimerFires \/ TakeConn
    BY <2>1 DEF DialTimerFires, TakeConn, DrainWhen
  <2>2. CASE TakeResult
    BY <2>2 DEF TakeResult
  <2>3. CASE CloseClient
    BY <2>3 DEF CloseClient, Shut
  <2>4. QED
    BY <1>2, <2>1, <2>2, <2>3 DEF MainStep
<1>3. CASE ClientCloses \/ TickerWrites
  <2>1. CASE ClientCloses
    BY <2>1 DEF ClientCloses, Shut
  <2>2. CASE TickerWrites
    <3>1. CASE ~cc /\ UNCHANGED <<ticker, dialClosed, dialConn>>
      BY <2>2, <3>1 DEF TickerWrites
    <3>2. CASE cc /\ Shut
      BY <2>2, <3>2 DEF TickerWrites, Shut
    <3>3. QED
      BY <2>2, <3>1, <3>2 DEF TickerWrites
  <2>3. QED
    BY <1>3, <2>1, <2>2
<1>4. CASE ServerConfirms \/ ServerCloses
  BY <1>4 DEF ServerConfirms, ServerCloses
<1>5. CASE UNCHANGED dialVars
  BY <1>5 DEF dialVars
<1>6. QED
  BY <1>1, <1>2, <1>3, <1>4, <1>5 DEF DialNext, DialStep, DialStopped

THEOREM DialInvHolds == DialSpec => []DialInv
  BY DialInvInit, DialInvStep, PTL DEF DialSpec

(* Whichever of the negotiation and the timeout comes first, closing the   *)
(* client closes its connection if, and only if, that has become its       *)
(* codec: any other connection stays open.                                 *)
THEOREM CodecReleased == DialSpec => []ReleasedThroughCodec
<1>1. DialInv => ReleasedThroughCodec
  BY DEF DialInv
<1>2. QED
  BY <1>1, DialInvHolds, PTL

(* A constructor is never stuck on its own channels: only a silent server  *)
(* keeps it, and the timer ends that where there is one.                   *)
THEOREM DialNeverStuck == DialSpec => []DialMoves
<1>1. DialInv => DialMoves
  BY DEF DialInv, Channels, DialMoves, Results
<1>2. QED
  BY <1>1, DialInvHolds, PTL
=============================================================================
