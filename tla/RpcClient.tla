----------------------------- MODULE RpcClient -----------------------------
(***************************************************************************)
(* One DefaultClient (Geb_RPC/client/client.go) after a successful         *)
(* NewClient: the goroutines that issue calls, the receive goroutine, the  *)
(* heartbeat ticker and a user that may Close the client at any moment,    *)
(* against a server that answers in any order and may vanish.              *)
(*                                                                         *)
(* A step is one critical section.  Sections under c.mu that are a single  *)
(* step wait for mu to be free; Close keeps mu across several steps, so    *)
(* mu has an owner.  call.mu protects only the fields settled together in  *)
(* one step, and close(call.Done), which directly follows that section, is *)
(* part of the step: nothing in the code observes that Done is still open. *)
(***************************************************************************)
EXTENDS Naturals, Sequences, FiniteSets

CONSTANTS
    Calls,          \* the calls ever issued; a call stands for its goroutine
    Timed,          \* those issued by CallUntil; the others by Call
    WithReply,      \* those whose result argument is a non-nil pointer
    Unencodable,    \* those with an argument the codec may fail to encode
    AnswerKinds,    \* what the server may send back, a subset of Kinds
    Ticking,        \* whether the negotiated tick is non-zero
    WireCap,        \* requests the connection buffers before a write blocks
    MaxSeq,         \* bound: sequence numbers run from 0 to MaxSeq
    None            \* "no call", "no thread"

Kinds == {"value", "void", "error", "garbled"}
Helpers == {"receiver", "ticker", "user"}
Threads == Calls \cup Helpers
SeqNos == 0 .. MaxSeq

ASSUME ClientConstants ==
    /\ Timed \subseteq Calls /\ WithReply \subseteq Calls
    /\ Unencodable \subseteq Calls
    /\ AnswerKinds \subseteq Kinds
    /\ Ticking \in BOOLEAN
    /\ WireCap \in Nat \ {0} /\ MaxSeq \in Nat
    /\ IsFiniteSet(Calls)
    /\ Calls \cap Helpers = {}
    /\ None \notin Threads

VARIABLES
    pc,             \* where each thread stands
    status, err, done, reply, seqOf,  \* the Call structs, field by field
    result,         \* what Call or CallUntil returned to its caller
    pending, seq, closed, mu, sending, \* DefaultClient
    todo,           \* the calls the running terminateCalls still has to visit
    hand,           \* the call a thread took out of pending and must settle
    got,            \* the answer receive() is delivering
    conn, wire, serving, answers,      \* the connection and the server
    crash           \* the panic that took the process down, if any

callVars == <<status, err, done, reply, seqOf, result>>
clientVars == <<pending, seq, closed, mu, sending, todo, hand, got>>
netVars == <<conn, wire, serving, answers>>
vars == <<pc, callVars, clientVars, netVars, crash>>

CallerPCs == {"idle", "refused", "lock", "check", "write", "failed", "drop",
              "wait", "cancel", "returned"}
ClosePCs == {"close", "terminate", "closeconn"}
Errors == {"nil", "ErrShutdown", "ErrWaitingForReceiving", "remote"}

(* A request on its way carries its sequence number; "of" remembers whose  *)
(* it is, as the arguments do in the program.  A heartbeat is Request{}.   *)
Tick == [seq |-> 0, of |-> None]
NoAnswer == [kind |-> "void", from |-> None]

(* pending is a map; a number that is not a key of it is mapped to None.   *)
NoPending == [s \in SeqNos |-> None]
PendingCalls == {pending[s] : s \in SeqNos} \ {None}

Init ==
    /\ pc = [t \in Threads |-> IF t \in Calls THEN "idle"
                               ELSE IF t = "receiver" THEN "read"
                               ELSE IF t = "user" THEN "using"
                               ELSE IF Ticking THEN "lock" ELSE "exit"]
    /\ status = [c \in Calls |-> "NEW"]
    /\ err = [c \in Calls |-> "nil"]
    /\ done = [c \in Calls |-> FALSE]
    /\ reply = [c \in Calls |-> None]
    /\ seqOf = [c \in Calls |-> 0]
    /\ result = [c \in Calls |-> "none"]
    /\ pending = NoPending /\ seq = 0 /\ closed = FALSE
    /\ mu = None /\ sending = None /\ todo = {}
    /\ hand = [t \in Threads |-> None] /\ got = NoAnswer
    /\ conn = "up" /\ wire = <<>> /\ serving = {} /\ answers = {}
    /\ crash = "no"

Goto(t, l) == pc' = [pc EXCEPT ![t] = l]
MuFree == mu = None

(* The four assignments that end a call: Error, status, Done.  Closing a   *)
(* closed channel panics.                                                  *)
Settle(c, e) ==
    /\ err' = [err EXCEPT ![c] = e]
    /\ status' = [status EXCEPT ![c] = "FINISHED"]
    /\ IF done[c] THEN crash' = "double close" /\ UNCHANGED done
       ELSE done' = [done EXCEPT ![c] = TRUE] /\ UNCHANGED crash

(* removeCall found a call: thread t now has to settle it. *)
Take(t, s) ==
    /\ hand' = [hand EXCEPT ![t] = pending[s]]
    /\ pending' = [pending EXCEPT ![s] = None]
LetGo(t) == hand' = [hand EXCEPT ![t] = None]

-----------------------------------------------------------------------------
(* The goroutine of a call: Go, send and the wait that follows.            *)

(* Go and registerCall. *)
RegisterBody(c, refused, n) ==
    /\ pc[c] = "idle" /\ MuFree /\ (refused \/ seq \in SeqNos)
    /\ IF refused
       THEN Goto(c, "refused") /\ UNCHANGED <<seqOf, pending, seq>>
       ELSE /\ Goto(c, "lock")
            /\ seqOf' = [seqOf EXCEPT ![c] = seq]
            /\ pending' = [pending EXCEPT ![seq] = c]
            /\ seq' = n
    /\ UNCHANGED <<status, err, done, reply, result, closed, mu, sending, todo,
                   hand, got, netVars, crash>>
RegisterSameSeq(c) == RegisterBody(c, closed, seq) \* variant: the counter stands still
RegisterUnchecked(c) == RegisterBody(c, FALSE, seq + 1) \* variant: also when closed
Register(c) == RegisterBody(c, closed, seq + 1)

(* registerCall failed: the call ends with ErrShutdown. *)
Refuse(c) ==
    /\ pc[c] = "refused"
    /\ Settle(c, "ErrShutdown") /\ Goto(c, "wait")
    /\ UNCHANGED <<reply, seqOf, result, clientVars, netVars>>

LockSending(t) ==
    /\ pc[t] = "lock" /\ sending = None
    /\ sending' = t
    /\ Goto(t, IF t \in Calls THEN "check" ELSE "write")
    /\ UNCHANGED <<callVars, pending, seq, closed, mu, todo, hand, got, netVars, crash>>

(* The call may have been ended while it waited for the sending lock. *)
CheckBody(c, ended, new) ==
    /\ pc[c] = "check"
    /\ IF ended
       THEN Goto(c, "wait") /\ sending' = None /\ UNCHANGED status
       ELSE /\ Goto(c, "write")
            /\ status' = [status EXCEPT ![c] = new]
            /\ UNCHANGED sending
    /\ UNCHANGED <<err, done, reply, seqOf, result, pending, seq, closed, mu, todo,
                   hand, got, netVars, crash>>
CheckNothing(c) == CheckBody(c, FALSE, "RECEIVING") \* variant: no check
CheckOnly(c) == CheckBody(c, status[c] = "FINISHED", status[c]) \* variant: no change
CheckStatus(c) == CheckBody(c, status[c] = "FINISHED", "RECEIVING")

(* What reaches the wire.  After the peer is gone a write may still enter  *)
(* the local buffer, where it is lost.                                     *)
Transmit(msg) ==
    \/ /\ conn = "up" /\ Len(wire) < WireCap
       /\ wire' = Append(wire, msg)
    \/ conn = "peerdown" /\ UNCHANGED wire

Write(t) ==
    /\ pc[t] = "write"
    /\ Transmit(IF t \in Calls THEN [seq |-> seqOf[t], of |-> t] ELSE Tick)
    /\ sending' = None
    /\ Goto(t, IF t \in Calls THEN "wait" ELSE "sleep")
    /\ UNCHANGED <<callVars, pending, seq, closed, mu, todo, hand, got, conn, serving,
                   answers, crash>>

(* The caller keeps the sending lock (it is released by a defer), the      *)
(* ticker has unlocked before it looks at the error.                       *)
WriteFails(t) ==
    /\ pc[t] = "write" /\ (conn # "up" \/ t \in Unencodable)
    /\ IF t \in Calls THEN Goto(t, "failed") /\ UNCHANGED sending
                      ELSE Goto(t, "close") /\ sending' = None
    /\ UNCHANGED <<callVars, pending, seq, closed, mu, todo, hand, got, netVars, crash>>

(* removeCall after a failed write. *)
TakeBack(c) ==
    /\ pc[c] = "failed" /\ MuFree
    /\ IF pending[seqOf[c]] # None
       THEN Goto(c, "drop") /\ Take(c, seqOf[c])
       ELSE Goto(c, "close") /\ UNCHANGED <<pending, hand>>
    /\ UNCHANGED <<callVars, seq, closed, mu, sending, todo, got, netVars, crash>>

Drop(c) ==
    /\ pc[c] = "drop"
    /\ Settle(hand[c], "ErrShutdown") /\ LetGo(c) /\ Goto(c, "close")
    /\ UNCHANGED <<reply, seqOf, result, pending, seq, closed, mu, sending, todo,
                   got, netVars>>

(* <-call.Done, in Call or as the second case of WaitFor. *)
Return(c) ==
    /\ pc[c] = "wait" /\ done[c]
    /\ result' = [result EXCEPT ![c] = err[c]]
    /\ Goto(c, "returned")
    /\ UNCHANGED <<status, err, done, reply, seqOf, clientVars, netVars, crash>>

(* The timer of WaitFor fires.  When the call is no longer pending WaitFor *)
(* returns and CallUntil reads call.Error without a lock; the receiver may *)
(* be writing that field, and a torn interface value is one outcome.       *)
TimerFires(c) ==
    /\ pc[c] = "wait" /\ c \in Timed /\ MuFree
    /\ IF pending[seqOf[c]] # None
       THEN Goto(c, "cancel") /\ Take(c, seqOf[c]) /\ UNCHANGED result
       ELSE /\ Goto(c, "returned") /\ UNCHANGED <<pending, hand>>
            /\ \E e \in {err[c]} \cup
                        (IF hand["receiver"] = c /\ got.kind = "error" THEN {"torn"} ELSE {}) :
                   result' = [result EXCEPT ![c] = e]
    /\ UNCHANGED <<status, err, done, reply, seqOf, seq, closed, mu, sending, todo,
                   got, netVars, crash>>

Cancel(c) ==
    /\ pc[c] = "cancel"
    /\ Settle(hand[c], "ErrWaitingForReceiving") /\ LetGo(c) /\ Goto(c, "returned")
    /\ result' = [result EXCEPT ![c] = err'[c]]
    /\ UNCHANGED <<reply, seqOf, pending, seq, closed, mu, sending, todo, got, netVars>>

-----------------------------------------------------------------------------
(* Close, run by a failed sender, the receiver, the ticker or the user.    *)

(* A sender releases the sending lock when send returns. *)
ResumeLocked(t) == \* variant: the lock is not released on the error path
    Goto(t, IF t \in Calls THEN "wait" ELSE "exit") /\ UNCHANGED sending
Resume(t) ==
    IF t \in Calls THEN Goto(t, "wait") /\ sending' = None
                   ELSE Goto(t, "exit") /\ UNCHANGED sending

CloseBeginBody(t, calls) ==
    /\ pc[t] = "close" /\ MuFree
    /\ IF closed THEN Resume(t) /\ UNCHANGED <<mu, todo>>
       ELSE /\ mu' = t /\ todo' = calls
            /\ Goto(t, "terminate") /\ UNCHANGED sending
    /\ UNCHANGED <<callVars, pending, seq, closed, hand, got, netVars, crash>>
CloseBeginForgetting(t) == CloseBeginBody(t, {}) \* variant: no terminateCalls
CloseBegin(t) == CloseBeginBody(t, PendingCalls)

(* One round of the loop of terminateCalls; map order is arbitrary. *)
Terminate(t) ==
    /\ pc[t] = "terminate"
    /\ \E c \in todo : Settle(c, "ErrWaitingForReceiving") /\ todo' = todo \ {c}
    /\ UNCHANGED <<pc, reply, seqOf, result, pending, seq, closed, mu, sending, hand, got,
                   netVars>>

CloseMark(t) ==
    /\ pc[t] = "terminate" /\ todo = {}
    /\ pending' = NoPending /\ closed' = TRUE /\ mu' = None
    /\ Goto(t, "closeconn")
    /\ UNCHANGED <<callVars, seq, sending, todo, hand, got, netVars, crash>>

(* cc.Close() closes the connection once. *)
CloseConnNot(t) == \* variant: the connection is left open
    /\ pc[t] = "closeconn" /\ Resume(t)
    /\ UNCHANGED <<callVars, pending, seq, closed, mu, todo, hand, got, netVars, crash>>
CloseConn(t) ==
    /\ pc[t] = "closeconn"
    /\ conn' = "closed" /\ Resume(t)
    /\ UNCHANGED <<callVars, pending, seq, closed, mu, todo, hand, got, wire, serving,
                   answers, crash>>

UserCloses ==
    /\ pc["user"] = "using" /\ Goto("user", "close")
    /\ UNCHANGED <<callVars, clientVars, netVars, crash>>

TickerWakes ==
    /\ pc["ticker"] = "sleep" /\ Goto("ticker", "lock")
    /\ UNCHANGED <<callVars, clientVars, netVars, crash>>

-----------------------------------------------------------------------------
(* The receive goroutine.                                                  *)

(* ReadResponse and removeCall.  The decoder may still hold whole answers  *)
(* after the connection is gone; one it cannot decode ends the loop.  What *)
(* kind of answer the server gave shows when it is read.                   *)
Read ==
    /\ pc["receiver"] = "read" /\ MuFree
    /\ \E a \in answers, k \in AnswerKinds :
         /\ answers' = answers \ {a}
         /\ \/ /\ k = "garbled"
               /\ Goto("receiver", "close") /\ UNCHANGED <<pending, hand, got>>
            \/ /\ k # "garbled" /\ pending[a.seq] # None
               /\ Take("receiver", a.seq)
               /\ got' = [kind |-> k, from |-> a.of]
               /\ Goto("receiver", "deliver")
            \/ /\ k # "garbled" /\ pending[a.seq] = None
               /\ UNCHANGED <<pc, pending, hand, got>>
    /\ UNCHANGED <<callVars, seq, closed, mu, sending, todo, conn, wire, serving, crash>>

ReadFails ==
    /\ pc["receiver"] = "read" /\ conn # "up"
    /\ Goto("receiver", "close")
    /\ UNCHANGED <<callVars, clientVars, netVars, crash>>

(* The section under call.mu.  Storing the nil Replyv of an error or of a  *)
(* method without result through a non-nil Reply panics in reflect.        *)
Deliver ==
    /\ pc["receiver"] = "deliver"
    /\ LET c == hand["receiver"]
           e == IF got.kind = "error" THEN "remote" ELSE err[c]
       IN IF status[c] # "RECEIVING"
          THEN crash' = "logical error" /\ UNCHANGED <<pc, hand, got, callVars>>
          ELSE IF c \in WithReply /\ got.kind # "value"
          THEN /\ err' = [err EXCEPT ![c] = e] /\ crash' = "reply"
               /\ UNCHANGED <<pc, hand, got, status, done, reply, seqOf, result>>
          ELSE /\ Settle(c, e)
               /\ reply' = [reply EXCEPT ![c] = got.from]
               /\ LetGo("receiver") /\ got' = NoAnswer /\ Goto("receiver", "read")
               /\ UNCHANGED <<seqOf, result>>
    /\ UNCHANGED <<pending, seq, closed, mu, sending, todo, netVars>>

-----------------------------------------------------------------------------
(* The server, as this client sees it: it swallows heartbeats, handles     *)
(* requests concurrently, answers each at most once, and may disappear.    *)
ServerReads ==
    /\ conn = "up" /\ wire # <<>>
    /\ wire' = Tail(wire)
    /\ serving' = IF Head(wire) = Tick THEN serving ELSE serving \cup {Head(wire)}
    /\ UNCHANGED <<pc, callVars, clientVars, conn, answers, crash>>

ServerAnswers(c) ==
    /\ conn = "up"
    /\ \E r \in serving :
         /\ r.of = c
         /\ serving' = serving \ {r}
         /\ answers' = answers \cup {r}
    /\ UNCHANGED <<pc, callVars, clientVars, conn, wire, crash>>

ServerVanishes ==
    /\ conn = "up" /\ conn' = "peerdown"
    /\ UNCHANGED <<pc, callVars, clientVars, wire, serving, answers, crash>>

-----------------------------------------------------------------------------
CallerStep(c) ==
    \/ Register(c) \/ Refuse(c) \/ CheckStatus(c) \/ TakeBack(c) \/ Drop(c)
    \/ Return(c) \/ TimerFires(c) \/ Cancel(c)
SenderStep(t) == LockSending(t) \/ Write(t) \/ WriteFails(t)
CloseStep(t) == CloseBegin(t) \/ Terminate(t) \/ CloseMark(t) \/ CloseConn(t)
ReceiverStep == Read \/ ReadFails \/ Deliver
ServerStep == ServerReads \/ (\E c \in Calls : ServerAnswers(c)) \/ ServerVanishes

Running ==
    \/ \E c \in Calls : CallerStep(c)
    \/ \E t \in Calls \cup {"ticker"} : SenderStep(t)
    \/ \E t \in Threads : CloseStep(t)
    \/ ReceiverStep \/ TickerWakes \/ UserCloses
    \/ ServerStep

(* Nothing is left to do: the process died, or every call has returned.    *)
Stopped ==
    /\ crash # "no" \/ \A c \in Calls : pc[c] = "returned"
    /\ UNCHANGED vars

Next == (crash = "no" /\ Running) \/ Stopped

Spec == Init /\ [][Next]_vars

(* The Go scheduler runs every goroutine that can run, timers fire, and    *)
(* sync.Mutex hands itself to a waiter starved for 1ms, so a thread that   *)
(* can take the sending lock again and again takes it.                     *)
Alive(A) == crash = "no" /\ A
CallGoroutine(c) == CallerStep(c) \/ SenderStep(c) \/ CloseStep(c)
TickerGoroutine == SenderStep("ticker") \/ TickerWakes \/ CloseStep("ticker")
ClientFairness ==
    /\ \A c \in Calls : WF_vars(Alive(CallGoroutine(c)))
    /\ WF_vars(Alive(ReceiverStep \/ CloseStep("receiver")))
    /\ WF_vars(Alive(TickerGoroutine)) /\ WF_vars(Alive(CloseStep("user")))
    /\ \A t \in Calls \cup {"ticker"} : SF_vars(Alive(LockSending(t)))

(* A server that keeps reading and answers what it has read, for as long   *)
(* as the connection stands (RpcServerConn justifies the second half).     *)
ServerFairness ==
    /\ WF_vars(Alive(ServerReads))
    /\ \A c \in Calls : WF_vars(Alive(ServerAnswers(c)))

FairSpec == Spec /\ ClientFairness /\ ServerFairness

-----------------------------------------------------------------------------
(* Properties.                                                             *)

Entries == {wire[i] : i \in DOMAIN wire} \ {Tick}

(* Every variable has its type. *)
TypeOK ==
    /\ pc \in [Threads -> CallerPCs \cup ClosePCs \cup
                          {"read", "deliver", "sleep", "using", "exit"}]
    /\ status \in [Calls -> {"NEW", "RECEIVING", "FINISHED"}]
    /\ err \in [Calls -> Errors] /\ done \in [Calls -> BOOLEAN]
    /\ reply \in [Calls -> Calls \cup {None}] /\ seqOf \in [Calls -> SeqNos]
    /\ result \in [Calls -> Errors \cup {"none", "torn"}]
    /\ pending \in [SeqNos -> Calls \cup {None}]
    /\ seq \in Nat /\ closed \in BOOLEAN
    /\ mu \in Threads \cup {None} /\ sending \in Threads \cup {None}
    /\ todo \subseteq Calls /\ hand \in [Threads -> Calls \cup {None}]
    /\ got \in [kind : Kinds, from : Calls \cup {None}]
    /\ conn \in {"up", "peerdown", "closed"}
    /\ wire \in Seq([seq : SeqNos, of : Calls] \cup {Tick})
    /\ serving \subseteq [seq : SeqNos, of : Calls]
    /\ answers \subseteq [seq : SeqNos, of : Calls]
    /\ crash \in {"no", "double close", "logical error", "reply"}

(* The panic of receive (client.go:167) cannot happen: an answer is        *)
(* matched only to a call that was put into RECEIVING before its request   *)
(* was written and that nobody else has ended.                             *)
NoLogicalPanic == crash # "logical error"

(* Done is closed at most once, whichever of the receiver, a timer, a      *)
(* failed write and terminateCalls race for the call.                      *)
NoDoubleClose == crash # "double close"

(* Of an answer, a deadline, a failed write and a Close exactly one ends a *)
(* call: whoever comes second finds it gone, and nobody is surprised by    *)
(* the state it is in.                                                     *)
EndedByOne == NoLogicalPanic /\ NoDoubleClose

(* An issued call that is not finished is always somebody's to finish: it  *)
(* is in pending, or in the hand of exactly one thread, or was refused.    *)
Holders(c) == {t \in Threads : hand[t] = c}
NoCallStranded ==
    \A c \in Calls : pc[c] # "idle" /\ ~done[c] =>
        \/ c \in PendingCalls /\ Holders(c) = {}
        \/ c \notin PendingCalls /\ \E t \in Threads : Holders(c) = {t}
        \/ pc[c] = "refused"

(* The answer stored in a call is the answer to that call, although the    *)
(* server answers in any order, heartbeats share sequence number 0 with    *)
(* the first call, and cancelled calls are answered late.                  *)
AnswerIsOwn == \A c \in Calls : reply[c] \in {None, c}

(* Once Done is closed neither the error, the reply nor the status of the  *)
(* call changes any more (a sender may still be on its way to write it).   *)
FinishedIsFinal ==
    [][\A c \in Calls : done[c] =>
          /\ done'[c] /\ err'[c] = err[c] /\ reply'[c] = reply[c]
          /\ status'[c] = status[c]]_vars

(* Every issued call returns to its caller, unless the process has died.   *)
EveryCallReturns ==
    \A c \in Calls : pc[c] # "idle" ~> (pc[c] = "returned" \/ crash # "no")

(* A closed client closes its connection, and the receive goroutine and    *)
(* the ticker end: no goroutine outlives Close.                            *)
CloseEndsGoroutines ==
    closed ~> \/ conn = "closed" /\ pc["receiver"] = "exit" /\ pc["ticker"] = "exit"
              \/ crash # "no"

(* The contract: a call runs from Register to Settle; the client stops     *)
(* being open when a Close has taken mu, before it ends the first pending  *)
(* call.                                                                   *)
CallState(c) ==
    IF pc[c] = "refused" THEN "refused"
    ELSE IF pc[c] = "idle" THEN "unused"
    ELSE IF ~done[c] THEN "running"
    ELSE IF err[c] \in {"nil", "remote"} THEN "answered"
    ELSE err[c]
CallStates == [c \in Calls |-> CallState(c)]
Open == ~closed /\ mu = None

Contract == INSTANCE CallContract WITH call <- CallStates, open <- Open

(* The client implements its contract: each call ends once, with an        *)
(* outcome the state of the client justifies; though not, for a call that  *)
(* Close cancels before it is sent, with the error the notes announce.     *)
ImplementsContract == Contract!Spec

-----------------------------------------------------------------------------
(* The inductive invariant behind NoLogicalPanic, NoDoubleClose,           *)
(* NoCallStranded, AnswerIsOwn and FinishedIsFinal.                        *)

Traffic == Entries \cup serving \cup answers

(* pending: under its own number, held by nobody, and finished just when   *)
(* the running terminateCalls has visited it.                              *)
InvPending ==
    \A s \in SeqNos : pending[s] # None =>
        /\ s < seq
        /\ pc[pending[s]] \notin {"idle", "refused"}
        /\ \A t \in Threads : hand[t] # pending[s]
        /\ seqOf[pending[s]] = s
        /\ done[pending[s]] <=> mu # None /\ pending[s] \notin todo

(* hands: an unfinished call, in one hand only, exactly where code settles *)
InvHand ==
    /\ \A t \in Threads :
        /\ hand[t] # None <=> pc[t] \in {"cancel", "drop", "deliver"}
        /\ hand[t] # None => ~done[hand[t]] /\ pc[hand[t]] \notin {"idle", "refused"}
        /\ \A u \in Threads : hand[t] = hand[u] => t = u \/ hand[t] = None
    /\ hand["receiver"] # None => /\ status[hand["receiver"]] = "RECEIVING"
                                 /\ got.from = hand["receiver"]

InvStatus ==
    \A c \in Calls :
        /\ done[c] <=> status[c] = "FINISHED"
        /\ pc[c] \in {"idle", "refused"} => ~done[c]
        /\ pc[c] = "write" => status[c] # "NEW"
        /\ pc[c] \in {"lock", "check", "write"} =>
              seqOf[c] < seq /\ pending[seqOf[c]] \in {c, None}

(* messages: of a call that has been sent, under its own number *)
InvTraffic ==
    \A e \in Traffic :
        /\ e.of \in Calls /\ e.seq < seq
        /\ status[e.of] # "NEW"
        /\ pending[e.seq] \in {e.of, None}

InvClose ==
    /\ \A t \in Threads : pc[t] = "terminate" <=> mu = t
    /\ mu = None => todo = {}
    /\ \A c \in todo : c \in PendingCalls /\ ~done[c]
    /\ closed => pending = NoPending /\ mu = None

InvOwned ==
    \A c \in Calls :
        pc[c] \notin {"idle", "refused"} /\ ~done[c] =>
            c \in PendingCalls \/ \E t \in Threads : hand[t] = c

InvCrash == crash \in {"no", "reply"}

(* The whole of it: every unfinished call has one owner, every message the *)
(* right one, and only a holder of mu sees finished calls in pending.      *)
IInv == /\ TypeOK /\ InvPending /\ InvHand /\ InvStatus /\ InvTraffic
        /\ InvClose /\ InvOwned /\ InvCrash /\ AnswerIsOwn

(* What the contract needs beyond it: a timer takes only its own call,     *)
(* since numbers are not reused, and only calls that ended have an error.  *)
InvOwnCall ==
    \A c \in Calls :
        /\ pc[c] = "refused" => closed
        /\ pc[c] \notin {"idle", "refused"} =>
              pending[seqOf[c]] \in {c, None} /\ (closed \/ seqOf[c] < seq)
        /\ pc[c] = "cancel" => hand[c] = c /\ c \in Timed
InvErr == \A c \in Calls : ~done[c] /\ crash = "no" => err[c] = "nil"
=============================================================================
