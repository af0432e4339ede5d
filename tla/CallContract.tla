---------------------------- MODULE CallContract ----------------------------
(***************************************************************************)
(* What a DefaultClient keeps of its promises, without locks, goroutines   *)
(* or sequence numbers: a call is issued once and ends once.  While the    *)
(* client is open a call ends answered, or cancelled by its own deadline,  *)
(* or because it could not be written; only a client that is being closed  *)
(* cancels the calls of others, and a call issued afterwards is refused.   *)
(*                                                                         *)
(* This is weaker than the notes of Geb_RPC (lines 22-25 and 41): there a  *)
(* cancelled call gets ErrShutDown if it has not been sent, and            *)
(* ErrWaitingForReceiving only if it has been, or is being.  Close does    *)
(* not look: terminateCalls gives ErrWaitingForReceiving to every call in  *)
(* pending, those that still wait for their turn to be sent included       *)
(* (client.go:136-146).  The contract has what the code does.              *)
(***************************************************************************)
CONSTANTS Calls, Timed
VARIABLES call, open

Init == call = [c \in Calls |-> "unused"] /\ open = TRUE

Become(c, s) == call' = [call EXCEPT ![c] = s]

Issue(c) ==
    /\ call[c] = "unused"
    /\ Become(c, IF open THEN "running" ELSE "refused") /\ UNCHANGED open

(* Ends a running call with an answer, or because its write failed. *)
Answer(c) == call[c] = "running" /\ Become(c, "answered") /\ UNCHANGED open
NotSent(c) == call[c] = "running" /\ Become(c, "ErrShutdown") /\ UNCHANGED open

(* Only its own deadline, or a client being closed, cancels a call.  The   *)
(* error does not say that it was sent: Close cancels unsent calls too.    *)
Cancel(c) ==
    /\ call[c] = "running" /\ (c \in Timed \/ ~open)
    /\ Become(c, "ErrWaitingForReceiving") /\ UNCHANGED open

Refuse(c) == call[c] = "refused" /\ Become(c, "ErrShutdown") /\ UNCHANGED open

Shut == open /\ open' = FALSE /\ UNCHANGED call

End(c) == Answer(c) \/ NotSent(c) \/ Cancel(c) \/ Refuse(c)
Next == Shut \/ \E c \in Calls : Issue(c) \/ End(c)

Spec == Init /\ [][Next]_<<call, open>>
=============================================================================
