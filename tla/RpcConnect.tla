----------------------------- MODULE RpcConnect -----------------------------
(***************************************************************************)
(* A client connects to a server: RpcDial and RpcServerConn joined by the  *)
(* connection between them.  The option is what the server reads first,    *)
(* its confirmation what the client waits for; requests and heartbeats     *)
(* come only from a client that has been made, or half made; either end    *)
(* learns of the other's closing, later, or never if the network falls     *)
(* silent.                                                                 *)
(***************************************************************************)
EXTENDS RpcServerConn, RpcDial

connectVars == <<vars, dialVars>>
ConnectInit == Init /\ DialInit

ClientGone == dialConn = "closed" \/ dialCrash
ServerGone == closed \/ panic # "no" \/ peer = "silent"

-----------------------------------------------------------------------------
(* What a client does by itself. *)
ClientMoves == ~dialCrash /\ DialStep /\ UNCHANGED vars

(* What a server does by itself. *)
ServerMoves ==
    /\ \/ CheckFailed \/ WaitHandlers \/ Unwind \/ ReadFails \/ SenderStep \/ HeartStep
       \/ \E r \in Requests : ServiceStep(r) \/ HandlerStep(r)
    /\ UNCHANGED dialVars

(* The option arrives and is accepted, or is refused, or never arrives. *)
Confirm == Negotiate /\ ServerConfirms
Refuse == (opt \/ peer = "fin") /\ NegotiateFails /\ UNCHANGED dialVars

(* Requests come from the user of a client, heartbeats from its ticker.    *)
(* Requests are named in the order in which they come.                     *)
NextRequest ==
    LET unread == {r \in Requests : req[r].at = "none"}
    IN IF unread = {} THEN {} ELSE {CHOOSE r \in unread : TRUE}
Requested ==
    /\ \/ main = "ok" /\ \E r \in NextRequest : ReadRequest(r)
       \/ ticker # "none" /\ cc /\ ReadHeartbeat
    /\ UNCHANGED dialVars

(* The end of the client reaches the server, or the network falls silent. *)
PeerLost ==
    /\ dialConn # "none" /\ PeerChanges /\ (peer' = "fin" => ClientGone)
    /\ UNCHANGED dialVars

(* The end of the server reaches the client. *)
ServerLost == ServerGone /\ ServerCloses /\ UNCHANGED vars

-----------------------------------------------------------------------------
Connecting ==
    \/ ClientMoves \/ ServerLost
    \/ panic = "no" /\ (ServerMoves \/ Confirm \/ Refuse \/ Requested \/ PeerLost)

(* Both ends have nothing left to do. *)
ConnectStopped ==
    /\ dialCrash \/ main \in Results
    /\ panic # "no" \/ Ended \/ dialConn = "none"
    /\ UNCHANGED connectVars

ConnectNext == Connecting \/ ConnectStopped

(* No heartbeat arrives any more. *)
NoBeats ==
    peer # "up" \/ dialCrash \/ ticker = "exit" \/ (ticker = "none" /\ worker = "exit")

(* Both programs run, as each module assumes of its own; a server that is  *)
(* up answers an option, and the end of a client reaches it; its heartbeat *)
(* timer fires once no heartbeat can arrive.                               *)
ConnectSpec ==
    /\ ConnectInit /\ [][ConnectNext]_connectVars
    /\ ServerFairness /\ DialFairness
    /\ WF_connectVars(~dialCrash /\ TickerWrites /\ UNCHANGED vars)
    /\ WF_connectVars(panic = "no" /\ (Confirm \/ Refuse))
    /\ WF_connectVars(panic = "no" /\ peer' = "fin" /\ PeerLost)
    /\ WF_vars(Alive(NoBeats /\ HeartTimesOut))

-----------------------------------------------------------------------------
(* Properties.                                                             *)

(* A connection on which the constructor has given up is closed at last at *)
(* the server's end, although the client may leave its own open: the       *)
(* server notices that nothing comes, unless it still waits for the option *)
(* of a client it cannot hear.                                             *)
AbandonedConnIsClosed ==
    main \in {"failed", "ErrTimeOut"} /\ dialConn # "none"
        ~> (closed \/ panic # "no" \/ (reader = "negotiate" /\ peer = "silent"))
=============================================================================
