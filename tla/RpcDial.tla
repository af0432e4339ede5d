------------------------------ MODULE RpcDial ------------------------------
(***************************************************************************)
(* How a DefaultClient comes to be (Geb_RPC/client/client.go): NewClient   *)
(* dials and negotiates in the caller, NewClientTimeOut leaves that to a   *)
(* goroutine and races it against a timer.  On the other side ServeConn    *)
(* (Geb_RPC/server/server.go) reads the options and confirms, or closes    *)
(* the connection.  RpcClient takes over where the constructor succeeds.   *)
(***************************************************************************)
CONSTANTS
    Beating,        \* whether the server asks for heartbeats (always, today)
    Deadlines       \* FALSE for NewClient, TRUE for NewClientTimeOut

ASSUME DialConstants == Beating \in BOOLEAN /\ Deadlines \subseteq BOOLEAN

VARIABLES
    main,           \* the caller of the constructor
    deadline,       \* whether it waits for a timer too, as dailTimeout does
    worker, verdict,    \* the goroutine that dials, and what it will report
    connCh, finish, \* the two channels of dailTimeout, each of capacity 1
    dialConn,       \* the client's end: "none", "open" or "closed"
    opt, confirmed,     \* the option and the confirmation, in the connection
    server,         \* the server's end of it
    dialClosed, cc,     \* DefaultClient.closed; whether DefaultClient.cc is set
    ticker, dialCrash

chanVars == <<connCh, finish>>
peerVars == <<opt, confirmed, server>>
codecVars == <<dialClosed, cc>>
Results == {"ok", "failed", "ErrTimeOut"}
dialVars == <<main, deadline, worker, verdict, chanVars, dialConn, peerVars, codecVars, ticker, dialCrash>>

DialInit ==
    /\ main = "select" /\ deadline \in Deadlines
    /\ worker = "dial" /\ verdict = "ok"
    /\ connCh = FALSE /\ finish = "empty"
    /\ dialConn = "none" /\ opt = FALSE /\ confirmed = FALSE /\ server = "options"
    /\ dialClosed = FALSE /\ cc = FALSE /\ ticker = "none" /\ dialCrash = FALSE

-----------------------------------------------------------------------------
(* dail and the goroutine of dailTimeout, with negotiate.                  *)

(* net.Dial, or DialTimeout and connCh <- conn, which may be a nil one. *)
Dial ==
    /\ worker = "dial" /\ connCh' = TRUE
    /\ \/ /\ server # "down" /\ dialConn' = "open"
          /\ worker' = "encode" /\ UNCHANGED verdict
       \/ worker' = "report" /\ verdict' = "err" /\ UNCHANGED dialConn
    /\ UNCHANGED <<main, deadline, finish, peerVars, codecVars, ticker, dialCrash>>

(* Writing the option; after the server is gone the write may still pass. *)
SendOption ==
    /\ worker = "encode"
    /\ \/ worker' = "decode" /\ opt' = TRUE /\ UNCHANGED verdict
       \/ /\ server = "down" /\ worker' = "report" /\ verdict' = "err" /\ UNCHANGED opt
    /\ UNCHANGED <<main, deadline, chanVars, dialConn, confirmed, server, codecVars, ticker, dialCrash>>

(* Reading the confirmation blocks for as long as the server is silent. *)
ReadReply ==
    /\ worker = "decode"
    /\ \/ confirmed /\ worker' = "install" /\ UNCHANGED verdict
       \/ ~confirmed /\ server = "down" /\ worker' = "report" /\ verdict' = "err"
    /\ UNCHANGED <<main, deadline, chanVars, dialConn, peerVars, codecVars, ticker, dialCrash>>

(* The section under mu: a client that has been closed gets no codec. *)
InstallIf(ok) ==
    /\ worker = "install" /\ worker' = "tick"
    /\ cc' = (cc \/ ok)
    /\ UNCHANGED <<main, deadline, verdict, chanVars, dialConn, peerVars, dialClosed, ticker, dialCrash>>
InstallAlways == InstallIf(TRUE) \* variant: closed is not checked
Install == InstallIf(~dialClosed)

StartTicker ==
    /\ worker = "tick" /\ worker' = "report"
    /\ ticker' = IF Beating THEN "run" ELSE ticker
    /\ UNCHANGED <<main, deadline, verdict, chanVars, dialConn, peerVars, codecVars, dialCrash>>

(* finish <- err; in dail, the return. *)
ReportWhen(ready) ==
    /\ worker = "report" /\ ready
    /\ finish' = verdict /\ worker' = "exit"
    /\ UNCHANGED <<main, deadline, verdict, connCh, dialConn, peerVars, codecVars, ticker, dialCrash>>
ReportUnbuffered == ReportWhen(main = "select") \* variant: finish has no buffer
Report == ReportWhen(finish = "empty")

-----------------------------------------------------------------------------
(* The constructor.                                                        *)

DialTimerFires ==
    /\ deadline /\ main = "select"
    /\ main' = "drain" /\ deadline' = FALSE
    /\ UNCHANGED <<worker, verdict, chanVars, dialConn, peerVars, codecVars, ticker, dialCrash>>

(* <-connCh: the dial itself is bounded by the same time. *)
DrainWhen(ready) ==
    /\ main = "drain" /\ ready
    /\ connCh' = FALSE /\ main' = "release"
    /\ UNCHANGED <<deadline, worker, verdict, finish, dialConn, peerVars, codecVars, ticker, dialCrash>>
DrainFinish == DrainWhen(finish # "empty") \* variant: waits for the negotiation
TakeConn == DrainWhen(connCh)

(* case err := <-finish, and the return of dail, which closes the client   *)
(* only if there has been a connection.                                    *)
TakeResult ==
    /\ main = "select" /\ finish # "empty"
    /\ main' = IF finish = "ok" THEN "ok"
               ELSE IF ~deadline /\ dialConn = "none" THEN "failed" ELSE "close"
    /\ finish' = "empty" /\ deadline' = FALSE
    /\ UNCHANGED <<worker, verdict, connCh, dialConn, peerVars, codecVars, ticker, dialCrash>>

(* DefaultClient.Close, which closes the connection through the codec.     *)
Shut == /\ dialClosed' = TRUE
        /\ dialConn' = IF cc /\ ~dialClosed THEN "closed" ELSE dialConn

CloseClient ==
    /\ \/ main = "close" /\ main' = "failed"
       \/ main = "release" /\ main' = "ErrTimeOut"
    /\ Shut
    /\ UNCHANGED <<deadline, worker, verdict, chanVars, peerVars, cc, ticker, dialCrash>>

(* DefaultClient.Close by the user of a client that has been made. *)
ClientCloses ==
    /\ main = "ok" /\ ~dialClosed /\ Shut
    /\ UNCHANGED <<main, deadline, worker, verdict, chanVars, peerVars, cc, ticker, dialCrash>>

(* A heartbeat is written through cc; if that fails the client is closed.  *)
TickerWrites ==
    /\ ticker = "run"
    /\ \/ ~cc /\ dialCrash' = TRUE /\ UNCHANGED <<ticker, dialClosed, dialConn>>
       \/ /\ cc /\ (dialConn = "closed" \/ server = "down")
          /\ ticker' = "exit" /\ Shut /\ UNCHANGED dialCrash
    /\ UNCHANGED <<main, deadline, worker, verdict, chanVars, peerVars, cc>>

-----------------------------------------------------------------------------
(* The server: confirms the options, or closes the connection; and it may  *)
(* go down, or close the connection, at any time.                          *)
ServerConfirms ==
    /\ server = "options" /\ opt
    /\ confirmed' = TRUE /\ server' = "serving"
    /\ UNCHANGED <<main, deadline, worker, verdict, chanVars, dialConn, opt, codecVars, ticker, dialCrash>>

ServerCloses ==
    /\ server # "down" /\ server' = "down"
    /\ UNCHANGED <<main, deadline, worker, verdict, chanVars, dialConn, opt, confirmed, codecVars,
                   ticker, dialCrash>>

-----------------------------------------------------------------------------
WorkerStep == Dial \/ SendOption \/ ReadReply \/ Install \/ StartTicker \/ Report
MainStep == DialTimerFires \/ TakeConn \/ TakeResult \/ CloseClient
DialStep == WorkerStep \/ MainStep \/ ClientCloses \/ TickerWrites

DialStopped == (dialCrash \/ main \in Results) /\ UNCHANGED dialVars
DialNext == (~dialCrash /\ DialStep) \/ ServerConfirms \/ ServerCloses \/ DialStopped
DialSpec == DialInit /\ [][DialNext]_dialVars

(* The goroutines run and the timer fires; a server need not answer. *)
DialFairness == WF_dialVars(~dialCrash /\ WorkerStep) /\ WF_dialVars(~dialCrash /\ MainStep)

-----------------------------------------------------------------------------
(* Properties.                                                             *)

(* "Wait for the connection to be returned, release its resources": once   *)
(* the timeout has won and the goroutine has ended, no connection is left  *)
(* open (client.go:333, and the notes of Geb_RPC).  One may be: what is    *)
(* taken from connCh is dropped, and Close closes only what cc holds.      *)
TimeoutReleasesConn ==
    main = "ErrTimeOut" /\ worker = "exit" => dialConn # "open"

(* A client that is closed has released its connection just when the       *)
(* negotiation had installed a codec on it.                                *)
ReleasedThroughCodec == dialClosed => (dialConn = "closed" <=> cc)

(* NewClientTimeOut returns, however silent the server is. *)
ConstructorReturns == deadline ~> (main \in Results \/ dialCrash)

(* The goroutine of dailTimeout ends once the server has spoken, although  *)
(* nobody may be waiting for its result any more.                          *)
WorkerEnds == (confirmed \/ server = "down") ~> (worker = "exit" \/ dialCrash)
=============================================================================
