------------------------ MODULE RegistryClientProofs ------------------------
(***************************************************************************)
(* The channel of RegistryClient is closed once and never sent on again;   *)
(* and mu is unlocked again unless HandleUpdate and doUpdate wait for each *)
(* other, which nothing ends.  For every number of users, closers and      *)
(* updates and every capacity.                                             *)
(***************************************************************************)
EXTENDS RegistryClient, TLAPS

PushPCs == {"none", "lock", "send", "done"}
Handling == [at : PushPCs, update : Update \cup {None}]
Results == [err : {"nil", "ErrClosed", "error"}, addrs : Lists \cup {{}}]

(* The initial state satisfies the invariant. *)
LEMMA InvInit == RegistryConstants /\ Init => IInv
<1> SUFFICES ASSUME RegistryConstants, Init PROVE IInv
  OBVIOUS
<1>1. Result("nil", {}) \in Results /\ At("none", None) \in Handling
  BY DEF Result, Results, At, Handling, PushPCs
<1>2. got \in [Users -> Results] /\ push \in [Pushes -> Handling]
  BY <1>1 DEF Init
<1>3. \A p \in Pushes : push[p].at = "none"
  BY DEF Init, At
<1>4. TypeOK
  <2>1. ch \in Seq(Update) /\ Len(ch) <= Cap
    BY DEF Init, RegistryConstants
  <2>2. push \in [Pushes -> [at : {"none", "lock", "send", "done"}, update : Update \cup {None}]]
    BY <1>2 DEF Handling, PushPCs
  <2>3. /\ view \in [Names -> Lists \cup {None}]
        /\ closer \in [Closers -> {"none", "close", "resign", "done"}]
        /\ ask \in [Users -> {"idle", "done"} \cup Names]
    BY DEF Init
  <2>4. got \in [Users -> [err : {"nil", "ErrClosed", "error"}, addrs : Lists \cup {{}}]]
    BY <1>2 DEF Results
  <2> QED BY <2>1, <2>2, <2>3, <2>4, <1>3 DEF Init, TypeOK
<1>5. InvSend
  BY <1>3 DEF Init, RegistryConstants, InvSend
<1> QED BY <1>4, <1>5 DEF Init, IInv, InvClose, ChannelIsSafe

(* Registration. *)
LEMMA RegisterKeeps == ASSUME RegistryConstants, IInv, RegisterStep PROVE IInv'
<1> USE DEF IInv, TypeOK, InvSend, InvClose, ChannelIsSafe, RegistryConstants
<1>1. CASE Listen
  BY <1>1 DEF Listen, userVars
<1>2. CASE Registered
  BY <1>2 DEF Registered, chVars, userVars
<1>3. CASE RegisterFails
  BY <1>3 DEF RegisterFails, userVars
<1> QED BY <1>1, <1>2, <1>3 DEF RegisterStep

(* Users change the view, and what they get. *)
LEMMA UserKeeps ==
    ASSUME RegistryConstants, IInv, NEW u \in Users, UserStep(u) \/ Take(u)
    PROVE  IInv'
<1> USE DEF IInv, TypeOK, InvSend, InvClose, ChannelIsSafe, chVars, lifeVars
<1>1. CASE \E n \in Names : Get(u, n)
  <2>1. PICK n \in Names : Get(u, n)
    BY <1>1
  <2>2. got' \in [Users -> Results]
    BY <2>1 DEF Get, Returns, Result, Results
  <2>3. ask' \in [Users -> {"idle", "done"} \cup Names] /\ asked' \subseteq Names
    BY <2>1 DEF Get, Returns
  <2>4. UNCHANGED <<mu, view, chVars, lifeVars, push, crash>> /\ reg = "ok"
    BY <2>1 DEF Get
  <2> QED BY <2>2, <2>3, <2>4 DEF Results
<1>2. CASE StoreAnswer(u)
  <2>0. PICK as \in Lists : view' = [view EXCEPT ![ask[u]] = as] /\ Returns(u, "nil", as)
    BY <1>2 DEF StoreAnswer
  <2>1. /\ view' \in [Names -> Lists \cup {None}]
        /\ ask' \in [Users -> {"idle", "done"} \cup Names]
    BY <2>0 DEF Returns
  <2>2. got' \in [Users -> Results]
    <3>1. Result("nil", as) \in Results
      BY DEF Result, Results
    <3>2. got \in [Users -> Results]
      BY DEF Results
    <3> QED BY <2>0, <3>1, <3>2 DEF Returns
  <2>3. UNCHANGED <<mu, asked, chVars, lifeVars, push, crash>>
    BY <1>2 DEF StoreAnswer
  <2> QED BY <2>1, <2>2, <2>3 DEF Results
<1>3. CASE AskFails(u) \/ Take(u)
  <2>1. /\ ask' \in [Users -> {"idle", "done"} \cup Names] /\ got' \in [Users -> Results]
        /\ UNCHANGED <<mu, view, asked, chVars, lifeVars, push, crash>>
    BY <1>3 DEF AskFails, Take, Returns, Result, Results
  <2> QED BY <2>1 DEF Results
<1> QED BY <1>1, <1>2, <1>3 DEF UserStep

(* An update arrives, is locked in and sent. *)
LEMMA PushKeeps ==
    ASSUME RegistryConstants, IInv, NEW p \in Pushes, Arrive(p) \/ Handle(p)
    PROVE  IInv'
<1> USE DEF IInv, TypeOK, InvSend, InvClose, ChannelIsSafe, chVars, lifeVars, userVars
<1>1. CASE Arrive(p)
  <2>1. PICK n \in asked, as \in Lists :
          push' = [push EXCEPT ![p] = At("lock", [name |-> n, addrs |-> as])]
    BY <1>1 DEF Arrive
  <2>2. [name |-> n, addrs |-> as] \in Update
    BY DEF Update
  <2>3. At("lock", [name |-> n, addrs |-> as]) \in Handling
    BY <2>2 DEF At, Handling, PushPCs
  <2>4. push' \in [Pushes -> Handling]
    BY <2>1, <2>3 DEF Handling, PushPCs
  <2>5. /\ UNCHANGED <<mu, ch, chState, updater, item, view, ask, got, asked, reg, closer,
                       closed, listening, heart, crash>>
        /\ push[p].at = "none" /\ reg = "ok"
    BY <1>1, <2>1 DEF Arrive
  <2>6. /\ push'[p].at = "lock" /\ push'[p].update \in Update
        /\ \A q \in Pushes : q # p => push'[q] = push[q]
    BY <2>1, <2>2 DEF At
  <2>7. TypeOK'
    BY <2>4, <2>5, <2>6 DEF Handling, PushPCs
  <2>8. InvSend' /\ InvClose' /\ ChannelIsSafe'
    BY <2>5, <2>6
  <2> QED BY <2>7, <2>8
<1>2. CASE Lock(p)
  <2>1. /\ push[p].at = "lock" /\ mu = None
        /\ \/ closed /\ push' = [push EXCEPT ![p] = At("done", None)] /\ UNCHANGED mu
           \/ ~closed /\ push' = [push EXCEPT ![p] = At("send", @.update)] /\ mu' = p
        /\ UNCHANGED <<ch, chState, updater, item, view, ask, got, asked, reg, closer,
                       closed, listening, heart, crash>>
    BY <1>2 DEF Lock, LockUnless, MuFree
  <2>2. At("done", None) \in Handling /\ At("send", push[p].update) \in Handling
    BY DEF At, Handling, PushPCs
  <2>3. push' \in [Pushes -> Handling]
    BY <2>1, <2>2 DEF Handling, PushPCs
  <2>4. /\ \A q \in Pushes : q # p => push'[q] = push[q]
        /\ \/ closed /\ push'[p].at = "done" /\ mu' = None
           \/ ~closed /\ push'[p].at = "send" /\ push'[p].update = push[p].update /\ mu' = p
    BY <2>1 DEF At
  <2>5. TypeOK'
    BY <2>1, <2>3, <2>4 DEF Handling, PushPCs
  <2>6. InvSend'
    BY <2>1, <2>4 DEF RegistryConstants
  <2> QED BY <2>1, <2>5, <2>6
<1>3. CASE Send(p)
  <2>1. chState = "open"
    BY <1>3 DEF Send
  <2>2. /\ Len(ch) < Cap /\ ch' = Append(ch, push[p].update)
        /\ push' = [push EXCEPT ![p] = At("done", None)] /\ mu' = None
        /\ UNCHANGED <<crash, chState, updater, item, userVars, lifeVars>>
    BY <1>3, <2>1 DEF Send
  <2>3. push[p].update \in Update /\ ch \in Seq(Update)
    BY <1>3 DEF Send
  <2>4. ch' \in Seq(Update) /\ Len(ch') <= Cap
    BY <2>2, <2>3 DEF RegistryConstants
  <2>5. push' \in [Pushes -> Handling]
    BY <2>2 DEF At, Handling, PushPCs
  <2>6. InvSend'
    BY <1>3, <2>2 DEF Send, At, RegistryConstants
  <2> QED BY <2>2, <2>4, <2>5, <2>6 DEF At, Handling, PushPCs
<1> QED BY <1>1, <1>2, <1>3 DEF Handle

(* doUpdate. *)
LEMMA UpdaterKeeps == ASSUME RegistryConstants, IInv, UpdaterStep PROVE IInv'
<1> USE DEF IInv, TypeOK, InvSend, InvClose, ChannelIsSafe, lifeVars
<1>1. CASE Range
  BY <1>1 DEF Range, userVars
<1>2. CASE Receive
  <2>1. CASE updater' = "exit"
    <3>1. ch' = ch /\ item' = item
      BY <1>2, <2>1 DEF Receive, ReceiveWhen
    <3> QED BY <1>2, <2>1, <3>1 DEF Receive, ReceiveWhen, userVars
  <2>2. CASE updater' # "exit"
    <3>1. /\ ch # <<>> /\ item' = Head(ch) /\ ch' = Tail(ch) /\ updater' = "apply"
          /\ UNCHANGED <<mu, chState, userVars, lifeVars, push, crash>>
      BY <1>2, <2>2 DEF Receive, ReceiveWhen
    <3>2. /\ ch \in Seq(Update) /\ Len(ch) <= Cap
      OBVIOUS
    <3>3. /\ Head(ch) \in Update /\ Tail(ch) \in Seq(Update)
          /\ Len(Tail(ch)) = Len(ch) - 1 /\ Len(ch) \in Nat
      BY <3>1, <3>2
    <3>4. /\ ch' \in Seq(Update) /\ Len(ch') <= Cap /\ item' \in Update
      BY <3>1, <3>2, <3>3 DEF RegistryConstants
    <3> QED BY <3>1, <3>4 DEF userVars
  <2> QED BY <2>1, <2>2
<1>3. CASE Apply
  BY <1>3 DEF Apply, Update
<1> QED BY <1>1, <1>2, <1>3 DEF UpdaterStep

(* Close, and the heartbeat it ends. *)
LEMMA CloseKeeps ==
    ASSUME RegistryConstants, IInv, NEW x \in Closers, CloseMark(x) \/ CloseStep(x) \/ HeartBeat
    PROVE  IInv'
<1> USE DEF IInv, TypeOK, InvSend, InvClose, ChannelIsSafe, chVars, userVars
<1>1. CASE CloseMark(x)
  BY <1>1 DEF CloseMark, MuFree, RegistryConstants
<1>2. CASE CloseCh(x)
  BY <1>2 DEF CloseCh
<1>3. CASE StopListening(x)
  <2>1. closer \in [Closers -> {"none", "close", "resign", "done"}]
        /\ closer' = [closer EXCEPT ![x] = "done"]
    BY <1>3 DEF StopListening
  <2>2. closer' \in [Closers -> {"none", "close", "resign", "done"}]
        /\ \A y \in Closers : closer'[y] = "close" => closer[y] = "close"
    BY <2>1
  <2>3. UNCHANGED <<mu, chVars, userVars, reg, closed, heart, push, crash>>
        /\ listening' = FALSE
    BY <1>3 DEF StopListening
  <2>4. TypeOK'
    BY <2>2, <2>3
  <2>5. InvSend' /\ ChannelIsSafe'
    BY <2>3
  <2>6. InvClose'
    BY <2>2, <2>3
  <2> QED BY <2>4, <2>5, <2>6
<1>4. CASE HeartBeat
  BY <1>4 DEF HeartBeat
<1> QED BY <1>1, <1>2, <1>3, <1>4 DEF CloseStep

(* Every step preserves the invariant. *)
LEMMA InvNext == ASSUME RegistryConstants, IInv, [Next]_vars PROVE IInv'
<1>1. CASE RegisterStep
  BY <1>1, RegisterKeeps
<1>2. CASE UpdaterStep
  BY <1>2, UpdaterKeeps
<1>3. CASE HeartBeat
  BY <1>3 DEF IInv, TypeOK, InvSend, InvClose, ChannelIsSafe, HeartBeat, chVars, userVars
<1>4. CASE \E u \in Users : UserStep(u) \/ Take(u)
  BY <1>4, UserKeeps
<1>5. CASE \E p \in Pushes : Arrive(p) \/ Handle(p)
  BY <1>5, PushKeeps
<1>6. CASE \E x \in Closers : CloseMark(x) \/ CloseStep(x)
  BY <1>6, CloseKeeps
<1>7. CASE UNCHANGED vars
  BY <1>7 DEF vars, chVars, userVars, lifeVars, IInv, TypeOK, InvSend, InvClose, ChannelIsSafe
<1> QED BY <1>1, <1>2, <1>3, <1>4, <1>5, <1>6, <1>7 DEF Next

(* The invariant holds in every reachable state of the registry client.    *)
THEOREM Invariant == ASSUME RegistryConstants PROVE Spec => []IInv
<1>1. Init => IInv
  BY InvInit
<1>2. IInv /\ [Next]_vars => IInv'
  BY InvNext
<1> QED BY <1>1, <1>2, PTL DEF Spec

(* However many goroutines handle updates, ask and close: nobody sends on  *)
(* reg.ch after it was closed, and it is closed once (registryClient.go,   *)
(* Close and HandleUpdate).                                                *)
THEOREM ChannelIsAlwaysSafe == ASSUME RegistryConstants PROVE Spec => []ChannelIsSafe
<1>1. IInv => ChannelIsSafe
  BY DEF IInv
<1> QED BY Invariant, <1>1, PTL

-----------------------------------------------------------------------------
(* Who waits for reg.mu.                                                   *)

(* doUpdate ranges over the channel until it is closed.                    *)
InvUpdater ==
    /\ reg \in {"http", "ok"} => updater \notin {"none", "stuck"} /\ chState # "nil"
    /\ updater = "exit" => chState = "closed"

(* What HandleUpdate and doUpdate need for their next steps.               *)
HandlerMoves(p) ==
    \/ push[p].at = "lock" /\ MuFree
    \/ push[p].at = "send" /\ (chState = "closed" \/ Len(ch) < Cap)
UpdaterMoves ==
    \/ updater = "start"
    \/ updater = "recv" /\ (ch # <<>> \/ chState = "closed")
    \/ updater = "apply" /\ MuFree

(* HandleUpdate waits for room in reg.ch with mu locked, and doUpdate,     *)
(* which would make it, for mu.                                            *)
Clogged == ~MuFree /\ updater = "apply" /\ Len(ch) = Cap

(* That is the only way in which mu is never unlocked ...                  *)
LockIsFreed == ~MuFree => Clogged \/ HandlerMoves(mu) \/ UpdaterMoves
(* ... and it is for ever.                                                 *)
ClogStays == [][Clogged => Clogged']_vars

LEMMA UpdaterStays ==
    ASSUME IInv, InvUpdater, [Next]_vars PROVE InvUpdater'
<1> USE DEF InvUpdater
<1>1. CASE UNCHANGED <<reg, updater, chState>>
  BY <1>1
<1>2. CASE RegisterStep
  BY <1>2 DEF RegisterStep, Listen, Registered, RegisterFails, chVars
<1>3. CASE UpdaterStep
  BY <1>3 DEF UpdaterStep, Range, Receive, ReceiveWhen, Apply, lifeVars
<1>4. CASE HeartBeat
  BY <1>1, <1>4 DEF HeartBeat, chVars
<1>5. CASE \E u \in Users : UserStep(u) \/ Take(u)
  BY <1>1, <1>5 DEF UserStep, Get, StoreAnswer, AskFails, Take, chVars, lifeVars
<1>6. CASE \E p \in Pushes : Arrive(p) \/ Handle(p)
  BY <1>1, <1>6 DEF Arrive, Handle, Lock, LockUnless, Send, chVars, lifeVars
<1>7. CASE \E x \in Closers : CloseMark(x) \/ CloseStep(x)
  BY <1>7 DEF CloseMark, CloseStep, CloseCh, StopListening, chVars
<1> QED BY <1>1, <1>2, <1>3, <1>4, <1>5, <1>6, <1>7 DEF Next, vars, chVars, lifeVars

LEMMA FreedUnlessClogged ==
    ASSUME RegistryConstants, IInv, InvUpdater PROVE LockIsFreed
<1> SUFFICES ASSUME ~MuFree PROVE Clogged \/ HandlerMoves(mu) \/ UpdaterMoves
  BY DEF LockIsFreed
<1>1. /\ mu \in Pushes /\ push[mu].at = "send" /\ ~closed /\ reg = "ok"
      /\ chState = "open"
  BY DEF MuFree, IInv, TypeOK, InvSend, InvClose
<1>2. updater \in {"start", "recv", "apply"}
  BY <1>1 DEF InvUpdater, IInv, TypeOK
<1>3. ch \in Seq(Update) /\ Len(ch) <= Cap /\ Cap \in Nat \ {0}
  BY DEF IInv, TypeOK, RegistryConstants
<1>4. ch # <<>> \/ Len(ch) < Cap
  BY <1>3
<1>5. Len(ch) = Cap \/ Len(ch) < Cap
  BY <1>3
<1> QED BY <1>1, <1>2, <1>4, <1>5 DEF HandlerMoves, UpdaterMoves, Clogged

(* mu is unlocked again unless HandleUpdate and doUpdate wait for each     *)
(* other (registryClient.go, HandleUpdate and update).                     *)
THEOREM LockIsAlwaysFreed == ASSUME RegistryConstants PROVE Spec => []LockIsFreed
<1>1. Init => InvUpdater
  BY DEF Init, InvUpdater
<1>2. IInv /\ InvUpdater /\ [Next]_vars => InvUpdater'
  BY UpdaterStays
<1>3. IInv /\ InvUpdater => LockIsFreed
  BY FreedUnlessClogged
<1> QED BY <1>1, <1>2, <1>3, Invariant, PTL DEF Spec

(* Once they do, nothing ends it: not even Close, which needs mu.          *)
THEOREM ClogIsForEver == ASSUME RegistryConstants PROVE Spec => ClogStays
<1>1. ASSUME IInv, [Next]_vars, Clogged PROVE Clogged'
  <2>1. /\ mu \in Pushes /\ mu # None /\ push[mu].at = "send" /\ ~closed /\ reg = "ok"
        /\ updater = "apply" /\ Len(ch) = Cap
    BY <1>1 DEF Clogged, MuFree, IInv, TypeOK, InvSend, InvClose
  <2>2. Cap \in Nat
    BY DEF RegistryConstants
  <2>3. chState = "open"
    BY <1>1, <2>1 DEF IInv, InvClose
  <2>4. \A p \in Pushes : ~Handle(p)
    BY <1>1, <2>1, <2>2, <2>3 DEF Handle, Lock, LockUnless, Send, MuFree, IInv, InvSend
  <2>5. \A x \in Closers : ~CloseMark(x) /\ ~CloseStep(x)
    BY <1>1, <2>1 DEF CloseMark, CloseStep, CloseCh, StopListening, MuFree, IInv, InvClose
  <2>6. ~RegisterStep /\ ~UpdaterStep /\ ~HeartBeat
    BY <2>1 DEF RegisterStep, Listen, Registered, RegisterFails, UpdaterStep, Range, Receive,
                ReceiveWhen, Apply, HeartBeat, MuFree
  <2>7. CASE (\E u \in Users : UserStep(u) \/ Take(u)) \/ \E p \in Pushes : Arrive(p)
    BY <1>1, <2>7 DEF UserStep, Get, StoreAnswer, AskFails, Take, Arrive, Clogged, MuFree,
                      chVars
  <2>8. CASE UNCHANGED vars
    BY <1>1, <2>8 DEF vars, chVars, Clogged, MuFree
  <2> QED BY <1>1, <2>4, <2>5, <2>6, <2>7, <2>8 DEF Next
<1>2. IInv /\ [Next]_vars => [Clogged => Clogged']_vars
  BY <1>1
<1> QED BY <1>2, Invariant, PTL DEF Spec, ClogStays
=============================================================================
