--------------------------- MODULE RegistryClient ---------------------------
(***************************************************************************)
(* The registry client (Geb_RPC/registry/registryClient.go): it registers, *)
(* asks the registry for the addresses of a name, keeps what it learns,    *)
(* and is pushed updates, which HandleUpdate passes through a channel to   *)
(* the goroutine of doUpdate.  The registry is the environment: it answers *)
(* with any list, and pushes lists of the names it was asked for.          *)
(***************************************************************************)
EXTENDS Naturals, Sequences

CONSTANTS
    Users,          \* goroutines that call GetServiceAdders, one call at a time
    Closers,        \* goroutines that may call Close
    Pushes,         \* the updates the registry may push
    Names, Addrs,
    Lists,          \* the address lists the registry may send
    Cap,            \* capacity of reg.ch (10 in the code)
    None

(* assumed of the constants wherever the module is used *)
RegistryConstants ==
    /\ Lists \subseteq SUBSET Addrs /\ Cap \in Nat \ {0}
    /\ None \notin Pushes /\ None \notin Lists

VARIABLES
    reg,                    \* what register has come to
    mu,                     \* the HandleUpdate that holds reg.mu while it sends
    view,                   \* reg.services; a name without entry maps to None
    ch, chState,            \* reg.ch: its queue; "nil", "open" or "closed"
    updater, item,          \* doUpdate and the update it has received
    push,                   \* per update: its HandleUpdate
    ask, got,               \* per user: GetServiceAdders and what it returned
    asked,                  \* the names the registry pushes updates of
    closer, closed,         \* Close, and reg.closed
    listening, heart,       \* the listener, and heartBeat
    crash

chVars == <<ch, chState, updater, item>>
userVars == <<view, ask, got, asked>>
lifeVars == <<reg, closer, closed, listening, heart>>
vars == <<mu, chVars, userVars, lifeVars, push, crash>>

Update == [name : Names, addrs : Lists]
MuFree == mu = None
At(l, u) == [at |-> l, update |-> u]
Result(e, as) == [err |-> e, addrs |-> as]

Init ==
    /\ reg = "new" /\ mu = None /\ view = [n \in Names |-> None]
    /\ ch = <<>> /\ chState = "nil" /\ updater = "none" /\ item = None
    /\ push = [p \in Pushes |-> At("none", None)]
    /\ ask = [u \in Users |-> "idle"] /\ got = [u \in Users |-> Result("nil", {})]
    /\ asked = {}
    /\ closer = [x \in Closers |-> "none"] /\ closed = FALSE
    /\ listening = FALSE /\ heart = "none" /\ crash = "no"

-----------------------------------------------------------------------------
(* Registration.                                                           *)

(* The listener, the channel and doUpdate are there before the registry is *)
(* asked.                                                                  *)
Listen ==
    /\ reg = "new" /\ reg' = "http"
    /\ listening' = TRUE /\ chState' = "open" /\ updater' = "start"
    /\ UNCHANGED <<mu, ch, item, userVars, closer, closed, heart, push, crash>>

Registered ==
    /\ reg = "http" /\ reg' = "ok" /\ heart' = "sleep"
    /\ UNCHANGED <<mu, chVars, userVars, closer, closed, listening, push, crash>>

(* The registry refuses or cannot be reached.  Nobody has the client yet.  *)
(* A doUpdate that has not come to read reg.ch reads it between the close  *)
(* and the assignment of nil, or finds it nil.                             *)
RegisterFails ==
    /\ reg = "http" /\ MuFree /\ reg' = "failed"
    /\ listening' = FALSE
    /\ \/ updater = "start" /\ chState' = "nil" /\ UNCHANGED updater
       \/ chState' = "closed" /\ updater' = IF updater = "start" THEN "recv" ELSE updater
    /\ UNCHANGED <<mu, ch, item, userVars, closer, closed, heart, push, crash>>

-----------------------------------------------------------------------------
(* GetServiceAdders and GetServiceAddrsForce.                              *)

Returns(u, e, as) ==
    ask' = [ask EXCEPT ![u] = "done"] /\ got' = [got EXCEPT ![u] = Result(e, as)]

(* A name that is not known is asked for, without the lock; from then on   *)
(* the registry pushes its changes.                                        *)
Get(u, n) ==
    /\ reg = "ok" /\ ask[u] = "idle" /\ MuFree
    /\ \/ closed /\ Returns(u, "ErrClosed", {}) /\ UNCHANGED asked
       \/ ~closed /\ view[n] # None /\ Returns(u, "nil", view[n]) /\ UNCHANGED asked
       \/ /\ ~closed /\ view[n] = None
          /\ ask' = [ask EXCEPT ![u] = n] /\ asked' = asked \cup {n}
          /\ UNCHANGED got
    /\ UNCHANGED <<mu, view, chVars, lifeVars, push, crash>>

(* The answer is stored whatever has happened since it was given: a newer  *)
(* update, or Close.  An empty list is stored too.                         *)
StoreAnswer(u) ==
    /\ ask[u] \in Names /\ MuFree
    /\ \E as \in Lists : view' = [view EXCEPT ![ask[u]] = as] /\ Returns(u, "nil", as)
    /\ UNCHANGED <<mu, asked, chVars, lifeVars, push, crash>>

AskFails(u) ==
    /\ ask[u] \in Names /\ Returns(u, "error", {})
    /\ UNCHANGED <<mu, view, asked, chVars, lifeVars, push, crash>>

(* The caller takes what GetServiceAdders returned. *)
Take(u) ==
    /\ ask[u] = "done"
    /\ ask' = [ask EXCEPT ![u] = "idle"] /\ got' = [got EXCEPT ![u] = Result("nil", {})]
    /\ UNCHANGED <<mu, view, asked, chVars, lifeVars, push, crash>>

-----------------------------------------------------------------------------
(* Updates.                                                                *)

(* The registry pushes; updates of one client travel in any order.         *)
Arrive(p) ==
    /\ push[p].at = "none" /\ listening
    /\ \E n \in asked, as \in Lists :
          push' = [push EXCEPT ![p] = At("lock", [name |-> n, addrs |-> as])]
    /\ UNCHANGED <<mu, chVars, userVars, lifeVars, crash>>

(* HandleUpdate: the send is made while mu is held.                        *)
LockUnless(p, c) ==
    /\ push[p].at = "lock" /\ MuFree
    /\ IF c THEN push' = [push EXCEPT ![p] = At("done", None)] /\ UNCHANGED mu
            ELSE push' = [push EXCEPT ![p] = At("send", @.update)] /\ mu' = p
    /\ UNCHANGED <<chVars, userVars, lifeVars, crash>>

LockAnyway(p) == LockUnless(p, FALSE)   \* variant: closed is not tested
Lock(p) == LockUnless(p, closed)

Send(p) ==
    /\ push[p].at = "send"
    /\ \/ /\ chState = "closed" /\ crash' = "send on closed channel"
          /\ UNCHANGED <<ch, push, mu>>
       \/ /\ chState = "open" /\ Len(ch) < Cap
          /\ ch' = Append(ch, push[p].update)
          /\ push' = [push EXCEPT ![p] = At("done", None)] /\ mu' = None
          /\ UNCHANGED crash
    /\ UNCHANGED <<chState, updater, item, userVars, lifeVars>>

(* doUpdate evaluates reg.ch once, and ranges over it.                     *)
Range ==
    /\ updater = "start"
    /\ updater' = IF chState = "nil" THEN "stuck" ELSE "recv"
    /\ UNCHANGED <<mu, ch, chState, item, userVars, lifeVars, push, crash>>

ReceiveWhen(ended) ==
    /\ updater = "recv"
    /\ \/ /\ ch # <<>> /\ item' = Head(ch) /\ ch' = Tail(ch) /\ updater' = "apply"
       \/ ended /\ updater' = "exit" /\ UNCHANGED <<ch, item>>
    /\ UNCHANGED <<mu, chState, userVars, lifeVars, push, crash>>

ReceiveUntilClosed == ReceiveWhen(chState = "closed")   \* variant: what is queued is lost
Receive == ReceiveWhen(chState = "closed" /\ ch = <<>>)

(* update: an empty list removes the entry.                                *)
Apply ==
    /\ updater = "apply" /\ MuFree
    /\ view' = [view EXCEPT ![item.name] = IF item.addrs = {} THEN None ELSE item.addrs]
    /\ updater' = "recv" /\ item' = None
    /\ UNCHANGED <<mu, ch, chState, ask, got, asked, lifeVars, push, crash>>

-----------------------------------------------------------------------------
(* Close and heartBeat.                                                    *)

CloseMark(x) ==
    /\ closer[x] = "none" /\ reg = "ok" /\ MuFree
    /\ closer' = [closer EXCEPT ![x] = IF closed THEN "done" ELSE "close"]
    /\ closed' = TRUE
    /\ UNCHANGED <<mu, chVars, userVars, reg, listening, heart, push, crash>>

CloseCh(x) ==
    /\ closer[x] = "close"
    /\ IF chState = "closed" THEN crash' = "close of closed channel" /\ UNCHANGED <<chState, closer>>
       ELSE /\ chState' = "closed" /\ UNCHANGED crash
            /\ closer' = [closer EXCEPT ![x] = "resign"]
    /\ UNCHANGED <<mu, ch, updater, item, userVars, reg, closed, listening, heart, push>>

(* The registry has been told, or could not be; L() takes mu.              *)
StopListening(x) ==
    /\ closer[x] = "resign" /\ MuFree
    /\ listening' = FALSE /\ closer' = [closer EXCEPT ![x] = "done"]
    /\ UNCHANGED <<mu, chVars, userVars, reg, closed, heart, push, crash>>

(* A heartbeat itself changes nothing here, and its error is ignored.      *)
HeartBeatForever == FALSE                               \* variant: closed is not tested
HeartBeat ==
    /\ heart = "sleep" /\ MuFree /\ closed /\ heart' = "exit"
    /\ UNCHANGED <<mu, chVars, userVars, reg, closer, closed, listening, push, crash>>

-----------------------------------------------------------------------------
RegisterStep == Listen \/ Registered \/ RegisterFails
UserStep(u) == (\E n \in Names : Get(u, n)) \/ StoreAnswer(u) \/ AskFails(u)
Handle(p) == Lock(p) \/ Send(p)
UpdaterStep == Range \/ Receive \/ Apply
CloseStep(x) == CloseCh(x) \/ StopListening(x)

Next ==
    \/ RegisterStep \/ UpdaterStep \/ HeartBeat
    \/ \E u \in Users : UserStep(u) \/ Take(u)
    \/ \E p \in Pushes : Arrive(p) \/ Handle(p)
    \/ \E x \in Closers : CloseMark(x) \/ CloseStep(x)

Spec == Init /\ [][Next]_vars

-----------------------------------------------------------------------------
(* Properties.                                                             *)

TypeOK ==
    /\ reg \in {"new", "http", "ok", "failed"} /\ mu \in Pushes \cup {None}
    /\ view \in [Names -> Lists \cup {None}]
    /\ ch \in Seq(Update) /\ Len(ch) <= Cap /\ chState \in {"nil", "open", "closed"}
    /\ updater \in {"none", "start", "stuck", "recv", "apply", "exit"}
    /\ item \in Update \cup {None} /\ (updater = "apply" => item \in Update)
    /\ push \in [Pushes -> [at : {"none", "lock", "send", "done"}, update : Update \cup {None}]]
    /\ \A p \in Pushes : push[p].at \in {"lock", "send"} => push[p].update \in Update
    /\ ask \in [Users -> {"idle", "done"} \cup Names]
    /\ got \in [Users -> [err : {"nil", "ErrClosed", "error"}, addrs : Lists \cup {{}}]]
    /\ asked \subseteq Names
    /\ closer \in [Closers -> {"none", "close", "resign", "done"}] /\ closed \in BOOLEAN
    /\ listening \in BOOLEAN /\ heart \in {"none", "sleep", "exit"}
    /\ crash \in {"no", "send on closed channel", "close of closed channel"}

(* reg.ch is closed once, and nobody sends on it afterwards: HandleUpdate  *)
(* tests closed in the section in which it sends.                          *)
ChannelIsSafe == crash = "no"

(* The inductive invariant behind it: who sends holds mu, and closed is    *)
(* not set under him; until it is, the channel of a registered client is   *)
(* open; and only the goroutine that set closed closes the channel.        *)
InvSend ==
    \A p \in Pushes : /\ push[p].at = "send" <=> mu = p
                      /\ push[p].at = "send" => ~closed
                      /\ push[p].at # "none" => reg = "ok"
InvClose ==
    /\ asked # {} \/ closed => reg = "ok"
    /\ reg \in {"http", "ok"} /\ ~closed => chState = "open"
    /\ \A x, y \in Closers : closer[x] = "close" =>
          closed /\ chState = "open" /\ (closer[y] = "close" => x = y)
IInv == TypeOK /\ InvSend /\ InvClose /\ ChannelIsSafe
=============================================================================
