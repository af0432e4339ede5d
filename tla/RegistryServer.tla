--------------------------- MODULE RegistryServer ---------------------------
(***************************************************************************)
(* The registry of Geb_RPC/registry: RegisterServer with its two indexes,  *)
(* one alive check per service, and informChanges, which pushes the        *)
(* instances of a changed name to the registered clients that asked for    *)
(* that name; on the other side the clients' view of each name.            *)
(*                                                                         *)
(* A service is one registration.  A step is one critical section of seMu, *)
(* clMu or the service's own mu; two handlers never hold more than the     *)
(* step says.  Every update is sent by a goroutine of its own, so updates  *)
(* arrive in any order.                                                    *)
(***************************************************************************)
EXTENDS Integers, FiniteSets

CONSTANTS
    Services,       \* the registrations
    Names,          \* service names
    NameOf,         \* the name each service registers
    Listening,      \* the services with a listening address (lAddr)
    Wants,          \* the names each service asks for
    Beating,        \* bound: the services whose heartbeats are followed
    Mortal,         \* bound: the services that may fall silent or leave
    Stall,          \* a registration may take longer than three ticks
    MaxId,          \* bound: ids run from 1 to MaxId
    None

Ids == 1 .. MaxId

ASSUME RegistryConstants ==
    /\ NameOf \in [Services -> Names] /\ Wants \in [Services -> SUBSET Names]
    /\ Listening \subseteq Services /\ Beating \subseteq Services
    /\ Mortal \subseteq Services /\ Stall \in BOOLEAN /\ MaxId \in Nat
    /\ None \notin Services

VARIABLES
    at,             \* how far the registration has come
    alive,          \* the process behind the service is up
    lastId, idOf,
    services, idToService,  \* the indexes under seMu
    clients,        \* under clMu
    interest,       \* Service.interest
    closed, aliveCh, watcher,   \* Service.closed, its channel, its alive check
    gone, remover,  \* how far resign has come, and which goroutine runs it
    informer,       \* the goroutine of informChanges, per service and cause
    net, view,      \* updates on their way; RegisterClient.services
    newest,         \* history: the last list of each name made for a client
    beat,           \* HandleHeartBeat has looked the service up
    panic

regVars == <<at, lastId, idOf, services, idToService>>
aliveVars == <<closed, aliveCh, watcher, beat>>
goneVars == <<gone, remover>>
viewVars == <<net, view, newest>>
vars == <<regVars, alive, clients, interest, aliveVars, goneVars, informer, viewVars, panic>>

Causes == {"register", "resign"}

Init ==
    /\ at = [s \in Services |-> "out"] /\ alive = [s \in Services |-> TRUE]
    /\ lastId = 0 /\ idOf = [s \in Services |-> 0]
    /\ services = [n \in Names |-> {}] /\ idToService = [i \in Ids |-> None]
    /\ clients = {} /\ interest = [s \in Services |-> {}]
    /\ closed = [s \in Services |-> FALSE] /\ aliveCh = [s \in Services |-> 0]
    /\ watcher = [s \in Services |-> "none"] /\ beat = [s \in Services |-> FALSE]
    /\ gone = [s \in Services |-> "no"] /\ remover = [s \in Services |-> "none"]
    /\ informer = [s \in Services |-> [c \in Causes |-> [at |-> "idle", to |-> {}]]]
    /\ net = {} /\ view = [s \in Services |-> [n \in Names |-> None]]
    /\ newest = [s \in Services |-> [n \in Names |-> {}]]
    /\ panic = FALSE

(* A number that is not a key of idToService, 0 for one, maps to nothing.  *)
Lookup(id) == IF id \in Ids THEN idToService[id] ELSE None
Listed(s) == s \in services[NameOf[s]]

-----------------------------------------------------------------------------
(* register.                                                               *)

IssueAliveCheck(s) ==
    /\ at[s] = "out" /\ alive[s]
    /\ at' = [at EXCEPT ![s] = "watched"]
    /\ watcher' = [watcher EXCEPT ![s] = "watch"]
    /\ UNCHANGED <<alive, lastId, idOf, services, idToService, clients, interest, closed,
                   aliveCh, beat, goneVars, informer, viewVars, panic>>

(* The section under seMu. *)
ListAs(s, id) ==
    /\ at[s] = "watched" /\ id \in Ids
    /\ lastId' = id /\ idOf' = [idOf EXCEPT ![s] = id]
    /\ services' = [services EXCEPT ![NameOf[s]] = @ \cup {s}]
    /\ idToService' = [idToService EXCEPT ![id] = s]
    /\ at' = [at EXCEPT ![s] = "listed"]
    /\ UNCHANGED <<alive, clients, interest, aliveVars, goneVars, informer, viewVars, panic>>
ListReusing(s) == ListAs(s, Cardinality({t \in Services : Listed(t)}) + 1) \* variant: ids are reused
List(s) == ListAs(s, lastId + 1)

StartFor(s, c, causes) ==
    informer' = [informer EXCEPT ![s][c].at = IF c \in causes THEN "collect" ELSE "done"]
StartOnRegister(s, c) == StartFor(s, c, {"register"}) \* variant: resign informs nobody
StartInforming(s, c) == StartFor(s, c, Causes)

(* The section under clMu; then go informChanges, and the id is returned.  *)
Enter(s) ==
    /\ at[s] = "listed"
    /\ clients' = IF s \in Listening THEN clients \cup {s} ELSE clients
    /\ StartInforming(s, "register")
    /\ at' = [at EXCEPT ![s] = "up"]
    /\ UNCHANGED <<alive, lastId, idOf, services, idToService, interest, aliveVars, goneVars,
                   viewVars, panic>>

-----------------------------------------------------------------------------
(* resign, called by HandleResign and by the alive check.                  *)

(* The section under seMu, for a service that was found.  The capacity of  *)
(* the new list is one less than the length of the old one.                *)
Unlist(id, who) ==
    LET s == Lookup(id)
        old == services[NameOf[s]]
    IN IF old = {}
       THEN panic' = TRUE /\ UNCHANGED <<services, idToService, goneVars>>
       ELSE /\ services' = [services EXCEPT ![NameOf[s]] = {t \in old : idOf[t] # id}]
            /\ idToService' = [idToService EXCEPT ![id] = None]
            /\ gone' = [gone EXCEPT ![s] = "unlisted"]
            /\ remover' = [remover EXCEPT ![s] = who]
            /\ UNCHANGED panic

(* The client closes: no more heartbeats, and one request to resign. *)
HandleResign(s) ==
    /\ s \in Mortal /\ at[s] = "up" /\ alive[s]
    /\ alive' = [alive EXCEPT ![s] = FALSE]
    /\ IF Lookup(idOf[s]) = None
       THEN UNCHANGED <<services, idToService, goneVars, panic>>
       ELSE Unlist(idOf[s], "handler")
    /\ UNCHANGED <<at, lastId, idOf, clients, interest, aliveVars, informer, viewVars>>

(* No heartbeat for three ticks.  A registration that stalls may be timed  *)
(* out before it has been listed, with id 0, or before it is a client.     *)
ExpireWith(s, id) ==
    /\ s \in Mortal /\ watcher[s] = "watch" /\ (Stall \/ at[s] = "up")
    /\ IF Lookup(id) = None
       THEN /\ watcher' = [watcher EXCEPT ![s] = "exit"]
            /\ UNCHANGED <<services, idToService, goneVars, panic>>
       ELSE /\ watcher' = [watcher EXCEPT ![s] = "resign"]
            /\ Unlist(id, "watcher")
    /\ UNCHANGED <<at, lastId, idOf, alive, clients, interest, closed, aliveCh, beat,
                   informer, viewVars>>
ExpireEarlyId(s) == ExpireWith(s, 0) \* variant: the id is read when the check starts
Expire(s) == ExpireWith(s, idOf[s])

(* The section under clMu. *)
Leave(s) ==
    /\ gone[s] = "unlisted"
    /\ clients' = IF s \in Listening THEN clients \ {s} ELSE clients
    /\ StartInforming(s, "resign")
    /\ gone' = [gone EXCEPT ![s] = "informing"]
    /\ UNCHANGED <<regVars, alive, interest, aliveVars, remover, viewVars, panic>>

(* Service.Close, after informChanges has returned. *)
CloseAs(s, c) ==
    /\ gone[s] = "informing" /\ informer[s]["resign"].at = "done"
    /\ closed' = [closed EXCEPT ![s] = c]
    /\ gone' = [gone EXCEPT ![s] = "closed"]
    /\ watcher' = [watcher EXCEPT ![s] = IF remover[s] = "watcher" THEN "exit" ELSE @]
    /\ UNCHANGED <<regVars, alive, clients, interest, aliveCh, beat, remover, informer,
                   viewVars, panic>>
CloseNot(s) == CloseAs(s, FALSE) \* variant: the channel is left open
CloseService(s) == CloseAs(s, TRUE)

-----------------------------------------------------------------------------
(* informChanges.                                                          *)

(* Under clMu: the clients interested in the name of s. *)
Collect(s, c) ==
    /\ informer[s][c].at = "collect"
    /\ LET to == {v \in clients : NameOf[s] \in interest[v]}
       IN informer' = [informer EXCEPT ![s][c] =
              [at |-> IF to = {} THEN "done" ELSE "snapshot", to |-> to]]
    /\ UNCHANGED <<regVars, alive, clients, interest, aliveVars, goneVars, viewVars, panic>>

(* Tell(to, n, l, by): list l of name n is made for the clients in to.     *)
Tell(to, n, l, by) ==
    /\ net' = net \cup {[to |-> v, name |-> n, list |-> l, by |-> by] : v \in to}
    /\ newest' = [v \in Services |->
                     IF v \in to THEN [newest[v] EXCEPT ![n] = l] ELSE newest[v]]

(* Under seMu: the instances; then one goroutine per client. *)
Snapshot(s, c) ==
    /\ informer[s][c].at = "snapshot"
    /\ Tell(informer[s][c].to, NameOf[s], services[NameOf[s]], <<s, c>>)
    /\ informer' = [informer EXCEPT ![s][c].at = "done"]
    /\ UNCHANGED <<regVars, alive, clients, interest, aliveVars, goneVars, view, panic>>

(* A reply or an update reaches its client: GetServiceAddrsForce stores    *)
(* what it is told, update deletes the entry when no instance is left.     *)
Stored(m) == IF m.list = {} /\ m.by[2] # "ask" THEN None ELSE m.list
Arrive(m) ==
    /\ net' = net \ {m}
    /\ view' = IF alive[m.to] THEN [view EXCEPT ![m.to][m.name] = Stored(m)] ELSE view
    /\ UNCHANGED <<regVars, alive, clients, interest, aliveVars, goneVars, informer, newest,
                   panic>>

-----------------------------------------------------------------------------
(* The other requests of a client.                                         *)

(* GetServiceAdders for a name without an entry, and getServiceAddr:       *)
(* interest and list under seMu.  One request at a time.                   *)
Ask(s, n) ==
    /\ at[s] = "up" /\ alive[s] /\ n \in Wants[s] /\ view[s][n] = None
    /\ \A m \in net : m.to = s => m.by # <<s, "ask">>
    /\ IF Lookup(idOf[s]) = None
       THEN Tell({s}, n, {}, <<s, "ask">>) /\ UNCHANGED interest
       ELSE /\ Tell({s}, n, services[n], <<s, "ask">>)
            /\ interest' = [interest EXCEPT ![s] = @ \cup {n}]
    /\ UNCHANGED <<regVars, alive, clients, aliveVars, goneVars, informer, view, panic>>

(* HandleHeartBeat: the lookup under seMu, then the section under s.mu.    *)
Beat(s) ==
    /\ s \in Beating /\ at[s] = "up" /\ alive[s] /\ ~beat[s] /\ Lookup(idOf[s]) # None
    /\ beat' = [beat EXCEPT ![s] = TRUE]
    /\ UNCHANGED <<regVars, alive, clients, interest, closed, aliveCh, watcher, goneVars,
                   informer, viewVars, panic>>

Signal(s, refuse) ==
    /\ beat[s] /\ beat' = [beat EXCEPT ![s] = FALSE]
    /\ IF refuse THEN UNCHANGED <<aliveCh, panic>>
       ELSE IF closed[s] THEN panic' = TRUE /\ UNCHANGED aliveCh
       ELSE aliveCh' = [aliveCh EXCEPT ![s] = 1] /\ UNCHANGED panic
    /\ UNCHANGED <<regVars, alive, clients, interest, closed, watcher, goneVars, informer,
                   viewVars>>
SignalUnchecked(s) == Signal(s, FALSE) \* variant: closed is not checked
SignalAlive(s) == Signal(s, closed[s])

(* The alive check receives a signal, or finds the channel closed. *)
Watch(s) ==
    /\ watcher[s] = "watch"
    /\ \/ /\ aliveCh[s] = 1 /\ aliveCh' = [aliveCh EXCEPT ![s] = 0] /\ UNCHANGED watcher
       \/ /\ aliveCh[s] = 0 /\ closed[s]
          /\ watcher' = [watcher EXCEPT ![s] = "exit"] /\ UNCHANGED aliveCh
    /\ UNCHANGED <<regVars, alive, clients, interest, closed, beat, goneVars, informer,
                   viewVars, panic>>

Crash(s) ==
    /\ s \in Mortal /\ alive[s] /\ alive' = [alive EXCEPT ![s] = FALSE]
    /\ UNCHANGED <<regVars, clients, interest, aliveVars, goneVars, informer, viewVars, panic>>

-----------------------------------------------------------------------------
ServerStep(s) ==
    \/ List(s) \/ Enter(s) \/ Leave(s) \/ CloseService(s) \/ SignalAlive(s) \/ Watch(s)
    \/ \E c \in Causes : Collect(s, c) \/ Snapshot(s, c)
ClientStep(s) ==
    \/ IssueAliveCheck(s) \/ HandleResign(s) \/ Beat(s) \/ Crash(s)
    \/ \E n \in Names : Ask(s, n)

Running ==
    \/ \E s \in Services : ServerStep(s) \/ ClientStep(s) \/ Expire(s)
    \/ \E m \in net : Arrive(m)

(* Every mortal process is down and the registry has nothing left to do.   *)
Quiet ==
    /\ \A s \in Mortal : ~alive[s] /\ watcher[s] # "watch"
    /\ \A s \in Services : (alive[s] => at[s] = "up") /\ ~beat[s]
    /\ \A s \in Services : at[s] # "listed" /\ gone[s] \in {"no", "closed"}
    /\ \A s \in Services, c \in Causes : informer[s][c].at \in {"idle", "done"}
    /\ net = {}
Stopped == (panic \/ Quiet) /\ UNCHANGED vars

Next == (~panic /\ Running) \/ Stopped
Spec == Init /\ [][Next]_vars

(* The server's goroutines run, updates arrive, and the timer of a service *)
(* fires once its process sends no heartbeats any more.                    *)
FairSpec ==
    /\ Spec
    /\ \A s \in Services : /\ WF_vars(~panic /\ ServerStep(s))
                           /\ WF_vars(~panic /\ ~alive[s] /\ Expire(s))
    /\ WF_vars(~panic /\ \E m \in net : Arrive(m))

-----------------------------------------------------------------------------
(* Properties.                                                             *)

Lists == [Names -> SUBSET Services]

(* The registrations and the two indexes have their types. *)
IndexTypes ==
    /\ at \in [Services -> {"out", "watched", "listed", "up"}]
    /\ lastId \in 0 .. MaxId /\ idOf \in [Services -> 0 .. MaxId]
    /\ services \in Lists /\ idToService \in [Ids -> Services \cup {None}]

(* The two indexes agree: an id leads to a service listed under its name,  *)
(* and every listed service is found by its own id.                        *)
IndexesAgree ==
    /\ \A i \in Ids : idToService[i] # None =>
          /\ idOf[idToService[i]] = i
          /\ idToService[i] \in services[NameOf[idToService[i]]]
    /\ \A n \in Names : \A s \in services[n] : NameOf[s] = n /\ Lookup(idOf[s]) = s

(* The registry never panics: no heartbeat is sent on a closed channel,    *)
(* and a service found by its id is in the list it is removed from.        *)
NeverPanics == ~panic

(* Whoever is in clients is listed, or about to be taken out by resign.    *)
ClientsAreListed == \A s \in clients : Listed(s) \/ gone[s] = "unlisted"

(* A listed service has a running alive check, whose timer removes it.     *)
ListedAreWatched == \A s \in Services : Listed(s) => watcher[s] = "watch"

(* A client's newest list of a name it asked for is the current one, or    *)
(* somebody is about to make it a newer one: no change goes unsent,        *)
(* however registrations, resignations and requests interleave.            *)
AboutToInform(n, v) ==
    \E s \in Services : NameOf[s] = n /\
        \/ at[s] = "listed" \/ gone[s] = "unlisted"
        \/ \E c \in Causes : \/ informer[s][c].at = "collect"
                             \/ informer[s][c].at = "snapshot" /\ v \in informer[s][c].to
EveryChangeIsSent ==
    \A v \in clients : Listed(v) =>
        \A n \in interest[v] : newest[v][n] = services[n] \/ AboutToInform(n, v)

(* Nobody is a member of the registry whom no timer would remove.          *)
MembersAreWatched == ClientsAreListed /\ ListedAreWatched

(* A process that is gone is removed everywhere, its channel is closed and *)
(* its alive check has ended.                                              *)
DeadAreRemoved ==
    \A s \in Mortal : ~alive[s] /\ at[s] # "out" ~>
        \/ /\ ~Listed(s) /\ s \notin clients /\ watcher[s] = "exit" /\ closed[s]
        \/ panic

(* Once nothing is under way, a registered client either has no entry for  *)
(* a name it has asked for, and will ask again, or the list of the live    *)
(* instances (registry_test.go:96 waits 100ms after two registrations and  *)
(* expects all three instances).  It is stored in the order of arrival: an *)
(* older reply, or update, may replace a newer one, and stay.              *)
Settled ==
    /\ net = {} /\ \A s \in Services : at[s] # "listed" /\ gone[s] # "unlisted"
    /\ \A s \in Services, c \in Causes : informer[s][c].at \in {"idle", "done"}
ViewsAreCurrent ==
    Settled => \A v \in clients : alive[v] /\ Listed(v) =>
        \A n \in interest[v] : view[v][n] \in {None, services[n]}

-----------------------------------------------------------------------------
(* Ids in use have been handed out, and a service is listed only after it  *)
(* has come to the section under seMu.                                     *)
IdsAreFresh ==
    /\ \A i \in Ids : idToService[i] # None => i <= lastId
    /\ \A s \in Services : at[s] \in {"out", "watched"} => ~Listed(s)

(* The inductive invariant behind IndexesAgree and NeverPanics.            *)
IInv == IndexTypes /\ IndexesAgree /\ IdsAreFresh /\ NeverPanics

(* What EveryChangeIsSent needs beyond it: a service asks for nothing and  *)
(* is told nothing before it has entered.                                  *)
SentTypes ==
    /\ clients \subseteq Listening
    /\ gone \in [Services -> {"no", "unlisted", "informing", "closed"}]
    /\ informer \in [Services -> [Causes ->
                      [at : {"idle", "collect", "snapshot", "done"}, to : SUBSET Services]]]
    /\ interest \in [Services -> SUBSET Names] /\ newest \in [Services -> Lists]
Newcomers == \A s \in Services : at[s] # "up" => s \notin clients /\ interest[s] = {}
SentInv == SentTypes /\ Newcomers /\ EveryChangeIsSent

(* What MembersAreWatched needs: an id is one service's, so that an alive  *)
(* check removes its own; a removed service never comes back; and unless   *)
(* registrations stall, nobody is removed before it is a member.           *)
IdsAreOwn ==
    /\ \A s \in Services : idOf[s] <= lastId /\ (at[s] \in {"out", "watched"} => idOf[s] = 0)
    /\ \A s, t \in Services : idOf[s] = idOf[t] => s = t \/ idOf[s] = 0
GoneForGood ==
    /\ \A s \in Services : gone[s] # "no" => at[s] = "up" /\ ~Listed(s)
    /\ \A s \in Services : closed[s] => gone[s] = "closed"
Arrivals ==
    \A s \in Services : /\ at[s] \in {"watched", "listed"} => watcher[s] = "watch"
                        /\ at[s] = "listed" => Listed(s)
WatchTypes ==
    /\ watcher \in [Services -> {"none", "watch", "resign", "exit"}]
    /\ closed \in [Services -> BOOLEAN]
WatchInv == WatchTypes /\ IdsAreOwn /\ GoneForGood /\ Arrivals /\ MembersAreWatched
=============================================================================
