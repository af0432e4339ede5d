--------------------------- MODULE BalancedClient ---------------------------
(***************************************************************************)
(* The balanced client (Geb_RPC/client/clientBalanced.go) composed with    *)
(* its registry client.  A call asks the registry client for addresses,    *)
(* picks one, and uses the one rpc client of that address, which the first *)
(* call builds in a goroutine while the others wait.  The rpc client is    *)
(* taken for what CallContract promises: a call that was issued ends.      *)
(***************************************************************************)
EXTENDS Naturals, Sequences

CONSTANTS
    Callers,        \* goroutines, each at one Go, Call or CallUntil
    User,           \* the goroutine that may call Close
    Slots,          \* the CClients that may be made: a bound
    Name,           \* the service the callers want
    Pushes, Addrs, Lists, Cap, None \* of the registry client

VARIABLES
    reg, mu, view, ch, chState, updater, item, push, ask, got, asked,
    closer, closed, listening, heart, crash,    \* the registry client
    bmu,            \* the caller that holds b.mu while it asks for addresses
    clients,        \* b.clients; an address without entry maps to None
    slot,           \* per CClient: its fields and its goroutine
    caller,         \* per caller: where it is, its CClient, the error it got
    bclosed, todo,  \* b.closed; the CClients Close still has to close
    panic           \* what took the process down, if anything did

regVars == <<reg, mu, view, ch, chState, updater, item, push, ask, got, asked,
             closer, closed, listening, heart, crash>>
balVars == <<bmu, clients, slot, caller, bclosed, todo, panic>>
vars == <<regVars, balVars>>

Registry == INSTANCE RegistryClient WITH
    Users <- Callers, Closers <- {User}, Names <- {Name}

ASSUME BalancedConstants ==
    /\ Registry!RegistryConstants
    /\ User \notin Callers /\ None \notin Callers \cup Slots /\ Slots \subseteq Nat

BmuFree == bmu = None

(* at: the goroutine that builds the client; c: the client; err, down:     *)
(* c.err # nil, c.down is closed.                                          *)
Unmade == [at |-> "none", addr |-> None, c |-> "nil", err |-> FALSE, down |-> FALSE]

Init ==
    /\ Registry!Init
    /\ bmu = None /\ clients = [a \in Addrs |-> None]
    /\ slot = [s \in Slots |-> Unmade]
    /\ caller = [c \in Callers |-> [at |-> "idle", slot |-> None, err |-> "none"]]
    /\ bclosed = FALSE /\ todo = {} /\ panic = "no"

-----------------------------------------------------------------------------
(* Go.                                                                     *)

Move(c, l) == caller' = [caller EXCEPT ![c].at = l]
Return(c, e) == caller' = [caller EXCEPT ![c].at = "returned", ![c].err = e]

(* The client exists once NewBalancedClient has its registry client.  An   *)
(* illegal targetMethod is refused before b.mu, a closed client under it.  *)
Begin(c) ==
    /\ caller[c].at = "idle" /\ reg = "ok"
    /\ \/ Return(c, "error") /\ UNCHANGED bmu
       \/ BmuFree /\ bclosed /\ Return(c, "error") /\ UNCHANGED bmu
       \/ BmuFree /\ ~bclosed /\ bmu' = c /\ Move(c, "ask")
    /\ UNCHANGED <<regVars, clients, slot, bclosed, todo, panic>>

(* b.mu stays locked for the whole of GetServiceAdders, HTTP included.     *)
AskRegistry(c) ==
    /\ caller[c].at = "ask" /\ Registry!UserStep(c)
    /\ UNCHANGED balVars

NoAddress(c) ==
    /\ caller[c].at = "ask" /\ got[c].addrs = {} /\ Registry!Take(c)
    /\ bmu' = None /\ Return(c, "error")
    /\ UNCHANGED <<clients, slot, bclosed, todo, panic>>

(* Any address of the list; a CClient is made if the map has none.         *)
MakeIf(a, s, missing) ==
    IF missing
    THEN /\ slot[s].at = "none" /\ \A t \in Slots : t < s => slot[t].at # "none"
         /\ slot' = [slot EXCEPT ![s] = [Unmade EXCEPT !.at = "lock", !.addr = a]]
         /\ clients' = [clients EXCEPT ![a] = s]
    ELSE s = clients[a] /\ UNCHANGED <<slot, clients>>

MakeAlways(a, s) == MakeIf(a, s, TRUE)      \* variant: the map is not consulted
Make(a, s) == MakeIf(a, s, clients[a] = None)

PickAddress(c) ==
    /\ caller[c].at = "ask" /\ Registry!Take(c)
    /\ \E a \in got[c].addrs, s \in Slots :
         /\ Make(a, s)
         /\ caller' = [caller EXCEPT ![c].at = "wait", ![c].slot = s]
    /\ bmu' = None
    /\ UNCHANGED <<bclosed, todo, panic>>

(* call.Error = err: the err of GetServiceAdders, nil here, not c.err.     *)
BuildFailed(c) ==
    /\ caller[c].at = "wait" /\ slot[caller[c].slot].down /\ slot[caller[c].slot].err
    /\ Return(c, "nil")
    /\ UNCHANGED <<regVars, bmu, clients, slot, bclosed, todo, panic>>

(* c.c.Go: a closed client refuses.                                        *)
Issue(c) ==
    /\ caller[c].at = "wait" /\ slot[caller[c].slot].down /\ ~slot[caller[c].slot].err
    /\ caller' = [caller EXCEPT ![c] =
         IF slot[@.slot].c = "closed" THEN [at |-> "returned", slot |-> None, err |-> "error"]
                                      ELSE [at |-> "rpc", slot |-> None, err |-> "none"]]
    /\ UNCHANGED <<regVars, bmu, clients, slot, bclosed, todo, panic>>

(* The rpc client ends the call: with its outcome, or since it was closed, *)
(* by the user or by itself.                                               *)
RpcEnds(c) ==
    /\ caller[c].at = "rpc"
    /\ \E e \in {"nil", "error"} : Return(c, e)
    /\ UNCHANGED <<regVars, bmu, clients, slot, bclosed, todo, panic>>

-----------------------------------------------------------------------------
(* The goroutine that builds the client of slot s.                         *)

ReadOption(s) ==
    /\ slot[s].at = "lock" /\ BmuFree /\ slot' = [slot EXCEPT ![s].at = "dial"]
    /\ UNCHANGED <<regVars, bmu, clients, caller, bclosed, todo, panic>>

Dial(s) ==
    /\ slot[s].at = "dial"
    /\ slot' \in {[slot EXCEPT ![s].at = "built", ![s].c = "open"],
                  [slot EXCEPT ![s].at = "failed", ![s].err = TRUE]}
    /\ UNCHANGED <<regVars, bmu, clients, caller, bclosed, todo, panic>>

(* b.clients is nil once the client is closed, and Close ranges over it.   *)
RemoveThen(s, l) ==
    /\ slot[s].at = "failed" /\ BmuFree /\ slot' = [slot EXCEPT ![s].at = l]
    /\ clients' = IF bclosed THEN clients ELSE [clients EXCEPT ![slot[s].addr] = None]
    /\ UNCHANGED <<regVars, bmu, caller, bclosed, todo, panic>>

RemoveOnly(s) == RemoveThen(s, "end")       \* variant: down stays open
Remove(s) == RemoveThen(s, "built")

CloseDown(s) ==
    /\ slot[s].at = "built" /\ slot' = [slot EXCEPT ![s].at = "end", ![s].down = TRUE]
    /\ UNCHANGED <<regVars, bmu, clients, caller, bclosed, todo, panic>>

-----------------------------------------------------------------------------
(* Close: mark, close the registry client, then every CClient of the map.  *)

Taken == {clients[a] : a \in Addrs} \ {None}
TakenBuilt == {s \in Taken : slot[s].down}  \* variant: those being built are skipped
Taking == Taken

Mark ==
    /\ closer[User] = "none" /\ reg = "ok" /\ ~bclosed /\ BmuFree
    /\ bclosed' = TRUE /\ todo' = Taking
    /\ clients' = [a \in Addrs |-> None]
    /\ UNCHANGED <<regVars, bmu, slot, caller, panic>>

CloseRegistry ==
    /\ bclosed /\ (Registry!CloseMark(User) \/ Registry!CloseStep(User))
    /\ UNCHANGED balVars

(* CClient.Close; c.c is a nil interface until the client is built.        *)
CloseClient(s) ==
    /\ closer[User] = "done" /\ s \in todo /\ todo' = todo \ {s}
    /\ IF slot[s].c = "nil" THEN panic' = "nil client" /\ UNCHANGED slot
       ELSE slot' = [slot EXCEPT ![s].c = "closed"] /\ UNCHANGED panic
    /\ UNCHANGED <<regVars, bmu, clients, caller, bclosed>>

-----------------------------------------------------------------------------
CallerStep(c) ==
    \/ AskRegistry(c) \/ NoAddress(c) \/ PickAddress(c)
    \/ BuildFailed(c) \/ Issue(c) \/ RpcEnds(c)
BuilderStep(s) == ReadOption(s) \/ Dial(s) \/ Remove(s) \/ CloseDown(s)
CloseStep == CloseRegistry \/ \E s \in todo : CloseClient(s)
Inside == UNCHANGED balVars /\
    (Registry!RegisterStep \/ Registry!UpdaterStep \/ Registry!HeartBeat)
Handle(p) == UNCHANGED balVars /\ Registry!Handle(p)

Running ==
    \/ \E c \in Callers : Begin(c) \/ CallerStep(c)
    \/ \E s \in Slots : BuilderStep(s)
    \/ Mark \/ CloseStep \/ Inside
    \/ \E p \in Pushes : Handle(p) \/ (UNCHANGED balVars /\ Registry!Arrive(p))

(* The process has died, or everybody is done.                             *)
Stopped ==
    /\ \/ panic # "no" \/ crash # "no"
       \/ /\ \A c \in Callers : caller[c].at = "returned" \/ reg = "failed"
          /\ \A s \in Slots : slot[s].at \in {"none", "end"}
          /\ \A p \in Pushes : push[p].at \in {"none", "done"}
          /\ closer[User] = "done" \/ reg = "failed"
          /\ todo = {} /\ updater \in {"exit", "stuck"}
    /\ UNCHANGED vars

Next == (panic = "no" /\ crash = "no" /\ Running) \/ Stopped

Spec == Init /\ [][Next]_vars

(* Every goroutine that can run, runs; requests to the registry and rpc    *)
(* calls end.  Nobody has to call, to close or to push.                    *)
Alive(A) == panic = "no" /\ crash = "no" /\ A
FairSpec ==
    /\ Spec
    /\ WF_vars(Alive(CloseStep))
    /\ WF_vars(Alive(UNCHANGED balVars /\ Registry!RegisterStep))
    /\ WF_vars(Alive(UNCHANGED balVars /\ Registry!UpdaterStep))
    /\ WF_vars(Alive(UNCHANGED balVars /\ Registry!HeartBeat))
    /\ \A c \in Callers : WF_vars(Alive(CallerStep(c)))
    /\ \A s \in Slots : WF_vars(Alive(BuilderStep(s)))
    /\ \A p \in Pushes : WF_vars(Alive(Handle(p)))

-----------------------------------------------------------------------------
(* Properties.                                                             *)

(* The registry client never sends on its channel, nor closes it, once it  *)
(* is closed, although HandleUpdate and Close run at once.                 *)
ChannelIsSafe == Registry!ChannelIsSafe

(* For one address at most one client is being built or open at a time     *)
(* (clientBalanced.go:121), through failures, retries and Close.           *)
InUse(s) == slot[s].at \in {"lock", "dial"} \/ slot[s].c = "open"
OneClientPerAddress ==
    \A s, t \in Slots : s # t /\ InUse(s) /\ InUse(t) => slot[s].addr # slot[t].addr

(* When Close has returned, no client is open, none is still being built,  *)
(* and nothing will be made again: what Close missed would leak.           *)
CloseClosesAll ==
    closer[User] = "done" /\ todo = {} /\ panic = "no" => \A s \in Slots : ~InUse(s)

(* Every call returns, whatever fails and whoever closes, unless Close     *)
(* meets a client that is not built and panics.                            *)
CallsReturn ==
    \A c \in Callers : caller[c].at # "idle" ~> caller[c].at = "returned" \/ panic # "no"

(* An update that has come in is handled and the channel emptied: while no *)
(* more than Cap + 1 updates come in at once.                              *)
UpdatesAreApplied ==
    \A p \in Pushes : push[p].at # "none" ~>
        \/ push[p].at = "done" /\ ch = <<>> /\ updater \in {"recv", "exit"}
        \/ panic # "no"

(* A Close that has begun returns, and doUpdate and heartBeat end.         *)
CloseEndsGoroutines ==
    bclosed ~> \/ closer[User] = "done" /\ todo = {} /\ updater = "exit" /\ heart = "exit"
               \/ panic # "no"

-----------------------------------------------------------------------------
(* The inductive invariant behind OneClientPerAddress and CloseClosesAll:  *)
(* until Close the map names every client that is in use, or still has to  *)
(* be removed from it; who asks for addresses holds b.mu, so that nobody   *)
(* does once Close has taken the map; and what is in use then is left for  *)
(* Close to do.                                                            *)
Live(s) == InUse(s) \/ slot[s].at = "failed"
CClient == [at : {"none", "lock", "dial", "failed", "built", "end"},
            addr : Addrs \cup {None}, c : {"nil", "open", "closed"},
            err : BOOLEAN, down : BOOLEAN]
Caller == [at : {"idle", "ask", "wait", "rpc", "returned"},
           slot : Slots \cup {None}, err : {"none", "nil", "error"}]
TypeOK ==
    /\ bmu \in Callers \cup {None} /\ clients \in [Addrs -> Slots \cup {None}]
    /\ slot \in [Slots -> CClient] /\ caller \in [Callers -> Caller]
    /\ bclosed \in BOOLEAN /\ todo \subseteq Slots /\ panic \in {"no", "nil client"}
InvAsk ==
    /\ \A c \in Callers : caller[c].at = "ask" => bmu = c /\ ~bclosed
    /\ ~bclosed => closer[User] = "none" /\ todo = {}
InvSlots ==
    \A s \in Slots :
       /\ slot[s].c # "nil" => slot[s].at \in {"built", "end"}
       /\ Live(s) => slot[s].addr \in Addrs
       /\ Live(s) /\ ~bclosed => clients[slot[s].addr] = s
       /\ InUse(s) /\ bclosed /\ panic = "no" => s \in todo
       /\ \A t \in Slots : s # t /\ Live(s) /\ Live(t) => slot[s].addr # slot[t].addr
BInv == TypeOK /\ InvAsk /\ InvSlots
=============================================================================
