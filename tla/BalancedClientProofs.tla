------------------------ MODULE BalancedClientProofs ------------------------
(***************************************************************************)
(* BalancedClient implements RegistryClient, whose theorem it inherits;    *)
(* one client per address is in use, which Close finds; and no caller is   *)
(* ever stuck but for the deadlock of its registry client, for any number  *)
(* of callers, addresses and updates.                                      *)
(***************************************************************************)
EXTENDS BalancedClient, TLAPS

Proofs == INSTANCE RegistryClientProofs WITH
    Users <- Callers, Closers <- {User}, Names <- {Name}

-----------------------------------------------------------------------------
(* The registry client inside.                                             *)

LEMMA RegistryStays == ASSUME UNCHANGED regVars PROVE UNCHANGED Registry!vars
  BY DEF regVars, Registry!vars, Registry!chVars, Registry!userVars,
     Registry!lifeVars

(* Every step of the balanced client is one of its registry client, or     *)
(* none of its business.                                                   *)
LEMMA RegistrySteps == ASSUME [Next]_vars PROVE [Registry!Next]_(Registry!vars)
<1>1. CASE \E c \in Callers : Begin(c) \/ CallerStep(c)
  <2>1. PICK c \in Callers : Begin(c) \/ CallerStep(c)
    BY <1>1
  <2>2. CASE AskRegistry(c)
    BY <2>2 DEF AskRegistry, Registry!Next
  <2>3. CASE NoAddress(c) \/ PickAddress(c)
    BY <2>3 DEF NoAddress, PickAddress, Registry!Next
  <2>4. CASE Begin(c) \/ BuildFailed(c) \/ Issue(c) \/ RpcEnds(c)
    BY <2>4, RegistryStays DEF Begin, BuildFailed, Issue, RpcEnds
  <2> QED BY <2>1, <2>2, <2>3, <2>4 DEF CallerStep
<1>2. CASE \E s \in Slots : BuilderStep(s)
    BY <1>2, RegistryStays DEF BuilderStep, ReadOption, Dial, Remove,
     RemoveThen, CloseDown
<1>3. CASE Mark
  BY <1>3, RegistryStays DEF Mark
<1>4. CASE CloseStep
  <2>1. CASE CloseRegistry
    BY <2>1 DEF CloseRegistry, Registry!Next
  <2>2. CASE \E s \in todo : CloseClient(s)
    BY <2>2, RegistryStays DEF CloseClient
  <2> QED BY <1>4, <2>1, <2>2 DEF CloseStep
<1>5. CASE Inside
  BY <1>5 DEF Inside, Registry!Next
<1>6. CASE \E p \in Pushes : Handle(p) \/ (UNCHANGED balVars /\ Registry!Arrive(p))
  BY <1>6 DEF Handle, Registry!Next
<1>7. CASE UNCHANGED vars \/ Stopped
  BY <1>7, RegistryStays DEF vars, Stopped
<1> QED BY <1>1, <1>2, <1>3, <1>4, <1>5, <1>6, <1>7 DEF Next, Running

(* The balanced client uses its registry client as RegistryClient says a   *)
(* registry client is used: one call of a user at a time, and Close once.  *)
THEOREM ImplementsRegistryClient == Spec => Registry!Spec
<1>1. Init => Registry!Init
  BY DEF Init
<1>2. [Next]_vars => [Registry!Next]_(Registry!vars)
  BY RegistrySteps
<1> QED BY <1>1, <1>2, PTL DEF Spec, Registry!Spec

(* Both instances of RegistryClient are the same.                          *)
LEMMA SameRegistry ==
    /\ Registry!Init => Proofs!Init
    /\ [Registry!Next]_(Registry!vars) => [Proofs!Next]_(Proofs!vars)
    /\ Registry!RegistryConstants => Proofs!RegistryConstants
    /\ Proofs!IInv => Registry!ChannelIsSafe
<1>1. Registry!Init => Proofs!Init
    BY DEF Registry!Init, Proofs!Init, Registry!Result, Proofs!Result,
     Registry!At, Proofs!At
<1>2. UNCHANGED Registry!vars => UNCHANGED Proofs!vars
    BY DEF Registry!vars, Proofs!vars, Registry!chVars, Proofs!chVars,
     Registry!userVars, Proofs!userVars, Registry!lifeVars, Proofs!lifeVars
<1>3. Registry!Next <=> Proofs!Next
    BY DEF Registry!chVars, Proofs!chVars, Registry!userVars,
     Proofs!userVars, Registry!lifeVars, Proofs!lifeVars, Registry!vars,
     Proofs!vars, Registry!MuFree, Proofs!MuFree, Registry!Listen,
     Proofs!Listen, Registry!Registered, Proofs!Registered,
     Registry!RegisterFails, Proofs!RegisterFails, Registry!Returns,
     Proofs!Returns, Registry!Get, Proofs!Get, Registry!StoreAnswer,
     Proofs!StoreAnswer, Registry!AskFails, Proofs!AskFails, Registry!Take,
     Proofs!Take, Registry!Arrive, Proofs!Arrive, Registry!LockUnless,
     Proofs!LockUnless, Registry!Lock, Proofs!Lock, Registry!Send,
     Proofs!Send, Registry!Range, Proofs!Range, Registry!ReceiveWhen,
     Proofs!ReceiveWhen, Registry!Receive, Proofs!Receive, Registry!Apply,
     Proofs!Apply, Registry!CloseMark, Proofs!CloseMark, Registry!CloseCh,
     Proofs!CloseCh, Registry!StopListening, Proofs!StopListening,
     Registry!HeartBeat, Proofs!HeartBeat, Registry!RegisterStep,
     Proofs!RegisterStep, Registry!UserStep, Proofs!UserStep,
     Registry!Handle, Proofs!Handle, Registry!UpdaterStep,
     Proofs!UpdaterStep, Registry!CloseStep, Proofs!CloseStep, Registry!Next,
     Proofs!Next, Registry!Result, Proofs!Result, Registry!At, Proofs!At
<1>4. Registry!RegistryConstants => Proofs!RegistryConstants
  BY DEF Registry!RegistryConstants, Proofs!RegistryConstants
<1>5. Proofs!IInv => Registry!ChannelIsSafe
  BY DEF Proofs!IInv, Proofs!ChannelIsSafe, Registry!ChannelIsSafe
<1> QED BY <1>1, <1>2, <1>3, <1>4, <1>5

(* So its invariant holds of the registry client of a balanced client.     *)
LEMMA RegistryInvariant == Spec => []Proofs!IInv
<1>1. Init => Proofs!IInv
  BY BalancedConstants, SameRegistry, Proofs!InvInit DEF Init
<1>2. Proofs!IInv /\ [Next]_vars => Proofs!IInv'
  BY BalancedConstants, SameRegistry, RegistrySteps, Proofs!InvNext
<1> QED BY <1>1, <1>2, PTL DEF Spec

(* Whatever callers, updates and Close do at once: HandleUpdate does not   *)
(* send on the closed channel, and Close closes it once                    *)
(* (registryClient.go, Close and HandleUpdate).                            *)
THEOREM ChannelIsAlwaysSafe == Spec => []ChannelIsSafe
<1>1. Proofs!IInv => ChannelIsSafe
  BY SameRegistry DEF ChannelIsSafe
<1> QED BY <1>1, RegistryInvariant, PTL

(* What GetServiceAdders returns are addresses.                            *)
Known == \A c \in Callers : got[c].addrs \subseteq Addrs
LEMMA AlwaysKnown == Spec => []Known
<1>1. Proofs!IInv => Known
  BY BalancedConstants DEF Known, Proofs!IInv, Proofs!TypeOK, Registry!RegistryConstants
<1> QED BY <1>1, RegistryInvariant, PTL

-----------------------------------------------------------------------------
(* The clients.                                                            *)

LEMMA InvInit == Init => BInv
<1> SUFFICES ASSUME Init PROVE BInv
  OBVIOUS
<1> USE BalancedConstants DEF Init
<1>1. Unmade \in CClient /\ [at |-> "idle", slot |-> None, err |-> "none"] \in Caller
  BY DEF Unmade, CClient, Caller
<1>2. TypeOK
  BY <1>1 DEF TypeOK
<1>3. InvAsk
  BY DEF InvAsk, Registry!Init
<1>4. InvSlots
  BY DEF InvSlots, Live, InUse, Unmade
<1> QED BY <1>2, <1>3, <1>4 DEF BInv

(* Only CloseRegistry moves Close in the registry client.                  *)
LEMMA OthersLeaveCloser ==
    ASSUME \/ Inside \/ \E c \in Callers : Registry!UserStep(c) \/ Registry!Take(c)
           \/ \E p \in Pushes : Registry!Handle(p) \/ Registry!Arrive(p)
    PROVE  closer' = closer
BY DEF Inside, Registry!RegisterStep, Registry!Listen, Registry!Registered,
    Registry!RegisterFails, Registry!UpdaterStep, Registry!Range, Registry!Receive,
    Registry!ReceiveWhen, Registry!Apply, Registry!HeartBeat, Registry!UserStep,
    Registry!Get, Registry!StoreAnswer, Registry!AskFails, Registry!Take,
    Registry!Handle, Registry!Lock, Registry!LockUnless, Registry!Send,
    Registry!Arrive, Registry!lifeVars

(* What leaves the clients, the callers and Close alone leaves BInv alone. *)
LEMMA Untouched ==
    ASSUME BInv, UNCHANGED balVars, closer' = closer PROVE BInv'
<1>1. TypeOK'
  BY DEF balVars, BInv, TypeOK
<1>2. InvAsk'
  BY DEF balVars, BInv, InvAsk
<1>3. InvSlots'
  BY DEF balVars, BInv, InvSlots, Live, InUse
<1> QED BY <1>1, <1>2, <1>3 DEF BInv

(* A client that moves on to r, and is in use only if it was before: the   *)
(* map and Close's list may only lose clients that are not in use.         *)
LEMMA SlotsKeep ==
    ASSUME BInv, NEW s \in Slots, NEW r \in CClient, slot' = [slot EXCEPT ![s] = r],
           r.addr = slot[s].addr, r.c # "nil" => r.at \in {"built", "end"},
           r.at = "failed" => Live(s),
           r.at \in {"lock", "dial"} \/ r.c = "open" => InUse(s),
           bclosed' = bclosed, panic' = "no" => panic = "no",
           ~bclosed => \A t \in Slots : Live(t)' =>
               clients'[slot[t].addr] = clients[slot[t].addr],
           \A t \in todo : t \in todo' \/ ~InUse(t)' \/ panic' # "no"
    PROVE  slot' \in [Slots -> CClient] /\ InvSlots'
<1>1. slot \in [Slots -> CClient]
  BY DEF BInv, TypeOK
<1>2. slot'[s] = r /\ \A t \in Slots : t # s => slot'[t] = slot[t]
  BY <1>1
<1>3. \A t \in Slots : /\ slot'[t].addr = slot[t].addr
                       /\ Live(t)' => Live(t)
                       /\ InUse(t)' => InUse(t)
  BY <1>2 DEF Live, InUse
<1>4. \A t \in Slots : slot'[t].c # "nil" => slot'[t].at \in {"built", "end"}
  BY <1>2 DEF BInv, InvSlots
<1>5. \A t \in Slots : /\ Live(t)' => slot'[t].addr \in Addrs
                       /\ Live(t)' /\ ~bclosed' => clients'[slot'[t].addr] = t
  BY <1>3 DEF BInv, InvSlots
<1>6. \A t \in Slots : InUse(t)' /\ bclosed' /\ panic' = "no" => t \in todo'
  BY <1>3 DEF BInv, InvSlots
<1>7. \A t, u \in Slots : t # u /\ Live(t)' /\ Live(u)' => slot'[t].addr # slot'[u].addr
  BY <1>3 DEF BInv, InvSlots
<1> QED BY <1>1, <1>4, <1>5, <1>6, <1>7 DEF InvSlots

(* A caller that moves, and does not come to ask for addresses without     *)
(* b.mu.                                                                   *)
LEMMA CallersKeep ==
    ASSUME BInv, NEW c \in Callers, NEW r \in Caller, caller' = [caller EXCEPT ![c] = r],
           r.at = "ask" => bmu' = c /\ ~bclosed,
           bmu' # bmu => bmu \in {None, c}, bmu' \in Callers \cup {None},
           UNCHANGED <<bclosed, todo, panic>>, closer' = closer
    PROVE  caller' \in [Callers -> Caller] /\ InvAsk'
<1>1. caller \in [Callers -> Caller]
  BY DEF BInv, TypeOK
<1>2. caller'[c] = r /\ \A d \in Callers : d # c => caller'[d] = caller[d]
  BY <1>1
<1>3. \A d \in Callers : caller'[d].at = "ask" => bmu' = d /\ ~bclosed'
  BY <1>2, BalancedConstants DEF BInv, InvAsk
<1>4. ~bclosed' => closer'[User] = "none" /\ todo' = {}
  BY DEF BInv, InvAsk
<1> QED BY <1>1, <1>3, <1>4 DEF InvAsk

(* Nothing about the clients changes.                                      *)
LEMMA SlotsStay ==
    ASSUME BInv, UNCHANGED <<clients, slot, bclosed, todo, panic>>
    PROVE  InvSlots'
BY DEF BInv, InvSlots, Live, InUse

(* A caller makes a client under b.mu, for an address that has none.       *)
LEMMA MakeKeeps ==
    ASSUME BInv, ~bclosed, NEW a \in Addrs, NEW s \in Slots, Make(a, s),
           UNCHANGED <<bclosed, todo, panic>>
    PROVE  /\ slot' \in [Slots -> CClient] /\ clients' \in [Addrs -> Slots \cup {None}]
           /\ InvSlots'
<1>1. CASE clients[a] # None
  <2>1. UNCHANGED <<slot, clients>>
    BY <1>1 DEF Make, MakeIf
  <2> QED BY <2>1, SlotsStay DEF BInv, TypeOK
<1>2. CASE clients[a] = None
  <2> DEFINE r == [Unmade EXCEPT !.at = "lock", !.addr = a]
  <2>1. /\ r \in CClient /\ r.at = "lock" /\ r.addr = a /\ r.c = "nil"
    BY DEF CClient, Unmade
  <2>2. /\ slot[s].at = "none" /\ slot' = [slot EXCEPT ![s] = r]
        /\ clients' = [clients EXCEPT ![a] = s]
    BY <1>2 DEF Make, MakeIf
  <2>3. slot \in [Slots -> CClient] /\ clients \in [Addrs -> Slots \cup {None}]
    BY DEF BInv, TypeOK
  <2> HIDE DEF r
  <2>4. /\ slot'[s] = r /\ \A t \in Slots : t # s => slot'[t] = slot[t]
        /\ clients'[a] = s /\ \A b \in Addrs : b # a => clients'[b] = clients[b]
    BY <2>2, <2>3
  <2>5. \A t \in Slots : Live(t) => slot[t].addr \in Addrs /\ slot[t].addr # a
    BY <1>2, BalancedConstants DEF BInv, InvSlots
  <2>6. \A t \in Slots : Live(t)' => t = s \/ (Live(t) /\ t # s)
    BY <2>4 DEF Live, InUse
  <2>7. \A t \in Slots : slot'[t].c # "nil" => slot'[t].at \in {"built", "end"}
    BY <2>1, <2>4 DEF BInv, InvSlots
  <2>8. \A t \in Slots : Live(t)' =>
           slot'[t].addr \in Addrs /\ clients'[slot'[t].addr] = t
    BY <2>1, <2>4, <2>5, <2>6 DEF BInv, InvSlots
  <2>9. \A t, u \in Slots : t # u /\ Live(t)' /\ Live(u)' => slot'[t].addr # slot'[u].addr
    BY <2>8
  <2> QED BY <2>1, <2>2, <2>3, <2>7, <2>8, <2>9 DEF InvSlots
<1> QED BY <1>1, <1>2

LEMMA CallerKeeps ==
    ASSUME BInv, Known, NEW c \in Callers, Begin(c) \/ CallerStep(c)
    PROVE  BInv'
<1>1. CASE AskRegistry(c)
  BY <1>1, OthersLeaveCloser, Untouched DEF AskRegistry
<1>2. /\ caller \in [Callers -> Caller] /\ caller[c] \in Caller
      /\ BalancedConstants /\ bmu \in Callers \cup {None}
      /\ clients \in [Addrs -> Slots \cup {None}] /\ slot \in [Slots -> CClient]
      /\ bclosed \in BOOLEAN /\ todo \subseteq Slots /\ panic \in {"no", "nil client"}
  BY BalancedConstants DEF BInv, TypeOK
<1>3. ASSUME NEW r \in Caller, caller' = [caller EXCEPT ![c] = r],
             r.at = "ask" => bmu' = c /\ ~bclosed,
             bmu' # bmu => bmu \in {None, c}, bmu' \in Callers \cup {None},
             UNCHANGED <<clients, slot, bclosed, todo, panic>>, closer' = closer
      PROVE  BInv'
  <2>1. caller' \in [Callers -> Caller] /\ InvAsk' /\ InvSlots'
    BY <1>3, CallersKeep, SlotsStay
  <2>2. TypeOK'
    BY <1>2, <1>3, <2>1 DEF TypeOK
  <2> QED BY <2>1, <2>2 DEF BInv
<1>4. CASE Begin(c)
  <2>1. /\ [caller[c] EXCEPT !.at = "returned", !.err = "error"] \in Caller
        /\ [caller[c] EXCEPT !.at = "ask"] \in Caller
    BY <1>2 DEF Caller
  <2>2. /\ [caller[c] EXCEPT !.at = "returned", !.err = "error"].at = "returned"
        /\ [caller[c] EXCEPT !.at = "ask"].at = "ask"
    BY <1>2 DEF Caller
  <2>3. UNCHANGED <<clients, slot, bclosed, todo, panic>> /\ closer' = closer
    BY <1>4 DEF Begin, regVars
  <2>4. CASE Return(c, "error") /\ UNCHANGED bmu
    <3>1. caller' = [caller EXCEPT ![c] = [caller[c] EXCEPT !.at = "returned", !.err = "error"]]
      BY <2>4 DEF Return
    <3> QED BY <1>2, <1>3, <2>1, <2>2, <2>3, <2>4, <3>1
  <2>5. CASE BmuFree /\ ~bclosed /\ bmu' = c /\ Move(c, "ask")
    <3>1. caller' = [caller EXCEPT ![c] = [caller[c] EXCEPT !.at = "ask"]]
      BY <2>5 DEF Move
    <3>2. bmu = None /\ bmu' = c
      BY <2>5 DEF BmuFree
    <3> QED BY <1>2, <1>3, <2>1, <2>2, <2>3, <2>5, <3>1, <3>2
  <2> QED BY <1>4, <2>4, <2>5 DEF Begin
<1>5. CASE NoAddress(c)
  <2>1. /\ [caller[c] EXCEPT !.at = "returned", !.err = "error"] \in Caller
        /\ [caller[c] EXCEPT !.at = "returned", !.err = "error"].at = "returned"
    BY <1>2 DEF Caller
  <2>2. closer' = closer
    BY <1>5, OthersLeaveCloser DEF NoAddress
  <2>3. bmu = c /\ bmu' = None /\ UNCHANGED <<clients, slot, bclosed, todo, panic>>
    BY <1>5 DEF NoAddress, BInv, InvAsk
  <2>4. caller' = [caller EXCEPT ![c] = [caller[c] EXCEPT !.at = "returned", !.err = "error"]]
    BY <1>5 DEF NoAddress, Return
  <2> QED BY <1>2, <1>3, <2>1, <2>2, <2>3, <2>4
<1>6. CASE PickAddress(c)
  <2>1. /\ closer' = closer /\ bmu = c /\ bmu' = None /\ ~bclosed
        /\ UNCHANGED <<bclosed, todo, panic>>
    BY <1>6, OthersLeaveCloser DEF PickAddress, BInv, InvAsk
  <2>2. PICK a \in got[c].addrs, s \in Slots :
           Make(a, s) /\ caller' = [caller EXCEPT ![c].at = "wait", ![c].slot = s]
    BY <1>6 DEF PickAddress
  <2>3. /\ [caller[c] EXCEPT !.at = "wait", !.slot = s] \in Caller
        /\ [caller[c] EXCEPT !.at = "wait", !.slot = s].at = "wait"
    BY <1>2 DEF Caller
  <2>4. caller' = [caller EXCEPT ![c] = [caller[c] EXCEPT !.at = "wait", !.slot = s]]
    BY <2>2
  <2>5. caller' \in [Callers -> Caller] /\ InvAsk'
    BY <1>2, <2>1, <2>3, <2>4, CallersKeep
  <2>6. /\ slot' \in [Slots -> CClient] /\ clients' \in [Addrs -> Slots \cup {None}]
        /\ InvSlots'
    BY <2>1, <2>2, MakeKeeps DEF Known
  <2>7. TypeOK'
    BY <1>2, <2>1, <2>5, <2>6 DEF TypeOK
  <2> QED BY <2>5, <2>6, <2>7 DEF BInv
<1>7. CASE BuildFailed(c)
  <2>1. /\ [caller[c] EXCEPT !.at = "returned", !.err = "nil"] \in Caller
        /\ [caller[c] EXCEPT !.at = "returned", !.err = "nil"].at = "returned"
    BY <1>2 DEF Caller
  <2>2. caller' = [caller EXCEPT ![c] = [caller[c] EXCEPT !.at = "returned", !.err = "nil"]]
    BY <1>7 DEF BuildFailed, Return
  <2> QED BY <1>2, <1>3, <1>7, <2>1, <2>2 DEF BuildFailed, regVars
<1>8. CASE Issue(c)
  <2>1. /\ [at |-> "returned", slot |-> None, err |-> "error"] \in Caller
        /\ [at |-> "rpc", slot |-> None, err |-> "none"] \in Caller
    BY DEF Caller
  <2>2. PICK r \in {[at |-> "returned", slot |-> None, err |-> "error"],
                    [at |-> "rpc", slot |-> None, err |-> "none"]} :
           caller' = [caller EXCEPT ![c] = r]
    BY <1>2, <1>8 DEF Issue
  <2>3. r.at # "ask" /\ r \in Caller
    BY <2>1
  <2> QED BY <1>2, <1>3, <1>8, <2>2, <2>3 DEF Issue, regVars
<1>9. CASE RpcEnds(c)
  <2>1. PICK e \in {"nil", "error"} :
           caller' = [caller EXCEPT ![c] = [caller[c] EXCEPT !.at = "returned", !.err = e]]
    BY <1>9 DEF RpcEnds, Return
  <2>2. /\ [caller[c] EXCEPT !.at = "returned", !.err = e] \in Caller
        /\ [caller[c] EXCEPT !.at = "returned", !.err = e].at = "returned"
    BY <1>2 DEF Caller
  <2> QED BY <1>2, <1>3, <1>9, <2>1, <2>2 DEF RpcEnds, regVars
<1> QED BY <1>1, <1>4, <1>5, <1>6, <1>7, <1>8, <1>9 DEF CallerStep

(* The goroutine that builds a client removes it from the map while it is  *)
(* still the one the map names.                                            *)
LEMMA BuilderKeeps ==
    ASSUME BInv, NEW s \in Slots, BuilderStep(s)
    PROVE  BInv'
<1>1. /\ slot[s] \in CClient /\ clients \in [Addrs -> Slots \cup {None}]
      /\ UNCHANGED <<bmu, caller, bclosed, todo, panic>> /\ closer' = closer
  BY DEF BuilderStep, ReadOption, Dial, Remove, RemoveThen, CloseDown, regVars, BInv, TypeOK
<1>2. ASSUME slot' \in [Slots -> CClient], InvSlots',
             clients' \in [Addrs -> Slots \cup {None}]
      PROVE  BInv'
  <2>1. TypeOK'
    BY <1>1, <1>2 DEF BInv, TypeOK
  <2>2. InvAsk'
    BY <1>1 DEF BInv, InvAsk
  <2> QED BY <1>2, <2>1, <2>2 DEF BInv
<1>3. CASE ReadOption(s)
  <2> DEFINE r == [slot[s] EXCEPT !.at = "dial"]
  <2>1. r \in CClient /\ r.at = "dial" /\ r.c = slot[s].c /\ r.addr = slot[s].addr
    BY <1>1 DEF CClient
  <2>2. /\ slot[s].at = "lock" /\ slot' = [slot EXCEPT ![s] = r] /\ clients' = clients
    BY <1>3 DEF ReadOption
  <2>3. slot[s].c = "nil"
    BY <2>2 DEF BInv, InvSlots
  <2> HIDE DEF r
  <2>4. InUse(s)
    BY <2>2 DEF InUse
  <2> QED BY <1>1, <1>2, <2>1, <2>2, <2>3, <2>4, SlotsKeep DEF BInv, TypeOK
<1>4. CASE Dial(s)
  <2>1. PICK r \in {[slot[s] EXCEPT !.at = "built", !.c = "open"],
                    [slot[s] EXCEPT !.at = "failed", !.err = TRUE]} :
           slot' = [slot EXCEPT ![s] = r]
    BY <1>4 DEF Dial
  <2>2. /\ r \in CClient /\ r.addr = slot[s].addr
        /\ r.at = "built" \/ (r.at = "failed" /\ r.c = slot[s].c)
    BY <1>1 DEF CClient
  <2>3. slot[s].at = "dial" /\ clients' = clients
    BY <1>4 DEF Dial
  <2>4. slot[s].c = "nil" /\ InUse(s) /\ Live(s)
    BY <2>3 DEF BInv, InvSlots, InUse, Live
  <2> QED BY <1>1, <1>2, <2>1, <2>2, <2>3, <2>4, SlotsKeep DEF BInv, TypeOK
<1>5. CASE Remove(s)
  <2> DEFINE r == [slot[s] EXCEPT !.at = "built"]
  <2>1. r \in CClient /\ r.at = "built" /\ r.c = slot[s].c /\ r.addr = slot[s].addr
    BY <1>1 DEF CClient
  <2>2. /\ slot[s].at = "failed" /\ slot' = [slot EXCEPT ![s] = r]
        /\ clients' = IF bclosed THEN clients ELSE [clients EXCEPT ![slot[s].addr] = None]
    BY <1>5 DEF Remove, RemoveThen
  <2>3. slot[s].c = "nil" /\ Live(s)
    BY <2>2 DEF BInv, InvSlots, Live
  <2> HIDE DEF r
  <2>4. slot \in [Slots -> CClient]
    BY DEF BInv, TypeOK
  <2>5. ASSUME NEW t \in Slots, Live(t)'
        PROVE  clients'[slot[t].addr] = clients[slot[t].addr]
    <3>1. t # s
      BY <2>1, <2>2, <2>3, <2>4, <2>5 DEF Live, InUse
    <3>2. Live(t)
      BY <2>2, <2>4, <2>5, <3>1 DEF Live, InUse
    <3>3. slot[t].addr # slot[s].addr /\ slot[t].addr \in Addrs
      BY <2>3, <3>1, <3>2 DEF BInv, InvSlots
    <3> QED BY <1>1, <2>2, <3>3
  <2>6. slot' \in [Slots -> CClient] /\ InvSlots'
    BY <1>1, <2>1, <2>2, <2>3, <2>5, SlotsKeep
  <2> QED BY <1>1, <1>2, <2>2, <2>6
<1>6. CASE CloseDown(s)
  <2> DEFINE r == [slot[s] EXCEPT !.at = "end", !.down = TRUE]
  <2>1. r \in CClient /\ r.at = "end" /\ r.c = slot[s].c /\ r.addr = slot[s].addr
    BY <1>1 DEF CClient
  <2>2. slot' = [slot EXCEPT ![s] = r] /\ clients' = clients
    BY <1>6 DEF CloseDown
  <2> HIDE DEF r
  <2>3. r.c = "open" => InUse(s)
    BY <2>1 DEF InUse
  <2> QED BY <1>1, <1>2, <2>1, <2>2, <2>3, SlotsKeep DEF BInv, TypeOK
<1> QED BY <1>3, <1>4, <1>5, <1>6 DEF BuilderStep

(* Close takes what the map names, which is all that is in use, and what   *)
(* it closes is built: a client under construction makes it panic.         *)
LEMMA CloseKeeps ==
    ASSUME BInv, Mark \/ CloseStep
    PROVE  BInv'
<1>0. /\ bmu \in Callers \cup {None} /\ slot \in [Slots -> CClient]
      /\ clients \in [Addrs -> Slots \cup {None}] /\ caller \in [Callers -> Caller]
      /\ bclosed \in BOOLEAN /\ todo \subseteq Slots /\ panic \in {"no", "nil client"}
  BY DEF BInv, TypeOK
<1>1. CASE Mark
  <2>1. /\ bclosed' = TRUE /\ todo' = Taken /\ clients' = [a \in Addrs |-> None]
        /\ bmu = None /\ ~bclosed /\ UNCHANGED <<bmu, slot, caller, panic>>
    BY <1>1 DEF Mark, Taking, BmuFree
  <2>2. Taken \subseteq Slots
    BY <1>0 DEF Taken
  <2>3. TypeOK'
    BY <1>0, <2>1, <2>2 DEF TypeOK
  <2>4. InvAsk'
    BY <2>1, BalancedConstants DEF BInv, InvAsk
  <2>5. \A s \in Slots : Live(s) => s \in Taken
    BY <2>1, BalancedConstants DEF BInv, InvSlots, Taken
  <2>6. \A s \in Slots : InUse(s) => Live(s)
    BY DEF Live
  <2>7. InvSlots'
    BY <2>1, <2>5, <2>6 DEF BInv, InvSlots, Live, InUse
  <2> QED BY <2>3, <2>4, <2>7 DEF BInv
<1>2. CASE CloseRegistry
  <2>1. bclosed /\ UNCHANGED <<bmu, clients, slot, caller, bclosed, todo, panic>>
    BY <1>2 DEF CloseRegistry, balVars
  <2>2. TypeOK' /\ InvSlots'
    BY <1>0, <2>1, SlotsStay DEF TypeOK
  <2>3. InvAsk'
    BY <2>1 DEF BInv, InvAsk
  <2> QED BY <2>2, <2>3 DEF BInv
<1>3. ASSUME NEW s \in todo, CloseClient(s) PROVE BInv'
  <2>1. /\ s \in Slots /\ slot[s] \in CClient /\ todo' = todo \ {s} /\ closer' = closer
        /\ UNCHANGED <<bmu, clients, caller, bclosed>>
    BY <1>0, <1>3 DEF CloseClient, regVars
  <2>2. bclosed
    BY <1>3 DEF BInv, InvAsk
  <2>3. InvAsk'
    BY <2>1, <2>2 DEF BInv, InvAsk
  <2>4. CASE slot[s].c = "nil"
    <3>1. panic' = "nil client" /\ slot' = slot
      BY <1>3, <2>4 DEF CloseClient
    <3>2. TypeOK'
      BY <1>0, <2>1, <3>1 DEF TypeOK
    <3>3. InvSlots'
      BY <2>1, <3>1 DEF BInv, InvSlots, Live, InUse
    <3> QED BY <2>3, <3>2, <3>3 DEF BInv
  <2>5. CASE slot[s].c # "nil"
    <3> DEFINE r == [slot[s] EXCEPT !.c = "closed"]
    <3>1. r \in CClient /\ r.at = slot[s].at /\ r.c = "closed" /\ r.addr = slot[s].addr
      BY <2>1 DEF CClient
    <3>2. slot' = [slot EXCEPT ![s] = r] /\ panic' = panic
      BY <1>3, <2>5 DEF CloseClient
    <3> HIDE DEF r
    <3>3. slot[s].at \in {"built", "end"}
      BY <2>1, <2>5 DEF BInv, InvSlots
    <3>4. ~InUse(s)'
      BY <1>0, <2>1, <3>1, <3>2, <3>3 DEF InUse
    <3>5. slot' \in [Slots -> CClient] /\ InvSlots'
      BY <2>1, <3>1, <3>2, <3>3, <3>4, SlotsKeep
    <3>6. TypeOK'
      BY <1>0, <2>1, <3>2, <3>5 DEF TypeOK
    <3> QED BY <2>3, <3>5, <3>6 DEF BInv
  <2> QED BY <2>4, <2>5
<1> QED BY <1>1, <1>2, <1>3 DEF CloseStep

LEMMA InvNext == BInv /\ Known /\ [Next]_vars => BInv'
<1> SUFFICES ASSUME BInv, Known, [Next]_vars PROVE BInv'
  OBVIOUS
<1>1. CASE Running
  BY <1>1, CallerKeeps, BuilderKeeps, CloseKeeps, OthersLeaveCloser, Untouched
     DEF Running, Inside, Handle
<1>2. CASE UNCHANGED vars
  BY <1>2, Untouched DEF vars, regVars
<1> QED BY <1>1, <1>2 DEF Next, Stopped

(* The invariant holds in every reachable state.                           *)
THEOREM Invariant == Spec => []BInv
BY InvInit, InvNext, AlwaysKnown, PTL DEF Spec

(* Two clients are never in use for one address, however many calls ask    *)
(* for it while its client is built, fails or is removed                   *)
(* (clientBalanced.go:120-146).                                            *)
THEOREM ClientsAreSingle == Spec => []OneClientPerAddress
<1>1. BInv => OneClientPerAddress
  BY DEF BInv, InvSlots, Live, OneClientPerAddress
<1> QED BY <1>1, Invariant, PTL

(* A Close that has returned has left nothing open or under construction   *)
(* (clientBalanced.go:54-66).                                              *)
THEOREM ClosedForGood == Spec => []CloseClosesAll
<1>1. BInv => CloseClosesAll
  BY DEF BInv, InvAsk, InvSlots, CloseClosesAll
<1> QED BY <1>1, Invariant, PTL

-----------------------------------------------------------------------------
(* Nobody is ever stuck: the half of CallsReturn that needs no fairness.   *)

(* A call that waits has a client whose goroutine has still to come to     *)
(* close down, and who holds b.mu asks the registry client.                *)
InvWait ==
    /\ \A c \in Callers :
          /\ caller[c].at = "wait" =>
                caller[c].slot \in Slots /\ slot[caller[c].slot].at # "none"
          /\ caller[c].at = "ask" => reg = "ok"
    /\ \A s \in Slots : slot[s].at = "end" => slot[s].down
    /\ \A a \in Addrs : clients[a] # None => slot[clients[a]].at # "none"
    /\ ~BmuFree => caller[bmu].at = "ask"

(* What a call and the goroutine that builds a client need to go on; Slots *)
(* bounds the clients that can be made.                                    *)
SlotsLeft == \E s \in Slots : slot[s].at = "none"
CallerMoves(c) ==
    \/ caller[c].at = "ask" /\ \/ ask[c] = "idle" /\ mu = None
                               \/ ask[c] = Name
                               \/ ask[c] = "done" /\ SlotsLeft
    \/ caller[c].at = "wait" /\ slot[caller[c].slot].down
    \/ caller[c].at = "rpc"
BuilderMoves(s) ==
    \/ slot[s].at \in {"dial", "built"}
    \/ slot[s].at \in {"lock", "failed"} /\ BmuFree

(* A call that does not move waits for the goroutine that builds its       *)
(* client, this one for the call that holds b.mu, and that for reg.mu,     *)
(* which is unlocked again unless HandleUpdate and doUpdate are deadlocked.*)
CallersNeverStuck ==
    ~Proofs!Clogged /\ SlotsLeft => \A c \in Callers :
        caller[c].at \notin {"idle", "returned"} =>
            \/ CallerMoves(c)
            \/ caller[c].at = "wait" /\ BuilderMoves(caller[c].slot)
            \/ caller[c].at = "wait" /\ ~BmuFree /\ CallerMoves(bmu)
            \/ mu # None /\ (Proofs!HandlerMoves(mu) \/ Proofs!UpdaterMoves)

(* Nobody unregisters.                                                     *)
LEMMA RegistryStaysOk == ASSUME [Next]_vars, reg = "ok" PROVE reg' = "ok"
<1>1. [Registry!Next]_(Registry!vars)
  BY RegistrySteps
<1> QED BY <1>1 DEF Registry!Next, Registry!RegisterStep, Registry!Listen,
      Registry!Registered, Registry!RegisterFails, Registry!UpdaterStep, Registry!Range,
      Registry!Receive, Registry!ReceiveWhen, Registry!Apply, Registry!HeartBeat,
      Registry!UserStep, Registry!Get, Registry!StoreAnswer, Registry!AskFails,
      Registry!Take, Registry!Handle, Registry!Lock, Registry!LockUnless, Registry!Send,
      Registry!Arrive, Registry!CloseMark, Registry!CloseStep, Registry!CloseCh,
      Registry!StopListening, Registry!lifeVars, Registry!vars

(* A client that was made is not unmade, and ends with down closed.        *)
SlotsGoOn ==
    \A s \in Slots : /\ slot[s].at # "none" => slot'[s].at # "none"
                     /\ slot'[s].at = "end" /\ ~slot'[s].down =>
                           slot[s].at = "end" /\ ~slot[s].down
LEMMA SlotSteps ==
    ASSUME BInv, Known, [Next]_vars PROVE SlotsGoOn
<1> USE DEF SlotsGoOn
<1>0. slot \in [Slots -> CClient]
  BY DEF BInv, TypeOK
<1>1. CASE UNCHANGED slot
  BY <1>1
<1>2. ASSUME NEW s \in Slots, NEW r \in CClient, slot' = [slot EXCEPT ![s] = r],
             r.at # "none",
             r.at = "end" /\ ~r.down => slot[s].at = "end" /\ ~slot[s].down
      PROVE  SlotsGoOn
  BY <1>0, <1>2
<1>3. ASSUME NEW s \in Slots, BuilderStep(s) PROVE SlotsGoOn
  <2>1. slot[s] \in CClient
    BY <1>0
  <2>2. PICK r \in {[slot[s] EXCEPT !.at = "dial"],
                    [slot[s] EXCEPT !.at = "built", !.c = "open"],
                    [slot[s] EXCEPT !.at = "failed", !.err = TRUE],
                    [slot[s] EXCEPT !.at = "built"],
                    [slot[s] EXCEPT !.at = "end", !.down = TRUE]} :
           slot' = [slot EXCEPT ![s] = r]
    BY <1>3 DEF BuilderStep, ReadOption, Dial, Remove, RemoveThen, CloseDown
  <2>3. /\ r \in CClient /\ r.at # "none" /\ (r.at = "end" => r.down)
    BY <2>1 DEF CClient
  <2> QED BY <1>2, <2>2, <2>3
<1>4. ASSUME NEW a, NEW s \in Slots, Make(a, s), a \in Addrs PROVE SlotsGoOn
  <2>1. CASE clients[a] # None
    BY <1>1, <1>4, <2>1 DEF Make, MakeIf
  <2>2. CASE clients[a] = None
    <3> DEFINE r == [Unmade EXCEPT !.at = "lock", !.addr = a]
    <3>1. r \in CClient /\ r.at = "lock"
      BY <1>4 DEF CClient, Unmade
    <3>2. slot[s].at = "none" /\ slot' = [slot EXCEPT ![s] = r]
      BY <1>4, <2>2 DEF Make, MakeIf
    <3> HIDE DEF r
    <3> QED BY <1>2, <3>1, <3>2
  <2> QED BY <2>1, <2>2
<1>5. ASSUME NEW s \in Slots, CloseClient(s) PROVE SlotsGoOn
  <2>1. CASE UNCHANGED slot
    BY <1>1, <2>1
  <2>2. CASE slot' = [slot EXCEPT ![s].c = "closed"]
    <3>1. [slot[s] EXCEPT !.c = "closed"] \in CClient /\ slot[s] \in CClient
      BY <1>0 DEF CClient
    <3>2. slot'[s].at = slot[s].at /\ slot'[s].down = slot[s].down
          /\ \A t \in Slots : t # s => slot'[t] = slot[t]
      BY <1>0, <2>2, <3>1 DEF CClient
    <3> QED BY <3>2
  <2> QED BY <1>5, <2>1, <2>2 DEF CloseClient
<1>6. CASE \E c \in Callers : PickAddress(c)
  <2> PICK c \in Callers : PickAddress(c)
    BY <1>6
  <2>1. PICK a \in got[c].addrs, s \in Slots : Make(a, s)
    BY DEF PickAddress
  <2> QED BY <1>4, <2>1 DEF Known
<1>7. CASE \E c \in Callers : Begin(c) \/ (CallerStep(c) /\ ~PickAddress(c))
  BY <1>1, <1>7 DEF Begin, CallerStep, AskRegistry, NoAddress, BuildFailed, Issue, RpcEnds,
                    balVars
<1>8. CASE Mark \/ CloseRegistry \/ Inside \/ (\E p \in Pushes : Handle(p)) \/ UNCHANGED balVars
  BY <1>1, <1>8 DEF Mark, CloseRegistry, Inside, Handle, balVars
<1>9. todo \subseteq Slots
  BY DEF BInv, TypeOK
<1> QED BY <1>1, <1>3, <1>5, <1>6, <1>7, <1>8, <1>9
        DEF Next, Running, Stopped, CloseStep, vars

(* The map is given only clients that are made.                            *)
LEMMA MapSteps ==
    ASSUME BInv, Known, [Next]_vars, NEW a \in Addrs
    PROVE  clients'[a] \in {clients[a], None} \/ slot'[clients'[a]].at # "none"
<1>0. slot \in [Slots -> CClient] /\ clients \in [Addrs -> Slots \cup {None}]
  BY DEF BInv, TypeOK
<1>1. CASE UNCHANGED clients
  BY <1>1
<1>2. CASE \E c \in Callers : PickAddress(c)
  <2> PICK c \in Callers : PickAddress(c)
    BY <1>2
  <2>1. PICK b \in got[c].addrs, s \in Slots : Make(b, s)
    BY DEF PickAddress
  <2>2. CASE UNCHANGED clients
    BY <2>2
  <2>3. CASE clients' = [clients EXCEPT ![b] = s]
             /\ slot' = [slot EXCEPT ![s] = [Unmade EXCEPT !.at = "lock", !.addr = b]]
    <3>1. [Unmade EXCEPT !.at = "lock", !.addr = b].at = "lock"
      BY DEF Unmade
    <3>2. slot'[s].at = "lock"
      BY <1>0, <2>3, <3>1
    <3> QED BY <1>0, <2>3, <3>2
  <2> QED BY <2>1, <2>2, <2>3 DEF Make, MakeIf
<1>3. CASE \E c \in Callers : Begin(c) \/ (CallerStep(c) /\ ~PickAddress(c))
  BY <1>1, <1>3 DEF Begin, CallerStep, AskRegistry, NoAddress, BuildFailed, Issue, RpcEnds,
                    balVars
<1>4. CASE \E s \in Slots : BuilderStep(s)
  BY <1>0, <1>4 DEF BuilderStep, ReadOption, Dial, Remove, RemoveThen, CloseDown
<1>5. CASE Mark
  BY <1>5 DEF Mark
<1>6. CASE CloseStep \/ Inside \/ (\E p \in Pushes : Handle(p)) \/ UNCHANGED balVars
  BY <1>1, <1>6 DEF CloseStep, CloseRegistry, CloseClient, Inside, Handle, balVars
<1> QED BY <1>1, <1>2, <1>3, <1>4, <1>5, <1>6 DEF Next, Running, Stopped, vars

LEMMA WaitKeeps ==
    ASSUME BInv, Known, InvWait, [Next]_vars PROVE InvWait'
<1>0. /\ caller \in [Callers -> Caller] /\ bmu \in Callers \cup {None}
      /\ slot \in [Slots -> CClient] /\ clients \in [Addrs -> Slots \cup {None}]
      /\ None \notin Callers \cup Slots
  BY BalancedConstants DEF BInv, TypeOK
<1>1. \A s \in Slots : slot'[s].at = "end" => slot'[s].down
  BY SlotSteps DEF SlotsGoOn, InvWait
<1>9. \A a \in Addrs : clients'[a] # None => slot'[clients'[a]].at # "none"
  BY <1>0, SlotSteps, MapSteps DEF SlotsGoOn, InvWait
<1>2. ASSUME UNCHANGED <<bmu, caller>> PROVE InvWait'
  BY <1>0, <1>1, <1>2, <1>9, SlotSteps, RegistryStaysOk DEF SlotsGoOn, InvWait, BmuFree
<1>3. ASSUME NEW c \in Callers, NEW r, caller' = [caller EXCEPT ![c] = r],
             r.at = "wait" => r.slot \in Slots /\ slot'[r.slot].at # "none",
             r.at = "ask" => reg = "ok" /\ bmu' = c,
             IF bmu' = c THEN r.at = "ask" ELSE bmu' = bmu \/ bmu' = None
      PROVE  InvWait'
  <2>1. caller'[c] = r /\ \A d \in Callers : d # c => caller'[d] = caller[d]
    BY <1>0, <1>3
  <2>2. \A d \in Callers :
          /\ caller'[d].at = "wait" =>
                caller'[d].slot \in Slots /\ slot'[caller'[d].slot].at # "none"
          /\ caller'[d].at = "ask" => reg' = "ok"
    BY <1>3, <2>1, SlotSteps, RegistryStaysOk DEF SlotsGoOn, InvWait
  <2>3. ~BmuFree' => caller'[bmu'].at = "ask"
    BY <1>0, <1>3, <2>1 DEF InvWait, BmuFree
  <2> QED BY <1>1, <1>9, <2>2, <2>3 DEF InvWait
<1>4. ASSUME NEW c \in Callers, Begin(c) PROVE InvWait'
  <2>1. reg = "ok" /\ caller[c].at = "idle"
    BY <1>4 DEF Begin
  <2>2. CASE Return(c, "error") /\ UNCHANGED bmu
    <3>1. /\ caller' = [caller EXCEPT ![c] = [caller[c] EXCEPT !.at = "returned", !.err = "error"]]
          /\ bmu' = bmu
      BY <2>2 DEF Return
    <3>2. [caller[c] EXCEPT !.at = "returned", !.err = "error"].at = "returned"
      BY <1>0 DEF Caller
    <3>3. ~BmuFree => bmu # c
      BY <2>1 DEF InvWait
    <3>4. bmu' = c => FALSE
      BY <1>0, <3>1, <3>3 DEF BmuFree
    <3> QED BY <1>3, <2>1, <3>1, <3>2, <3>4
  <2>3. CASE BmuFree /\ ~bclosed /\ bmu' = c /\ Move(c, "ask")
    <3>1. caller' = [caller EXCEPT ![c] = [caller[c] EXCEPT !.at = "ask"]] /\ bmu' = c
      BY <2>3 DEF Move
    <3>2. [caller[c] EXCEPT !.at = "ask"].at = "ask"
      BY <1>0 DEF Caller
    <3> QED BY <1>3, <2>1, <3>1, <3>2
  <2> QED BY <1>4, <2>2, <2>3 DEF Begin
<1>5. ASSUME NEW c \in Callers, PickAddress(c) PROVE InvWait'
  <2>1. bmu' = None
    BY <1>5 DEF PickAddress
  <2>2. PICK a \in got[c].addrs, s \in Slots :
           Make(a, s) /\ caller' = [caller EXCEPT ![c].at = "wait", ![c].slot = s]
    BY <1>5 DEF PickAddress
  <2>3. /\ [caller[c] EXCEPT !.at = "wait", !.slot = s].at = "wait"
        /\ [caller[c] EXCEPT !.at = "wait", !.slot = s].slot = s
    BY <1>0 DEF Caller
  <2>4. caller' = [caller EXCEPT ![c] = [caller[c] EXCEPT !.at = "wait", !.slot = s]]
    BY <2>2
  <2>5. slot'[s].at # "none"
    <3>1. CASE clients[a] = None
      <4>1. [Unmade EXCEPT !.at = "lock", !.addr = a].at = "lock"
        BY DEF Unmade
      <4>2. slot' = [slot EXCEPT ![s] = [Unmade EXCEPT !.at = "lock", !.addr = a]]
        BY <2>2, <3>1 DEF Make, MakeIf
      <4> QED BY <1>0, <4>1, <4>2
    <3>2. CASE clients[a] # None
      <4>1. s = clients[a] /\ slot' = slot /\ a \in Addrs
        BY <2>2, <3>2 DEF Make, MakeIf, Known
      <4> QED BY <3>2, <4>1 DEF InvWait
    <3> QED BY <3>1, <3>2
  <2> QED BY <1>0, <1>3, <2>1, <2>3, <2>4, <2>5
<1>6. ASSUME NEW c \in Callers, CallerStep(c), ~PickAddress(c), ~AskRegistry(c)
      PROVE  InvWait'
  <2>1. PICK r \in Caller : r.at \in {"rpc", "returned"} /\ caller' = [caller EXCEPT ![c] = r]
    <3>1. caller[c] \in Caller
      BY <1>0
    <3>2. CASE \E e \in {"nil", "error"} : Return(c, e)
      <4>1. PICK e \in {"nil", "error"} : caller' =
               [caller EXCEPT ![c] = [caller[c] EXCEPT !.at = "returned", !.err = e]]
        BY <3>2 DEF Return
      <4>2. /\ [caller[c] EXCEPT !.at = "returned", !.err = e] \in Caller
            /\ [caller[c] EXCEPT !.at = "returned", !.err = e].at = "returned"
        BY <3>1 DEF Caller
      <4> QED BY <4>1, <4>2
    <3>3. CASE Issue(c)
      <4>1. /\ [at |-> "returned", slot |-> None, err |-> "error"] \in Caller
            /\ [at |-> "rpc", slot |-> None, err |-> "none"] \in Caller
        BY DEF Caller
      <4> QED BY <3>3, <4>1 DEF Issue
    <3> QED BY <1>6, <3>2, <3>3 DEF CallerStep, NoAddress, BuildFailed, RpcEnds
  <2>2. bmu' = None \/ (bmu' = bmu /\ caller[c].at # "ask")
    BY <1>6 DEF CallerStep, NoAddress, BuildFailed, Issue, RpcEnds
  <2>3. bmu' # c
    BY <1>0, <2>2 DEF InvWait, BmuFree
  <2> QED BY <1>3, <2>1, <2>2, <2>3
<1>7. CASE UNCHANGED balVars
  BY <1>2, <1>7 DEF balVars
<1>8. CASE (\E s \in Slots : BuilderStep(s)) \/ Mark \/ \E s \in todo : CloseClient(s)
  BY <1>2, <1>8 DEF BuilderStep, ReadOption, Dial, Remove, RemoveThen, CloseDown, Mark,
                    CloseClient
<1> QED BY <1>4, <1>5, <1>6, <1>7, <1>8
        DEF Next, Running, Stopped, CallerStep, AskRegistry, CloseStep, CloseRegistry, Inside,
            Handle, vars

(* For any number of callers, addresses and updates: no call waits for     *)
(* what will never come, but for the deadlock of HandleUpdate and doUpdate *)
(* (clientBalanced.go, Go; registryClient.go, HandleUpdate).               *)
THEOREM CallersAreNeverStuck == Spec => []CallersNeverStuck
<1>1. Init => InvWait
  BY DEF Init, InvWait, Unmade, BmuFree
<1>2. BInv /\ Known /\ InvWait /\ [Next]_vars => InvWait'
  BY WaitKeeps
<1>3. Init => Proofs!InvUpdater
  BY DEF Init, Registry!Init, Proofs!InvUpdater
<1>4. Proofs!IInv /\ Proofs!InvUpdater /\ [Next]_vars => Proofs!InvUpdater'
  BY SameRegistry, RegistrySteps, Proofs!UpdaterStays
<1>5. ASSUME BInv, InvWait, Proofs!IInv, Proofs!InvUpdater PROVE CallersNeverStuck
  <2>1. Proofs!LockIsFreed
    BY <1>5, BalancedConstants, SameRegistry, Proofs!FreedUnlessClogged
  <2> SUFFICES ASSUME ~Proofs!Clogged, SlotsLeft, mu = None, NEW c \in Callers,
                      caller[c].at \notin {"idle", "returned"}
               PROVE  \/ CallerMoves(c)
                      \/ caller[c].at = "wait" /\ BuilderMoves(caller[c].slot)
                      \/ caller[c].at = "wait" /\ ~BmuFree /\ CallerMoves(bmu)
    BY <2>1 DEF CallersNeverStuck, Proofs!LockIsFreed, Proofs!MuFree
  <2>2. caller[c].at \in {"ask", "wait", "rpc"} /\ bmu \in Callers \cup {None}
    BY <1>5 DEF BInv, TypeOK, Caller
  <2>3. ASSUME NEW d \in Callers, caller[d].at = "ask" PROVE CallerMoves(d)
    <3>1. ask[d] \in {"idle", "done", Name}
      BY <1>5 DEF Proofs!IInv, Proofs!TypeOK
    <3> QED BY <2>3, <3>1 DEF CallerMoves
  <2>4. CASE caller[c].at = "wait"
    <3>1. caller[c].slot \in Slots /\ slot[caller[c].slot].at # "none"
      BY <1>5, <2>4 DEF InvWait
    <3>2. slot[caller[c].slot].at \in {"lock", "dial", "failed", "built", "end"}
      BY <1>5, <3>1 DEF BInv, TypeOK, CClient
    <3>3. CASE slot[caller[c].slot].at = "end"
      BY <1>5, <2>4, <3>1, <3>3 DEF InvWait, CallerMoves
    <3>4. CASE slot[caller[c].slot].at # "end"
      BY <1>5, <2>2, <2>3, <2>4, <3>2, <3>4 DEF BuilderMoves, BmuFree, InvWait
    <3> QED BY <3>3, <3>4
  <2> QED BY <2>2, <2>3, <2>4 DEF CallerMoves
<1> QED BY <1>1, <1>2, <1>3, <1>4, <1>5, Invariant, AlwaysKnown, RegistryInvariant, PTL
        DEF Spec
=============================================================================
