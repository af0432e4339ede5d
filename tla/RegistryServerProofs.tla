------------------------ MODULE RegistryServerProofs ------------------------
(***************************************************************************)
(* For every number of services, names and ids: the indexes of the         *)
(* registry agree and no change of a list goes unsent, whether or not      *)
(* registrations stall; and as long as none stalls, every member of the    *)
(* registry has a timer that would remove it, whoever is gone is removed   *)
(* or can be, and resign runs once.                                        *)
(***************************************************************************)
EXTENDS RegistryServer, TLAPS

(* Ids are numbers, and 0 is not one of them. *)
LEMMA IdNumbers == MaxId \in Nat /\ 0 \notin Ids /\ Ids \subseteq 0 .. MaxId
  BY RegistryConstants DEF Ids

(* A step that leaves the indexes and panic alone, and does not take a     *)
(* service back to an earlier stage, preserves the invariant.              *)
LEMMA IndexesUntouched ==
    ASSUME IInv, UNCHANGED <<lastId, idOf, services, idToService, panic>>,
           \/ UNCHANGED at
           \/ \E s \in Services : at' = [at EXCEPT ![s] = "up"]
           \/ \E s \in Services : at[s] = "out" /\ at' = [at EXCEPT ![s] = "watched"]
    PROVE  IInv'
<1>1. IndexTypes'
  BY DEF IInv, IndexTypes
<1>2. IndexesAgree' /\ NeverPanics'
  BY DEF IInv, IndexesAgree, NeverPanics, Lookup
<1>3. IdsAreFresh'
  BY DEF IInv, IdsAreFresh, Listed, IndexTypes
<1> QED BY <1>1, <1>2, <1>3 DEF IInv

(* A new id is in nobody's use, and its service in no list. *)
LEMMA ListKeeps ==
    ASSUME IInv, NEW s \in Services, List(s)
    PROVE  IInv'
<1> DEFINE id == lastId + 1
<1>1. /\ at[s] = "watched" /\ id \in Ids /\ lastId' = id
      /\ idOf' = [idOf EXCEPT ![s] = id]
      /\ services' = [services EXCEPT ![NameOf[s]] = @ \cup {s}]
      /\ idToService' = [idToService EXCEPT ![id] = s]
      /\ at' = [at EXCEPT ![s] = "listed"] /\ panic' = panic
  BY DEF List, ListAs
<1>2. lastId \in Nat /\ NameOf[s] \in Names /\ s # None
  BY RegistryConstants DEF IInv, IndexTypes
<1>3. IndexTypes'
  BY <1>1, <1>2, IdNumbers DEF IInv, IndexTypes, Lists
<1>4. \A n \in Names : s \notin services[n]
  BY <1>1 DEF IInv, IdsAreFresh, IndexesAgree, Listed
<1>5. idToService[id] = None
  <2>1. ~(id <= lastId)
    BY <1>2
  <2> QED BY <1>1, <2>1 DEF IInv, IdsAreFresh
<1> HIDE DEF id
<1>6. ASSUME NEW i \in Ids, idToService'[i] # None
      PROVE  /\ idOf'[idToService'[i]] = i
             /\ idToService'[i] \in services'[NameOf[idToService'[i]]]
  <2>1. CASE i = id
    BY <1>1, <1>2, <2>1 DEF IInv, IndexTypes, Lists
  <2>2. CASE i # id
    <3> DEFINE t == idToService[i]
    <3>1. idToService'[i] = t /\ t # None /\ t \in Services
      BY <1>1, <1>6, <2>2 DEF IInv, IndexTypes
    <3>2. idOf[t] = i /\ t \in services[NameOf[t]] /\ NameOf[t] \in Names
      BY <3>1, RegistryConstants DEF IInv, IndexesAgree
    <3>3. t # s
      BY <1>4, <3>2
    <3>4. idOf'[t] = i
      BY <1>1, <3>1, <3>2, <3>3 DEF IInv, IndexTypes
    <3>5. t \in services'[NameOf[t]]
      BY <1>1, <1>2, <3>2 DEF IInv, IndexTypes, Lists
    <3> QED BY <3>1, <3>4, <3>5
  <2> QED BY <2>1, <2>2
<1>7. ASSUME NEW n \in Names, NEW t \in services'[n]
      PROVE  NameOf[t] = n /\ Lookup(idOf[t])' = t
  <2>1. CASE t = s
    <3>1. n = NameOf[s]
      BY <1>1, <1>2, <1>4, <1>7, <2>1 DEF IInv, IndexTypes, Lists
    <3>2. idOf'[s] = id /\ idToService'[id] = s
      BY <1>1 DEF IInv, IndexTypes
    <3> QED BY <1>1, <2>1, <3>1, <3>2 DEF Lookup
  <2>2. CASE t # s
    <3>1. t \in services[n] /\ t \in Services
      BY <1>1, <1>2, <1>7, <2>2 DEF IInv, IndexTypes, Lists
    <3>2. NameOf[t] = n /\ Lookup(idOf[t]) = t /\ t # None
      BY <3>1, RegistryConstants DEF IInv, IndexesAgree
    <3>3. idOf'[t] = idOf[t]
      BY <1>1, <2>2, <3>1 DEF IInv, IndexTypes
    <3>4. idOf[t] # id
      BY <1>1, <1>5, <3>2 DEF Lookup
    <3>5. Lookup(idOf[t])' = t
      BY <1>1, <3>2, <3>3, <3>4 DEF Lookup, IInv, IndexTypes
    <3> QED BY <3>2, <3>5
  <2> QED BY <2>1, <2>2
<1>8. IndexesAgree'
  BY <1>6, <1>7 DEF IndexesAgree
<1>9. IdsAreFresh'
  <2>1. ASSUME NEW i \in Ids, idToService'[i] # None PROVE i <= lastId'
    <3>1. CASE i = id
      BY <1>1, <3>1, IdNumbers DEF Ids
    <3>2. CASE i # id
      <4>1. i <= lastId
        BY <1>1, <2>1, <3>2 DEF IInv, IdsAreFresh, IndexTypes
      <4>2. lastId' = lastId + 1 /\ i \in Int
        BY <1>1 DEF id, Ids
      <4> QED BY <1>2, <4>1, <4>2
    <3> QED BY <3>1, <3>2
  <2>2. ASSUME NEW t \in Services, at'[t] \in {"out", "watched"}
        PROVE  t \notin services'[NameOf[t]]
    <3>1. t # s /\ at'[t] = at[t]
      BY <1>1, <2>2 DEF IInv, IndexTypes
    <3>2. t \notin services[NameOf[t]]
      BY <2>2, <3>1 DEF IInv, IdsAreFresh, Listed
    <3> QED BY <1>1, <1>2, <3>1, <3>2, RegistryConstants DEF IInv, IndexTypes, Lists
  <2> QED BY <2>1, <2>2 DEF IdsAreFresh, Listed
<1> QED BY <1>1, <1>3, <1>8, <1>9 DEF IInv, NeverPanics

(* A service that is found by its id is in its list, so that resign never  *)
(* panics, and both indexes lose exactly this service.                     *)
LEMMA UnlistKeeps ==
    ASSUME IInv, NEW id, Lookup(id) # None, NEW who, Unlist(id, who),
           UNCHANGED <<at, lastId, idOf>>
    PROVE  IInv'
<1> DEFINE s == Lookup(id)
<1>1. id \in Ids /\ s = idToService[id] /\ s \in Services
  BY DEF Lookup, IInv, IndexTypes
<1>2. idOf[s] = id /\ s \in services[NameOf[s]] /\ NameOf[s] \in Names
  BY <1>1, RegistryConstants DEF IInv, IndexesAgree
<1>3. /\ services' = [services EXCEPT ![NameOf[s]] =
                        {t \in services[NameOf[s]] : idOf[t] # id}]
      /\ idToService' = [idToService EXCEPT ![id] = None]
      /\ panic' = panic
  BY <1>2 DEF Unlist
<1> HIDE DEF s
<1>4. IndexTypes'
  BY <1>1, <1>2, <1>3 DEF IInv, IndexTypes, Lists
<1>5. ASSUME NEW i \in Ids, idToService'[i] # None
      PROVE  /\ idOf'[idToService'[i]] = i
             /\ idToService'[i] \in services'[NameOf[idToService'[i]]]
  <2> DEFINE t == idToService[i]
  <2>1. i # id /\ idToService'[i] = t /\ t # None /\ t \in Services
    BY <1>1, <1>3, <1>5 DEF IInv, IndexTypes
  <2>2. idOf[t] = i /\ t \in services[NameOf[t]] /\ NameOf[t] \in Names
    BY <2>1, RegistryConstants DEF IInv, IndexesAgree
  <2>3. t \in services'[NameOf[t]]
    BY <1>2, <1>3, <2>1, <2>2 DEF IInv, IndexTypes, Lists
  <2> QED BY <2>1, <2>2, <2>3
<1>6. ASSUME NEW n \in Names, NEW t \in services'[n]
      PROVE  NameOf[t] = n /\ Lookup(idOf[t])' = t
  <2>1. t \in services[n] /\ (n = NameOf[s] => idOf[t] # id)
    BY <1>2, <1>3, <1>6 DEF IInv, IndexTypes, Lists
  <2>2. NameOf[t] = n /\ Lookup(idOf[t]) = t /\ t \in Services /\ t # None
    BY <2>1, RegistryConstants DEF IInv, IndexesAgree, IndexTypes, Lists
  <2>3. idOf[t] # id
    BY <1>1, <2>1, <2>2 DEF Lookup
  <2> QED BY <1>3, <2>2, <2>3 DEF Lookup, IInv, IndexTypes
<1>7. IndexesAgree'
  BY <1>5, <1>6 DEF IndexesAgree
<1>8. IdsAreFresh'
  <2>1. \A i \in Ids : idToService'[i] # None => idToService[i] # None
    BY <1>1, <1>3 DEF IInv, IndexTypes
  <2>2. \A n \in Names : services'[n] \subseteq services[n]
    BY <1>2, <1>3 DEF IInv, IndexTypes, Lists
  <2>3. \A t \in Services : NameOf[t] \in Names
    BY RegistryConstants
  <2> QED BY <2>1, <2>2, <2>3 DEF IInv, IdsAreFresh, Listed
<1> QED BY <1>3, <1>4, <1>7, <1>8 DEF IInv, NeverPanics

(* What an action of one service does to the indexes. *)
LEMMA ServiceStepKeeps ==
    ASSUME IInv, NEW s \in Services, ServerStep(s) \/ ClientStep(s) \/ Expire(s)
    PROVE  IInv'
<1> USE DEF regVars
<1>1. CASE List(s)
  BY <1>1, ListKeeps
<1>2. CASE HandleResign(s)
  <2>1. CASE Lookup(idOf[s]) = None
    BY <1>2, <2>1, IndexesUntouched DEF HandleResign
  <2>2. CASE Lookup(idOf[s]) # None
    BY <1>2, <2>2, UnlistKeeps DEF HandleResign
  <2> QED BY <2>1, <2>2
<1>3. CASE Expire(s)
  <2>1. CASE Lookup(idOf[s]) = None
    BY <1>3, <2>1, IndexesUntouched DEF Expire, ExpireWith
  <2>2. CASE Lookup(idOf[s]) # None
    BY <1>3, <2>2, UnlistKeeps DEF Expire, ExpireWith
  <2> QED BY <2>1, <2>2
<1>4. CASE IssueAliveCheck(s)
  BY <1>4, IndexesUntouched DEF IssueAliveCheck
<1>5. CASE Enter(s)
  BY <1>5, IndexesUntouched DEF Enter
<1>6. CASE SignalAlive(s)
  <2>1. panic' = panic
    BY <1>6 DEF SignalAlive, Signal
  <2> QED BY <1>6, <2>1, IndexesUntouched DEF SignalAlive, Signal
<1>7. CASE Leave(s) \/ CloseService(s) \/ Watch(s) \/ Beat(s) \/ Crash(s)
  BY <1>7, IndexesUntouched DEF Leave, CloseService, CloseAs, Watch, Beat, Crash
<1>8. CASE \E c \in Causes : Collect(s, c) \/ Snapshot(s, c)
  BY <1>8, IndexesUntouched DEF Collect, Snapshot
<1>9. CASE \E n \in Names : Ask(s, n)
  BY <1>9, IndexesUntouched DEF Ask
<1> QED BY <1>1, <1>2, <1>3, <1>4, <1>5, <1>6, <1>7, <1>8, <1>9 DEF ServerStep, ClientStep

(* The indexes always agree and the registry never panics. *)
THEOREM Invariant == Spec => []IInv
<1>1. Init => IInv
  BY RegistryConstants, IdNumbers
     DEF Init, IInv, IndexTypes, IndexesAgree, IdsAreFresh, NeverPanics, Lists, Listed
<1>2. IInv /\ [Next]_vars => IInv'
  <2> SUFFICES ASSUME IInv, [Next]_vars PROVE IInv'
    OBVIOUS
  <2>1. CASE UNCHANGED vars
    BY <2>1, IndexesUntouched DEF vars, regVars
  <2>2. ASSUME NEW m \in net, Arrive(m) PROVE IInv'
    BY <2>2, IndexesUntouched DEF Arrive, regVars
  <2>3. CASE Running
    BY <2>2, <2>3, ServiceStepKeeps DEF Running
  <2> QED BY <2>1, <2>3 DEF Next, Stopped
<1> QED BY <1>1, <1>2, PTL DEF Spec

(* The indexes agree: see IndexesAgree. *)
THEOREM IndexesAlwaysAgree == Spec => []IndexesAgree
BY Invariant, PTL DEF IInv

(* No list is shrunk below empty, nothing is sent on a closed channel.     *)
THEOREM RegistryNeverPanics == Spec => []NeverPanics
BY Invariant, PTL DEF IInv

-----------------------------------------------------------------------------
(* No change goes unsent.                                                  *)

(* The reasons to expect another list of a name, and who hears of it, are  *)
(* kept by a step in which no such reason is taken away.                   *)
LEMMA ReasonsKept ==
    ASSUME NEW n, NEW v, AboutToInform(n, v),
           \A s \in Services : at[s] = "listed" => at'[s] = "listed",
           \A s \in Services : gone[s] = "unlisted" => gone'[s] = "unlisted",
           UNCHANGED informer
    PROVE  AboutToInform(n, v)'
BY DEF AboutToInform

(* Every goroutine of informChanges is where SentTypes says it can be.     *)
LEMMA InformerTypes ==
    ASSUME SentTypes, NEW s \in Services, NEW c \in Causes
    PROVE  /\ informer[s][c].at \in {"idle", "collect", "snapshot", "done"}
           /\ informer[s][c].to \subseteq Services
BY DEF SentTypes

(* A step that touches no list, no interest and no goroutine.              *)
LEMMA NothingToSend ==
    ASSUME SentInv, IInv,
           UNCHANGED <<services, clients, interest, newest, informer>>,
           \/ UNCHANGED at
           \/ \E s \in Services : at[s] = "out" /\ at' = [at EXCEPT ![s] = "watched"],
           \/ UNCHANGED gone
           \/ \E s \in Services : gone[s] = "informing" /\ gone' = [gone EXCEPT ![s] = "closed"]
    PROVE  SentInv'
<1>1. SentTypes'
  BY DEF SentInv, SentTypes
<1>2. Newcomers'
  BY DEF SentInv, Newcomers, IInv, IndexTypes
<1>3. \A s \in Services : at[s] = "listed" => at'[s] = "listed"
  BY DEF IInv, IndexTypes
<1>4. \A s \in Services : gone[s] = "unlisted" => gone'[s] = "unlisted"
  BY DEF SentInv, SentTypes
<1>5. ASSUME NEW v \in clients', Listed(v)', NEW n \in interest'[v]
      PROVE  newest'[v][n] = services'[n] \/ AboutToInform(n, v)'
  <2>1. newest[v][n] = services[n] \/ AboutToInform(n, v)
    BY <1>5 DEF SentInv, EveryChangeIsSent, Listed
  <2>2. CASE AboutToInform(n, v)
    BY <2>2, <1>3, <1>4, ReasonsKept
  <2> QED BY <2>1, <2>2
<1> QED BY <1>1, <1>2, <1>5 DEF SentInv, EveryChangeIsSent

(* The goroutine that resign or register starts is about to collect.       *)
LEMMA Started ==
    ASSUME SentTypes, NEW s \in Services, NEW c \in Causes, StartInforming(s, c)
    PROVE  /\ informer' \in [Services -> [Causes ->
                 [at : {"idle", "collect", "snapshot", "done"}, to : SUBSET Services]]]
           /\ informer'[s][c].at = "collect"
           /\ \A t \in Services, d \in Causes :
                 t # s \/ d # c => informer'[t][d] = informer[t][d]
<1> DEFINE At == {"idle", "collect", "snapshot", "done"}
           Goroutines == [Causes -> [at : At, to : SUBSET Services]]
<1>1. informer' = [informer EXCEPT ![s] =
                     [informer[s] EXCEPT ![c] = [informer[s][c] EXCEPT !.at = "collect"]]]
  BY DEF StartInforming, StartFor
<1>2. informer \in [Services -> Goroutines]
  BY DEF SentTypes
<1>3. informer[s][c] \in [at : At, to : SUBSET Services] /\ informer[s] \in Goroutines
  BY <1>2
<1>4. [informer[s][c] EXCEPT !.at = "collect"] \in [at : At, to : SUBSET Services]
  BY <1>3
<1>5. [informer[s] EXCEPT ![c] = [informer[s][c] EXCEPT !.at = "collect"]] \in Goroutines
  BY <1>3, <1>4
<1>6. informer' \in [Services -> Goroutines]
  BY <1>1, <1>2, <1>5
<1>7. informer'[s][c].at = "collect"
  BY <1>1, <1>2, <1>3
<1>8. \A t \in Services, d \in Causes : t # s \/ d # c => informer'[t][d] = informer[t][d]
  BY <1>1, <1>2, <1>3
<1> QED BY <1>6, <1>7, <1>8

(* While the goroutine of s is about to collect, nobody misses a list of   *)
(* its name; the other names have the reasons they had.                    *)
LEMMA StartingTells ==
    ASSUME SentTypes, NEW s \in Services, NEW c \in Causes, StartInforming(s, c),
           NEW n, NEW v, AboutToInform(n, v),
           \A t \in Services : t # s /\ at[t] = "listed" => at'[t] = "listed",
           \A t \in Services : t # s /\ gone[t] = "unlisted" => gone'[t] = "unlisted"
    PROVE  AboutToInform(n, v)'
<1>1. CASE NameOf[s] = n
  BY <1>1, Started DEF AboutToInform
<1>2. CASE NameOf[s] # n
  <2>1. PICK t \in Services : /\ NameOf[t] = n
                              /\ \/ at[t] = "listed" \/ gone[t] = "unlisted"
                                 \/ \E d \in Causes :
                                      \/ informer[t][d].at = "collect"
                                      \/ informer[t][d].at = "snapshot" /\ v \in informer[t][d].to
    BY DEF AboutToInform
  <2>2. t # s
    BY <1>2, <2>1
  <2>3. \A d \in Causes : informer'[t][d] = informer[t][d]
    BY <2>2, Started
  <2> QED BY <2>1, <2>2, <2>3 DEF AboutToInform
<1> QED BY <1>1, <1>2

(* A service that is listed is about to inform of its name; it asks for    *)
(* nothing yet.                                                            *)
LEMMA ListSends ==
    ASSUME SentInv, IInv, NEW s \in Services, List(s)
    PROVE  SentInv'
<1>1. /\ at[s] = "watched" /\ at' = [at EXCEPT ![s] = "listed"]
      /\ services' = [services EXCEPT ![NameOf[s]] = @ \cup {s}]
      /\ UNCHANGED <<clients, interest, gone, informer, newest>>
  BY DEF List, ListAs, goneVars, viewVars
<1>2. SentTypes'
  BY <1>1 DEF SentInv, SentTypes
<1>3. Newcomers'
  BY <1>1 DEF SentInv, Newcomers, IInv, IndexTypes
<1>4. ASSUME NEW v \in clients', Listed(v)', NEW n \in interest'[v]
      PROVE  newest'[v][n] = services'[n] \/ AboutToInform(n, v)'
  <2>1. v \in clients /\ v # s /\ v \in Services /\ NameOf[v] \in Names /\ n \in Names
    BY <1>1, <1>4, RegistryConstants DEF SentInv, SentTypes, Newcomers
  <2>2. Listed(v)
    BY <1>1, <1>4, <2>1, RegistryConstants DEF Listed, IInv, IndexTypes, Lists
  <2>3. newest[v][n] = services[n] \/ AboutToInform(n, v)
    BY <1>1, <1>4, <2>1, <2>2 DEF SentInv, EveryChangeIsSent
  <2>4. CASE n = NameOf[s]
    <3>1. at'[s] = "listed"
      BY <1>1 DEF IInv, IndexTypes
    <3> QED BY <2>4, <3>1 DEF AboutToInform
  <2>5. CASE n # NameOf[s] /\ newest[v][n] = services[n]
    BY <1>1, <2>1, <2>5 DEF IInv, IndexTypes, Lists
  <2>6. CASE AboutToInform(n, v)
    <3>1. \A t \in Services : at[t] = "listed" => at'[t] = "listed"
      BY <1>1 DEF IInv, IndexTypes
    <3> QED BY <1>1, <2>6, <3>1, ReasonsKept
  <2> QED BY <2>3, <2>4, <2>5, <2>6
<1> QED BY <1>2, <1>3, <1>4 DEF SentInv, EveryChangeIsSent

(* register goes on to informChanges. *)
LEMMA EnterSends ==
    ASSUME SentInv, IInv, NEW s \in Services, Enter(s)
    PROVE  SentInv'
<1>1. /\ at[s] = "listed" /\ at' = [at EXCEPT ![s] = "up"]
      /\ clients' = IF s \in Listening THEN clients \cup {s} ELSE clients
      /\ StartInforming(s, "register")
      /\ UNCHANGED <<services, interest, gone, newest>>
  BY DEF Enter, goneVars, viewVars
<1>2. SentTypes'
  BY <1>1, Started DEF SentInv, SentTypes, Causes
<1>3. Newcomers'
  BY <1>1 DEF SentInv, Newcomers, IInv, IndexTypes
<1>4. ASSUME NEW v \in clients', Listed(v)', NEW n \in interest'[v]
      PROVE  newest'[v][n] = services'[n] \/ AboutToInform(n, v)'
  <2>1. v # s
    BY <1>1, <1>4 DEF SentInv, Newcomers
  <2>2. newest[v][n] = services[n] \/ AboutToInform(n, v)
    BY <1>1, <1>4, <2>1 DEF SentInv, EveryChangeIsSent, Listed
  <2>3. CASE AboutToInform(n, v)
    <3>1. \A t \in Services : t # s /\ at[t] = "listed" => at'[t] = "listed"
      BY <1>1 DEF IInv, IndexTypes
    <3> QED BY <1>1, <2>3, <3>1, StartingTells DEF SentInv, Causes
  <2> QED BY <1>1, <2>2, <2>3
<1> QED BY <1>2, <1>3, <1>4 DEF SentInv, EveryChangeIsSent

(* resign takes one service out of one list and has yet to inform.         *)
LEMMA UnlistSends ==
    ASSUME SentInv, IInv, NEW id, Lookup(id) # None, NEW who, Unlist(id, who),
           UNCHANGED <<at, clients, interest, informer, newest>>
    PROVE  SentInv'
<1> DEFINE s == Lookup(id)
<1>1. id \in Ids /\ s = idToService[id] /\ s \in Services
  BY DEF Lookup, IInv, IndexTypes
<1>2. s \in services[NameOf[s]] /\ NameOf[s] \in Names
  BY <1>1, RegistryConstants DEF IInv, IndexesAgree
<1>3. /\ services' = [services EXCEPT ![NameOf[s]] =
                        {t \in services[NameOf[s]] : idOf[t] # id}]
      /\ gone' = [gone EXCEPT ![s] = "unlisted"]
  BY <1>2 DEF Unlist
<1> HIDE DEF s
<1>4. SentTypes'
  BY <1>1, <1>3 DEF SentInv, SentTypes
<1>5. Newcomers'
  BY DEF SentInv, Newcomers
<1>6. gone'[s] = "unlisted" /\ \A t \in Services : gone[t] = "unlisted" => gone'[t] = "unlisted"
  BY <1>1, <1>3 DEF SentInv, SentTypes
<1>7. ASSUME NEW v \in clients', Listed(v)', NEW n \in interest'[v]
      PROVE  newest'[v][n] = services'[n] \/ AboutToInform(n, v)'
  <2>1. v \in clients /\ n \in interest[v] /\ v \in Services /\ n \in Names
    BY <1>7, RegistryConstants DEF SentInv, SentTypes
  <2>2. NameOf[v] \in Names /\ Listed(v)
    BY <1>2, <1>3, <1>7, <2>1, RegistryConstants DEF Listed, IInv, IndexTypes, Lists
  <2>3. newest[v][n] = services[n] \/ AboutToInform(n, v)
    BY <2>1, <2>2 DEF SentInv, EveryChangeIsSent
  <2>4. CASE n = NameOf[s]
    BY <1>1, <1>6, <2>4 DEF AboutToInform
  <2>5. CASE n # NameOf[s] /\ newest[v][n] = services[n]
    BY <1>3, <2>1, <2>5 DEF IInv, IndexTypes, Lists
  <2>6. CASE AboutToInform(n, v)
    BY <1>6, <2>6, ReasonsKept
  <2> QED BY <2>3, <2>4, <2>5, <2>6
<1> QED BY <1>4, <1>5, <1>7 DEF SentInv, EveryChangeIsSent

(* resign goes on to informChanges. *)
LEMMA LeaveSends ==
    ASSUME SentInv, IInv, NEW s \in Services, Leave(s)
    PROVE  SentInv'
<1>1. /\ gone' = [gone EXCEPT ![s] = "informing"] /\ StartInforming(s, "resign")
      /\ clients' \subseteq clients
      /\ UNCHANGED <<at, services, interest, newest>>
  BY DEF Leave, regVars, viewVars
<1>2. SentTypes'
  BY <1>1, Started DEF SentInv, SentTypes, Causes
<1>3. Newcomers'
  BY <1>1 DEF SentInv, Newcomers
<1>4. \A t \in Services : t # s /\ gone[t] = "unlisted" => gone'[t] = "unlisted"
  BY <1>1 DEF SentInv, SentTypes
<1>5. ASSUME NEW v \in clients', Listed(v)', NEW n \in interest'[v]
      PROVE  newest'[v][n] = services'[n] \/ AboutToInform(n, v)'
  <2>1. newest[v][n] = services[n] \/ AboutToInform(n, v)
    BY <1>1, <1>5 DEF SentInv, EveryChangeIsSent, Listed
  <2>2. CASE AboutToInform(n, v)
    BY <1>1, <1>4, <2>2, StartingTells DEF SentInv, Causes
  <2> QED BY <1>1, <2>1, <2>2
<1> QED BY <1>2, <1>3, <1>5 DEF SentInv, EveryChangeIsSent

(* What follows changes one goroutine of informChanges; the others remain  *)
(* reasons to expect another list.                                         *)
LEMMA OthersTell ==
    ASSUME NEW s \in Services, NEW c \in Causes, NEW g,
           SentTypes, informer' = [informer EXCEPT ![s][c] = g], UNCHANGED <<at, gone>>,
           NEW n, NEW v, AboutToInform(n, v)
    PROVE  \/ AboutToInform(n, v)'
           \/ /\ NameOf[s] = n
              /\ \/ informer[s][c].at = "collect"
                 \/ informer[s][c].at = "snapshot" /\ v \in informer[s][c].to
<1>1. PICK t \in Services : /\ NameOf[t] = n
                            /\ \/ at[t] = "listed" \/ gone[t] = "unlisted"
                               \/ \E d \in Causes :
                                    \/ informer[t][d].at = "collect"
                                    \/ informer[t][d].at = "snapshot" /\ v \in informer[t][d].to
  BY DEF AboutToInform
<1>2. CASE at[t] = "listed" \/ gone[t] = "unlisted"
  BY <1>1, <1>2 DEF AboutToInform
<1>3. ASSUME NEW d \in Causes,
             \/ informer[t][d].at = "collect"
             \/ informer[t][d].at = "snapshot" /\ v \in informer[t][d].to
      PROVE  AboutToInform(n, v)' \/ (t = s /\ d = c)
  <2>1. (t = s /\ d = c) \/ informer'[t][d] = informer[t][d]
    BY DEF SentTypes
  <2> QED BY <1>1, <1>3, <2>1 DEF AboutToInform
<1> QED BY <1>1, <1>2, <1>3

(* The clients that are collected are all those that ask for the name.     *)
LEMMA CollectSends ==
    ASSUME SentInv, IInv, NEW s \in Services, NEW c \in Causes, Collect(s, c)
    PROVE  SentInv'
<1> DEFINE to == {v \in clients : NameOf[s] \in interest[v]}
           g == [at |-> IF to = {} THEN "done" ELSE "snapshot", to |-> to]
<1>1. /\ informer[s][c].at = "collect" /\ informer' = [informer EXCEPT ![s][c] = g]
      /\ UNCHANGED <<at, services, clients, interest, gone, newest>>
  BY DEF Collect, regVars, goneVars, viewVars
<1>2. to \subseteq clients /\ to \subseteq Services
  BY RegistryConstants DEF SentInv, SentTypes
<1>3. \A v : v \in to <=> v \in clients /\ NameOf[s] \in interest[v]
  OBVIOUS
<1>4. g.to = to /\ g.at = (IF to = {} THEN "done" ELSE "snapshot")
  OBVIOUS
<1>5. g \in [at : {"idle", "collect", "snapshot", "done"}, to : SUBSET Services]
  BY <1>2
<1> HIDE DEF g, to
<1>6. informer'[s][c] = g
  BY <1>1 DEF SentInv, SentTypes
<1>7. SentTypes'
  BY <1>1, <1>5 DEF SentInv, SentTypes
<1>8. Newcomers'
  BY <1>1 DEF SentInv, Newcomers
<1>9. ASSUME NEW v \in clients', Listed(v)', NEW n \in interest'[v]
      PROVE  newest'[v][n] = services'[n] \/ AboutToInform(n, v)'
  <2>1. v \in clients /\ n \in interest[v]
    BY <1>1, <1>9
  <2>2. newest[v][n] = services[n] \/ AboutToInform(n, v)
    BY <1>1, <1>9 DEF SentInv, EveryChangeIsSent, Listed
  <2>3. CASE NameOf[s] = n
    <3>1. informer'[s][c].at = "snapshot" /\ v \in informer'[s][c].to
      BY <1>3, <1>4, <1>6, <2>1, <2>3
    <3> QED BY <2>3, <3>1 DEF AboutToInform
  <2>4. CASE NameOf[s] # n /\ AboutToInform(n, v)
    BY <1>1, <2>4, OthersTell DEF SentInv
  <2> QED BY <1>1, <2>2, <2>3, <2>4
<1> QED BY <1>7, <1>8, <1>9 DEF SentInv, EveryChangeIsSent

(* What is sent is the list as it is. *)
LEMMA SnapshotSends ==
    ASSUME SentInv, IInv, NEW s \in Services, NEW c \in Causes, Snapshot(s, c)
    PROVE  SentInv'
<1> DEFINE to == informer[s][c].to
           l == services[NameOf[s]]
           g == [informer[s][c] EXCEPT !.at = "done"]
<1>1. /\ informer[s][c].at = "snapshot" /\ Tell(to, NameOf[s], l, <<s, c>>)
      /\ informer' = [informer EXCEPT ![s][c] = g]
      /\ UNCHANGED <<at, services, clients, interest, gone>>
  BY DEF Snapshot, regVars, goneVars
<1>2. NameOf[s] \in Names /\ l \subseteq Services
  BY RegistryConstants DEF IInv, IndexTypes, Lists
<1>3. informer[s][c] \in [at : {"idle", "collect", "snapshot", "done"}, to : SUBSET Services]
  BY DEF SentInv, SentTypes
<1>4. g \in [at : {"idle", "collect", "snapshot", "done"}, to : SUBSET Services]
  BY <1>3
<1> HIDE DEF g
<1>5. /\ newest' \in [Services -> Lists]
      /\ \A v \in Services, m \in Names :
            newest'[v][m] = IF v \in to /\ m = NameOf[s] THEN l ELSE newest[v][m]
  <2> HIDE DEF to, l
  <2>1. newest' = [v \in Services |->
                      IF v \in to THEN [newest[v] EXCEPT ![NameOf[s]] = l] ELSE newest[v]]
    BY <1>1 DEF Tell
  <2>2. \A v \in Services : newest[v] \in Lists
    BY DEF SentInv, SentTypes
  <2> QED BY <1>2, <2>1, <2>2 DEF Lists
<1>6. SentTypes'
  BY <1>1, <1>4, <1>5 DEF SentInv, SentTypes
<1>7. Newcomers'
  BY <1>1 DEF SentInv, Newcomers
<1>8. ASSUME NEW v \in clients', Listed(v)', NEW n \in interest'[v]
      PROVE  newest'[v][n] = services'[n] \/ AboutToInform(n, v)'
  <2>1. v \in Services /\ n \in Names
    BY <1>1, <1>8, RegistryConstants DEF SentInv, SentTypes
  <2>2. newest[v][n] = services[n] \/ AboutToInform(n, v)
    BY <1>1, <1>8 DEF SentInv, EveryChangeIsSent, Listed
  <2>3. CASE v \in to /\ n = NameOf[s]
    BY <1>1, <1>5, <2>1, <2>3
  <2>4. CASE ~(v \in to /\ n = NameOf[s]) /\ AboutToInform(n, v)
    BY <1>1, <2>4, OthersTell DEF SentInv
  <2>5. CASE ~(v \in to /\ n = NameOf[s]) /\ newest[v][n] = services[n]
    BY <1>1, <1>5, <2>1, <2>5
  <2> QED BY <2>2, <2>3, <2>4, <2>5
<1> QED BY <1>6, <1>7, <1>8 DEF SentInv, EveryChangeIsSent

(* Whoever asks is told the list as it is.  A service that is not found    *)
(* any more is told that there is none: it is not listed either.           *)
LEMMA AskSends ==
    ASSUME SentInv, IInv, NEW s \in Services, NEW n \in Names, Ask(s, n)
    PROVE  SentInv'
<1> DEFINE known == Lookup(idOf[s]) # None
           l == IF known THEN services[n] ELSE {}
<1>1. /\ at[s] = "up" /\ Tell({s}, n, l, <<s, "ask">>)
      /\ interest' = IF known THEN [interest EXCEPT ![s] = @ \cup {n}] ELSE interest
      /\ UNCHANGED <<at, services, clients, gone, informer>>
  BY DEF Ask, regVars, goneVars
<1>2. l \subseteq Services
  BY DEF IInv, IndexTypes, Lists
<1>3. /\ newest' \in [Services -> Lists]
      /\ \A v \in Services, m \in Names :
            newest'[v][m] = IF v \in {s} /\ m = n THEN l ELSE newest[v][m]
  <2> HIDE DEF l
  <2>1. newest' = [v \in Services |->
                      IF v \in {s} THEN [newest[v] EXCEPT ![n] = l] ELSE newest[v]]
    BY <1>1 DEF Tell
  <2>2. \A v \in Services : newest[v] \in Lists
    BY DEF SentInv, SentTypes
  <2> QED BY <1>2, <2>1, <2>2 DEF Lists
<1>4. SentTypes'
  BY <1>1, <1>3 DEF SentInv, SentTypes
<1>5. Newcomers'
  BY <1>1 DEF SentInv, SentTypes, Newcomers
<1>6. ASSUME NEW v \in clients', Listed(v)', NEW m \in interest'[v]
      PROVE  newest'[v][m] = services'[m] \/ AboutToInform(m, v)'
  <2>1. v \in Services /\ Listed(v) /\ NameOf[v] \in Names
    BY <1>1, <1>6, RegistryConstants DEF SentInv, SentTypes, Listed
  <2>2. CASE v = s /\ m = n
    <3>1. Lookup(idOf[s]) = s /\ s # None
      BY <2>1, <2>2, RegistryConstants DEF IInv, IndexesAgree, Listed
    <3> QED BY <1>1, <1>3, <2>2, <3>1
  <2>3. CASE ~(v = s /\ m = n)
    <3>1. m \in interest[v] /\ m \in Names
      BY <1>1, <1>6, <2>1, <2>3 DEF SentInv, SentTypes
    <3>2. newest[v][m] = services[m] \/ AboutToInform(m, v)
      BY <1>1, <1>6, <2>1, <3>1 DEF SentInv, EveryChangeIsSent
    <3>3. CASE AboutToInform(m, v)
      BY <1>1, <3>3, ReasonsKept
    <3>4. newest'[v][m] = newest[v][m]
      BY <1>3, <2>1, <2>3, <3>1
    <3> QED BY <1>1, <3>2, <3>3, <3>4
  <2> QED BY <2>2, <2>3
<1> QED BY <1>4, <1>5, <1>6 DEF SentInv, EveryChangeIsSent

(* What an action of one service leaves to be sent. *)
LEMMA ServiceStepSends ==
    ASSUME SentInv, IInv, NEW s \in Services, ServerStep(s) \/ ClientStep(s) \/ Expire(s)
    PROVE  SentInv'
<1> USE DEF regVars, viewVars
<1>1. CASE List(s)
  BY <1>1, ListSends
<1>2. CASE Enter(s)
  BY <1>2, EnterSends
<1>3. CASE Leave(s)
  BY <1>3, LeaveSends
<1>4. CASE HandleResign(s)
  <2>1. CASE Lookup(idOf[s]) = None
    BY <1>4, <2>1, NothingToSend DEF HandleResign, goneVars
  <2>2. CASE Lookup(idOf[s]) # None
    BY <1>4, <2>2, UnlistSends DEF HandleResign
  <2> QED BY <2>1, <2>2
<1>5. CASE Expire(s)
  <2>1. CASE Lookup(idOf[s]) = None
    BY <1>5, <2>1, NothingToSend DEF Expire, ExpireWith, goneVars
  <2>2. CASE Lookup(idOf[s]) # None
    BY <1>5, <2>2, UnlistSends DEF Expire, ExpireWith
  <2> QED BY <2>1, <2>2
<1>6. CASE CloseService(s)
  BY <1>6, NothingToSend DEF CloseService, CloseAs
<1>7. CASE SignalAlive(s) \/ Watch(s) \/ IssueAliveCheck(s) \/ Beat(s) \/ Crash(s)
  BY <1>7, NothingToSend
     DEF SignalAlive, Signal, Watch, IssueAliveCheck, Beat, Crash, goneVars
<1>8. CASE \E c \in Causes : Collect(s, c) \/ Snapshot(s, c)
  BY <1>8, CollectSends, SnapshotSends
<1>9. CASE \E n \in Names : Ask(s, n)
  BY <1>9, AskSends
<1> QED BY <1>1, <1>2, <1>3, <1>4, <1>5, <1>6, <1>7, <1>8, <1>9 DEF ServerStep, ClientStep

LEMMA SentInvariant == Spec => []SentInv
<1>1. Init => SentInv
  BY RegistryConstants
     DEF Init, SentInv, SentTypes, Newcomers, EveryChangeIsSent, Lists, Causes
<1>2. IInv /\ SentInv /\ [Next]_vars => SentInv'
  <2> SUFFICES ASSUME IInv, SentInv, [Next]_vars PROVE SentInv'
    OBVIOUS
  <2>1. CASE UNCHANGED vars
    BY <2>1, NothingToSend DEF vars, regVars, goneVars, viewVars
  <2>2. ASSUME NEW m \in net, Arrive(m) PROVE SentInv'
    BY <2>2, NothingToSend DEF Arrive, regVars, goneVars
  <2>3. CASE Running
    BY <2>2, <2>3, ServiceStepSends DEF Running
  <2> QED BY <2>1, <2>3 DEF Next, Stopped
<1> QED BY <1>1, <1>2, Invariant, PTL DEF Spec

(* However registrations, resignations, timeouts and requests interleave,  *)
(* with any number of services, names and pending informChanges, and with  *)
(* registrations that stall: a client's newest list of a name it asked for *)
(* is current, or another one is about to be made for it.                  *)
THEOREM EveryChangeSent == Spec => []EveryChangeIsSent
BY SentInvariant, PTL DEF SentInv

-----------------------------------------------------------------------------
(* No member without a timer.                                              *)

(* An id in use leads back to the service that was given it. *)
LEMMA OwnId ==
    ASSUME IInv, IdsAreOwn, NEW s \in Services, Lookup(idOf[s]) # None
    PROVE  /\ Lookup(idOf[s]) = s /\ idOf[s] \in Ids /\ Listed(s)
           /\ \A t \in Services : idOf[t] = idOf[s] => t = s
<1>1. idOf[s] \in Ids /\ idToService[idOf[s]] \in Services
  BY DEF Lookup, IInv, IndexTypes
<1>2. idOf[s] # 0
  BY <1>1, IdNumbers
<1>3. idOf[idToService[idOf[s]]] = idOf[s]
  BY <1>1 DEF IInv, IndexesAgree, Lookup
<1>4. idToService[idOf[s]] = s
  BY <1>1, <1>2, <1>3 DEF IdsAreOwn
<1> QED BY <1>1, <1>2, <1>4 DEF IInv, IndexesAgree, Listed, Lookup, IdsAreOwn

(* A listed service is found by its id. *)
LEMMA ListedIsFound ==
    ASSUME IInv, NEW s \in Services, Listed(s)
    PROVE  Lookup(idOf[s]) = s /\ s # None
BY RegistryConstants DEF IInv, IndexesAgree, Listed

(* A step that changes no membership and no alive check. *)
LEMMA NotWatching ==
    ASSUME WatchInv, UNCHANGED <<at, lastId, idOf, services, clients, closed, watcher, gone>>
    PROVE  WatchInv'
BY DEF WatchInv, WatchTypes, IdsAreOwn, GoneForGood, Arrivals, MembersAreWatched,
       ClientsAreListed, ListedAreWatched, Listed

(* A registration starts its alive check before it is listed. *)
LEMMA IssueWatches ==
    ASSUME WatchInv, IInv, SentTypes, NEW s \in Services, IssueAliveCheck(s)
    PROVE  WatchInv'
<1>1. /\ at[s] = "out" /\ at' = [at EXCEPT ![s] = "watched"]
      /\ watcher' = [watcher EXCEPT ![s] = "watch"]
      /\ UNCHANGED <<lastId, idOf, services, clients, closed, gone>>
  BY DEF IssueAliveCheck, goneVars
<1>2. \A t \in Services : Listed(t)' <=> Listed(t)
  BY <1>1 DEF Listed
<1>3. WatchTypes' /\ IdsAreOwn'
  BY <1>1 DEF WatchInv, WatchTypes, IdsAreOwn, IInv, IndexTypes
<1>4. GoneForGood' /\ Arrivals'
  BY <1>1, <1>2 DEF WatchInv, WatchTypes, GoneForGood, Arrivals, IInv, IndexTypes
<1>5. MembersAreWatched'
  BY <1>1, <1>2, RegistryConstants DEF WatchInv, WatchTypes, MembersAreWatched, ClientsAreListed,
     ListedAreWatched, SentTypes
<1> QED BY <1>3, <1>4, <1>5 DEF WatchInv

(* The id of a new member is nobody else's; its alive check runs.          *)
LEMMA ListWatches ==
    ASSUME WatchInv, IInv, SentTypes, NEW s \in Services, List(s)
    PROVE  WatchInv'
<1>1. /\ at[s] = "watched" /\ at' = [at EXCEPT ![s] = "listed"]
      /\ lastId' = lastId + 1 /\ idOf' = [idOf EXCEPT ![s] = lastId + 1]
      /\ services' = [services EXCEPT ![NameOf[s]] = @ \cup {s}]
      /\ UNCHANGED <<clients, closed, watcher, gone>>
  BY DEF List, ListAs, goneVars, aliveVars
<1>2. \A t \in Services : Listed(t)' <=> Listed(t) \/ t = s
  <2>1. \A t \in Services : NameOf[t] \in Names
    BY RegistryConstants
  <2> QED BY <1>1, <2>1 DEF Listed, IInv, IndexTypes, Lists
<1>3. lastId \in Nat /\ \A t \in Services : idOf[t] \in Nat
  BY IdNumbers DEF IInv, IndexTypes
<1>4. \A t \in Services : idOf'[t] = IF t = s THEN lastId + 1 ELSE idOf[t]
  BY <1>1 DEF IInv, IndexTypes
<1>5. \A t \in Services : at'[t] = IF t = s THEN "listed" ELSE at[t]
  BY <1>1 DEF IInv, IndexTypes
<1>6. IdsAreOwn'
  BY <1>1, <1>3, <1>4, <1>5 DEF WatchInv, IdsAreOwn
<1>7. WatchTypes'
  BY <1>1 DEF WatchInv, WatchTypes
<1>8. GoneForGood'
  BY <1>1, <1>2, <1>5 DEF WatchInv, GoneForGood
<1>9. Arrivals' /\ MembersAreWatched'
  BY <1>1, <1>2, <1>5, RegistryConstants DEF WatchInv, Arrivals, MembersAreWatched,
     ClientsAreListed, ListedAreWatched, SentTypes
<1> QED BY <1>6, <1>7, <1>8, <1>9 DEF WatchInv

(* Who becomes a client is listed: without stalls nobody has timed it out. *)
LEMMA EnterWatches ==
    ASSUME WatchInv, IInv, SentTypes, NEW s \in Services, Enter(s)
    PROVE  WatchInv'
<1>1. /\ at[s] = "listed" /\ at' = [at EXCEPT ![s] = "up"]
      /\ clients' \subseteq clients \cup {s}
      /\ UNCHANGED <<lastId, idOf, services, closed, watcher, gone>>
  BY DEF Enter, goneVars, aliveVars
<1>2. \A t \in Services : Listed(t)' <=> Listed(t)
  BY <1>1 DEF Listed
<1>3. \A t \in Services : at'[t] = IF t = s THEN "up" ELSE at[t]
  BY <1>1 DEF IInv, IndexTypes
<1>4. WatchTypes' /\ IdsAreOwn'
  BY <1>1, <1>3 DEF WatchInv, WatchTypes, IdsAreOwn
<1>5. GoneForGood' /\ Arrivals'
  BY <1>1, <1>2, <1>3 DEF WatchInv, GoneForGood, Arrivals
<1>6. MembersAreWatched'
  BY <1>1, <1>2, RegistryConstants DEF WatchInv, Arrivals, MembersAreWatched,
     ClientsAreListed, ListedAreWatched, SentTypes
<1> QED BY <1>4, <1>5, <1>6 DEF WatchInv

(* resign takes out the service it was called for and nobody else.         *)
LEMMA UnlistWatches ==
    ASSUME WatchInv, IInv, SentTypes, NEW s \in Services, Lookup(idOf[s]) # None, at[s] = "up",
           NEW who, Unlist(idOf[s], who), UNCHANGED <<at, lastId, idOf, clients, closed>>,
           \/ UNCHANGED watcher
           \/ watcher' = [watcher EXCEPT ![s] = "resign"]
    PROVE  WatchInv'
<1>1. Lookup(idOf[s]) = s /\ Listed(s) /\ \A t \in Services : idOf[t] = idOf[s] => t = s
  BY OwnId DEF WatchInv
<1>2. /\ services' = [services EXCEPT ![NameOf[s]] =
                        {t \in services[NameOf[s]] : idOf[t] # idOf[s]}]
      /\ gone' = [gone EXCEPT ![s] = "unlisted"]
  BY <1>1 DEF Unlist, Listed
<1>3. \A t \in Services : Listed(t)' <=> Listed(t) /\ t # s
  <2>1. \A t \in Services : NameOf[t] \in Names
    BY RegistryConstants
  <2>2. \A t \in Services : Listed(t)' <=> Listed(t) /\ ~(NameOf[t] = NameOf[s] /\ idOf[t] = idOf[s])
    BY <1>2, <2>1 DEF Listed, IInv, IndexTypes, Lists
  <2> QED BY <1>1, <2>2
<1>4. \A t \in Services : gone'[t] = IF t = s THEN "unlisted" ELSE gone[t]
  BY <1>2 DEF SentTypes
<1>5. \A t \in Services : t # s => watcher'[t] = watcher[t]
  BY DEF WatchInv, WatchTypes
<1>6. WatchTypes' /\ IdsAreOwn'
  BY DEF WatchInv, WatchTypes, IdsAreOwn
<1>7. ~closed[s]
  BY <1>1 DEF WatchInv, GoneForGood
<1>8. GoneForGood'
  BY <1>3, <1>4, <1>7 DEF WatchInv, GoneForGood
<1>9. Arrivals'
  BY <1>3, <1>5 DEF WatchInv, Arrivals
<1>10. MembersAreWatched'
  BY <1>3, <1>4, <1>5, RegistryConstants DEF WatchInv, MembersAreWatched, ClientsAreListed,
     ListedAreWatched, SentTypes
<1> QED BY <1>6, <1>8, <1>9, <1>10 DEF WatchInv

(* Only the alive check of a service that is not listed ends. *)
LEMMA WatcherEnds ==
    ASSUME WatchInv, IInv, SentTypes, NEW s \in Services, at[s] = "up", ~Listed(s),
           watcher' = [watcher EXCEPT ![s] = "exit"],
           UNCHANGED <<at, lastId, idOf, services, clients, closed, gone>>
    PROVE  WatchInv'
<1>1. \A t \in Services : t # s => watcher'[t] = watcher[t]
  BY DEF WatchInv, WatchTypes
<1>2. \A t \in Services : Listed(t)' <=> Listed(t)
  BY DEF Listed
<1>3. WatchTypes' /\ IdsAreOwn' /\ GoneForGood'
  BY <1>2 DEF WatchInv, WatchTypes, IdsAreOwn, GoneForGood
<1>4. Arrivals'
  BY <1>1, <1>2 DEF WatchInv, Arrivals
<1>5. MembersAreWatched'
  BY <1>1, <1>2, RegistryConstants DEF WatchInv, MembersAreWatched, ClientsAreListed,
     ListedAreWatched, SentTypes
<1> QED BY <1>3, <1>4, <1>5 DEF WatchInv

(* A timeout finds its service by id, or the service is no member any more.*)
LEMMA ExpireWatches ==
    ASSUME ~Stall, WatchInv, IInv, SentTypes, NEW s \in Services, Expire(s)
    PROVE  WatchInv'
<1>1. at[s] = "up" /\ UNCHANGED <<at, lastId, idOf, clients, closed>>
  BY DEF Expire, ExpireWith
<1>2. CASE Lookup(idOf[s]) = None
  <2>1. ~Listed(s)
    BY <1>2, ListedIsFound
  <2> QED BY <1>1, <1>2, <2>1, WatcherEnds DEF Expire, ExpireWith, goneVars
<1>3. CASE Lookup(idOf[s]) # None
  BY <1>1, <1>3, UnlistWatches DEF Expire, ExpireWith
<1> QED BY <1>2, <1>3

(* resign takes the client out once it is out of the lists. *)
LEMMA LeaveWatches ==
    ASSUME WatchInv, IInv, SentTypes, NEW s \in Services, Leave(s)
    PROVE  WatchInv'
<1>1. /\ gone[s] = "unlisted" /\ gone' = [gone EXCEPT ![s] = "informing"]
      /\ clients' = IF s \in Listening THEN clients \ {s} ELSE clients
      /\ UNCHANGED <<at, lastId, idOf, services, closed, watcher>>
  BY DEF Leave, regVars, aliveVars
<1>2. \A t \in Services : gone'[t] = IF t = s THEN "informing" ELSE gone[t]
  BY <1>1 DEF SentTypes
<1>3. \A t \in Services : Listed(t)' <=> Listed(t)
  BY <1>1 DEF Listed
<1>4. clients' = clients \ {s} /\ clients \subseteq Services
  BY <1>1, RegistryConstants DEF SentTypes
<1>5. WatchTypes' /\ IdsAreOwn' /\ Arrivals'
  BY <1>1, <1>3 DEF WatchInv, WatchTypes, IdsAreOwn, Arrivals
<1>6. GoneForGood'
  BY <1>1, <1>2, <1>3 DEF WatchInv, GoneForGood
<1>7. MembersAreWatched'
  BY <1>1, <1>2, <1>3, <1>4 DEF WatchInv, MembersAreWatched, ClientsAreListed, ListedAreWatched
<1> QED BY <1>5, <1>6, <1>7 DEF WatchInv

(* The channel of a service that is out of the lists is closed. *)
LEMMA CloseWatches ==
    ASSUME WatchInv, IInv, SentTypes, NEW s \in Services, CloseService(s)
    PROVE  WatchInv'
<1>1. /\ gone[s] = "informing" /\ gone' = [gone EXCEPT ![s] = "closed"]
      /\ closed' = [closed EXCEPT ![s] = TRUE]
      /\ \/ UNCHANGED watcher
         \/ watcher' = [watcher EXCEPT ![s] = "exit"]
      /\ UNCHANGED <<at, lastId, idOf, services, clients>>
  BY DEF CloseService, CloseAs, regVars, WatchInv, WatchTypes
<1>2. \A t \in Services : /\ gone'[t] = IF t = s THEN "closed" ELSE gone[t]
                          /\ closed'[t] = IF t = s THEN TRUE ELSE closed[t]
                          /\ t # s => watcher'[t] = watcher[t]
  BY <1>1 DEF SentTypes, WatchInv, WatchTypes
<1>3. \A t \in Services : Listed(t)' <=> Listed(t)
  BY <1>1 DEF Listed
<1>4. at[s] = "up" /\ ~Listed(s)
  BY <1>1 DEF WatchInv, GoneForGood
<1>5. WatchTypes' /\ IdsAreOwn'
  BY <1>1 DEF WatchInv, WatchTypes, IdsAreOwn
<1>6. GoneForGood'
  BY <1>1, <1>2, <1>3 DEF WatchInv, GoneForGood
<1>7. Arrivals'
  BY <1>1, <1>2, <1>3, <1>4 DEF WatchInv, Arrivals
<1>8. MembersAreWatched'
  BY <1>1, <1>2, <1>3, <1>4, RegistryConstants DEF WatchInv, MembersAreWatched,
     ClientsAreListed, ListedAreWatched, SentTypes
<1> QED BY <1>5, <1>6, <1>7, <1>8 DEF WatchInv

(* What an action of one service does to the members and their timers. *)
LEMMA ServiceStepWatches ==
    ASSUME ~Stall, WatchInv, IInv, SentTypes, NEW s \in Services,
           ServerStep(s) \/ ClientStep(s) \/ Expire(s)
    PROVE  WatchInv'
<1> USE DEF regVars, aliveVars, goneVars
<1>1. CASE IssueAliveCheck(s) \/ List(s) \/ Enter(s)
  BY <1>1, IssueWatches, ListWatches, EnterWatches
<1>2. CASE Expire(s) \/ Leave(s) \/ CloseService(s)
  BY <1>2, ExpireWatches, LeaveWatches, CloseWatches
<1>3. CASE HandleResign(s)
  <2>1. CASE Lookup(idOf[s]) = None
    BY <1>3, <2>1, NotWatching DEF HandleResign
  <2>2. CASE Lookup(idOf[s]) # None
    BY <1>3, <2>2, UnlistWatches DEF HandleResign
  <2> QED BY <2>1, <2>2
<1>4. CASE Watch(s)
  <2>1. CASE UNCHANGED watcher
    BY <1>4, <2>1, NotWatching DEF Watch
  <2>2. CASE closed[s] /\ watcher' = [watcher EXCEPT ![s] = "exit"]
    <3>1. at[s] = "up" /\ ~Listed(s)
      BY <2>2 DEF WatchInv, GoneForGood
    <3> QED BY <1>4, <2>2, <3>1, WatcherEnds DEF Watch
  <2> QED BY <1>4, <2>1, <2>2 DEF Watch
<1>5. CASE SignalAlive(s) \/ Beat(s) \/ Crash(s)
  BY <1>5, NotWatching DEF SignalAlive, Signal, Beat, Crash
<1>6. CASE \E c \in Causes : Collect(s, c) \/ Snapshot(s, c)
  BY <1>6, NotWatching DEF Collect, Snapshot
<1>7. CASE \E n \in Names : Ask(s, n)
  BY <1>7, NotWatching DEF Ask
<1> QED BY <1>1, <1>2, <1>3, <1>4, <1>5, <1>6, <1>7 DEF ServerStep, ClientStep

(* Without stalls nobody is a member without a timer. *)
LEMMA MembersWatched == ~Stall => (Spec => []WatchInv)
<1> SUFFICES ASSUME ~Stall PROVE Spec => []WatchInv
  OBVIOUS
<1>1. Init => WatchInv
  BY RegistryConstants
     DEF Init, WatchInv, WatchTypes, IdsAreOwn, GoneForGood, Arrivals, MembersAreWatched,
         ClientsAreListed, ListedAreWatched, Listed
<1>2. WatchInv /\ IInv /\ SentInv /\ [Next]_vars => WatchInv'
  <2> SUFFICES ASSUME WatchInv, IInv, SentInv, [Next]_vars PROVE WatchInv'
    OBVIOUS
  <2>1. CASE UNCHANGED vars
    BY <2>1, NotWatching DEF vars, regVars, goneVars, aliveVars
  <2>2. ASSUME NEW m \in net, Arrive(m) PROVE WatchInv'
    BY <2>2, NotWatching DEF Arrive, regVars, goneVars, aliveVars
  <2>3. CASE Running
    BY <2>2, <2>3, ServiceStepWatches DEF Running, SentInv
  <2> QED BY <2>1, <2>3 DEF Next, Stopped
<1> QED BY <1>1, <1>2, Invariant, SentInvariant, PTL DEF Spec

(* Unless a registration takes longer than three ticks, every member of    *)
(* the registry has a running alive check, and every client is a member or *)
(* about to be taken out: nobody stays whom no timer would remove.         *)
THEOREM MembersAlwaysWatched == ~Stall => (Spec => []MembersAreWatched)
<1>1. WatchInv => MembersAreWatched
  BY DEF WatchInv
<1> QED BY <1>1, MembersWatched, PTL

-----------------------------------------------------------------------------
(* Whoever is gone is removed, once and for good.                          *)

(* How far the removal of a service has come, whichever goroutine runs it: *)
(* resign informs before it closes, and an alive check that resigns ends   *)
(* with it.                                                                *)
RemovalOf(s) ==
    /\ at[s] = "up" /\ gone[s] = "no" => Listed(s)
    /\ gone[s] \in {"informing", "closed"} => informer[s]["resign"].at # "idle"
    /\ gone[s] = "closed" => closed[s]
    /\ watcher[s] = "resign" => gone[s] \in {"unlisted", "informing"} /\ remover[s] = "watcher"
    /\ watcher[s] = "none" => at[s] = "out"
RemovalInv ==
    /\ remover \in [Services -> {"none", "handler", "watcher"}]
    /\ \A s \in Services : RemovalOf(s)

(* resign runs once per service, stage by stage and in one goroutine, and  *)
(* a service that it has taken out of the lists never comes back.          *)
Stages == [no |-> 0, unlisted |-> 1, informing |-> 2, closed |-> 3]
ResignOf(s) ==
    /\ Stages[gone[s]] <= Stages[gone'[s]] /\ Stages[gone'[s]] <= Stages[gone[s]] + 1
    /\ gone[s] # "no" => remover'[s] = remover[s] /\ ~Listed(s)'
ResignsOnce == [][\A s \in Services : ResignOf(s)]_vars

(* A service whose process is gone is out of both indexes and the clients, *)
(* its channel is closed and its alive check has ended; or a step towards  *)
(* that can be taken: by its registration while ids are left, by its timer *)
(* or by resign.                                                           *)
Removed(s) == ~Listed(s) /\ s \notin clients /\ watcher[s] = "exit" /\ closed[s]
CanBeRemoved(s) ==
    \/ at[s] = "watched" /\ lastId + 1 \in Ids                      \* List
    \/ at[s] = "listed"                                             \* Enter
    \/ at[s] = "up" /\ watcher[s] = "watch"                         \* Expire
    \/ gone[s] = "unlisted"                                         \* Leave
    \/ informer[s]["resign"].at \in {"collect", "snapshot"}         \* Collect, Snapshot
    \/ gone[s] = "informing" /\ informer[s]["resign"].at = "done"   \* CloseService
DeadNeverStuck ==
    \A s \in Mortal : ~alive[s] /\ at[s] # "out" =>
        Removed(s) \/ CanBeRemoved(s) \/ (at[s] = "watched" /\ lastId = MaxId)

(* What the steps rest on. *)
ServerInv == IInv /\ SentTypes /\ WatchInv /\ RemovalInv

(* A service that a step does not touch, or whose informChanges comes a    *)
(* step further.                                                           *)
LEMMA Untouched ==
    ASSUME ServerInv, NEW t \in Services,
           at'[t] = at[t], gone'[t] = gone[t], Listed(t)' <=> Listed(t), closed'[t] = closed[t],
           watcher'[t] = watcher[t], remover'[t] = remover[t],
           informer[t]["resign"].at # "idle" => informer'[t]["resign"].at # "idle"
    PROVE  RemovalOf(t)' /\ ResignOf(t)
<1>1. RemovalOf(t)'
  BY DEF ServerInv, RemovalInv, RemovalOf
<1>2. gone[t] \in {"no", "unlisted", "informing", "closed"}
  BY DEF ServerInv, SentTypes
<1>3. gone[t] # "no" => ~Listed(t)
  BY DEF ServerInv, WatchInv, GoneForGood
<1> QED BY <1>1, <1>2, <1>3 DEF ResignOf, Stages

(* A step that touches no service. *)
LEMMA NobodyLeaves ==
    ASSUME ServerInv, UNCHANGED <<at, gone, services, closed, watcher, remover>>,
           \A t \in Services : informer[t]["resign"].at # "idle" => informer'[t]["resign"].at # "idle"
    PROVE  RemovalInv' /\ \A t \in Services : ResignOf(t)
<1>1. \A t \in Services : Listed(t)' <=> Listed(t)
  BY DEF Listed
<1>2. \A t \in Services : RemovalOf(t)' /\ ResignOf(t)
  BY <1>1, Untouched
<1> QED BY <1>2 DEF ServerInv, RemovalInv

(* A service registers: its alive check starts, it is listed, it enters.   *)
LEMMA RegisteringRemoves ==
    ASSUME ServerInv, NEW s \in Services, IssueAliveCheck(s) \/ List(s) \/ Enter(s)
    PROVE  RemovalInv' /\ \A t \in Services : ResignOf(t)
<1>1. /\ UNCHANGED <<gone, closed, remover>>
      /\ at[s] \in {"out", "watched", "listed"}
      /\ \/ at[s] = "out" /\ at' = [at EXCEPT ![s] = "watched"]
            /\ watcher' = [watcher EXCEPT ![s] = "watch"] /\ UNCHANGED <<services, informer>>
         \/ at[s] = "watched" /\ at' = [at EXCEPT ![s] = "listed"]
            /\ services' = [services EXCEPT ![NameOf[s]] = @ \cup {s}]
            /\ UNCHANGED <<watcher, informer>>
         \/ at[s] = "listed" /\ at' = [at EXCEPT ![s] = "up"]
            /\ StartInforming(s, "register") /\ UNCHANGED <<services, watcher>>
  BY DEF IssueAliveCheck, List, ListAs, Enter, goneVars, aliveVars
<1>2. \A t \in Services : NameOf[t] \in Names
  BY RegistryConstants
<1>3. \A t \in Services : t # s => (Listed(t)' <=> Listed(t))
  BY <1>1, <1>2 DEF Listed, ServerInv, IInv, IndexTypes, Lists
<1>4. \A t \in Services : t # s => at'[t] = at[t] /\ watcher'[t] = watcher[t]
  BY <1>1 DEF ServerInv, IInv, IndexTypes, WatchInv, WatchTypes
<1>5. \A t \in Services : informer'[t]["resign"] = informer[t]["resign"]
  BY <1>1 DEF StartInforming, StartFor, ServerInv, SentTypes, Causes
<1>6. \A t \in Services : t # s => RemovalOf(t)' /\ ResignOf(t)
  BY <1>1, <1>3, <1>4, <1>5, Untouched
<1>7. gone[s] = "no" /\ gone'[s] = "no"
  BY <1>1 DEF ServerInv, WatchInv, GoneForGood, SentTypes
<1>8. ResignOf(s)
  BY <1>7 DEF ResignOf, Stages
<1>9. /\ at'[s] = "up" => Listed(s)'
      /\ watcher'[s] \notin {"resign", "none"}
  <2>1. at[s] # "out" => watcher[s] = "watch"
    BY <1>1 DEF ServerInv, WatchInv, Arrivals
  <2>2. at[s] = "listed" => Listed(s)
    BY DEF ServerInv, WatchInv, Arrivals
  <2> QED BY <1>1, <2>1, <2>2 DEF ServerInv, IInv, IndexTypes, WatchInv, WatchTypes, Listed
<1>10. RemovalOf(s)'
  BY <1>7, <1>9 DEF RemovalOf
<1> QED BY <1>1, <1>6, <1>8, <1>10 DEF ServerInv, RemovalInv

(* resign finds the service it is called for, which nobody has taken out.  *)
LEMMA UnlistRemoves ==
    ASSUME ServerInv, NEW s \in Services, Lookup(idOf[s]) # None, at[s] = "up",
           NEW who \in {"handler", "watcher"}, Unlist(idOf[s], who),
           UNCHANGED <<at, closed, idOf, informer>>,
           watcher' = IF who = "watcher" THEN [watcher EXCEPT ![s] = "resign"] ELSE watcher
    PROVE  RemovalInv' /\ \A t \in Services : ResignOf(t)
<1>1. /\ Lookup(idOf[s]) = s /\ Listed(s) /\ \A t \in Services : idOf[t] = idOf[s] => t = s
  BY OwnId DEF ServerInv, WatchInv
<1>2. /\ services' = [services EXCEPT ![NameOf[s]] =
                        {t \in services[NameOf[s]] : idOf[t] # idOf[s]}]
      /\ gone' = [gone EXCEPT ![s] = "unlisted"]
      /\ remover' = [remover EXCEPT ![s] = who]
  BY <1>1 DEF Unlist, Listed
<1>3. \A t \in Services : Listed(t)' <=> Listed(t) /\ t # s
  <2>1. \A t \in Services : NameOf[t] \in Names
    BY RegistryConstants
  <2>2. \A t \in Services : Listed(t)' <=> Listed(t) /\ ~(NameOf[t] = NameOf[s] /\ idOf[t] = idOf[s])
    BY <1>2, <2>1 DEF Listed, ServerInv, IInv, IndexTypes, Lists
  <2> QED BY <1>1, <2>2
<1>4. gone[s] = "no" /\ watcher[s] = "watch"
  BY <1>1 DEF ServerInv, WatchInv, GoneForGood, SentTypes, MembersAreWatched, ListedAreWatched
<1>5. \A t \in Services : t # s =>
          gone'[t] = gone[t] /\ remover'[t] = remover[t] /\ watcher'[t] = watcher[t]
  BY <1>2 DEF ServerInv, SentTypes, RemovalInv, WatchInv, WatchTypes
<1>6. \A t \in Services : t # s => RemovalOf(t)' /\ ResignOf(t)
  BY <1>3, <1>5, Untouched
<1>7. gone'[s] = "unlisted" /\ remover'[s] = who
      /\ (who # "watcher" => watcher'[s] = "watch") /\ (who = "watcher" => watcher'[s] = "resign")
  BY <1>2, <1>4 DEF ServerInv, SentTypes, RemovalInv, WatchInv, WatchTypes
<1>8. RemovalOf(s)' /\ ResignOf(s)
  BY <1>3, <1>4, <1>7 DEF RemovalOf, ResignOf, Stages
<1>9. remover' \in [Services -> {"none", "handler", "watcher"}]
  BY <1>2 DEF ServerInv, RemovalInv
<1> QED BY <1>6, <1>8, <1>9 DEF RemovalInv

(* The alive check ends: its service is out of the lists already.          *)
LEMMA WatcherEndRemoves ==
    ASSUME ServerInv, NEW s \in Services, watcher' = [watcher EXCEPT ![s] = "exit"],
           UNCHANGED <<at, gone, services, closed, remover, informer>>
    PROVE  RemovalInv' /\ \A t \in Services : ResignOf(t)
<1>1. \A t \in Services : Listed(t)' <=> Listed(t)
  BY DEF Listed
<1>2. \A t \in Services : t # s => watcher'[t] = watcher[t]
  BY DEF ServerInv, WatchInv, WatchTypes
<1>3. \A t \in Services : t # s => RemovalOf(t)' /\ ResignOf(t)
  BY <1>1, <1>2, Untouched
<1>4. watcher'[s] = "exit"
  BY DEF ServerInv, WatchInv, WatchTypes
<1>5. RemovalOf(s)'
  BY <1>1, <1>4 DEF RemovalOf, ServerInv, RemovalInv
<1>6. gone[s] # "no" => ~Listed(s)
  BY DEF ServerInv, WatchInv, GoneForGood
<1>7. ResignOf(s)
  BY <1>1, <1>6 DEF ResignOf, Stages, ServerInv, SentTypes
<1> QED BY <1>3, <1>5, <1>7 DEF ServerInv, RemovalInv

(* resign goes on: it takes the client out and informs, then it closes.    *)
LEMMA ResignRemoves ==
    ASSUME ServerInv, NEW s \in Services, Leave(s) \/ CloseService(s)
    PROVE  RemovalInv' /\ \A t \in Services : ResignOf(t)
<1>1. /\ UNCHANGED <<at, services, remover>>
      /\ \/ /\ gone[s] = "unlisted" /\ gone' = [gone EXCEPT ![s] = "informing"]
            /\ StartInforming(s, "resign") /\ UNCHANGED <<closed, watcher>>
         \/ /\ gone[s] = "informing" /\ gone' = [gone EXCEPT ![s] = "closed"]
            /\ informer[s]["resign"].at = "done" /\ closed' = [closed EXCEPT ![s] = TRUE]
            /\ watcher' = [watcher EXCEPT ![s] = IF remover[s] = "watcher" THEN "exit" ELSE @]
            /\ UNCHANGED informer
  BY DEF Leave, CloseService, CloseAs, regVars, aliveVars
<1>2. \A t \in Services : Listed(t)' <=> Listed(t)
  BY <1>1 DEF Listed
<1>3. \A t \in Services : t # s => /\ gone'[t] = gone[t] /\ closed'[t] = closed[t]
                                   /\ watcher'[t] = watcher[t] /\ informer'[t] = informer[t]
  BY <1>1 DEF ServerInv, SentTypes, WatchInv, WatchTypes, StartInforming, StartFor, Causes
<1>4. \A t \in Services : t # s => RemovalOf(t)' /\ ResignOf(t)
  BY <1>1, <1>2, <1>3, Untouched
<1>5. at[s] = "up" /\ ~Listed(s)
  BY <1>1 DEF ServerInv, WatchInv, GoneForGood
<1>6. RemovalOf(s)
  BY DEF ServerInv, RemovalInv
<1>7. CASE gone[s] = "unlisted"
  <2>1. gone'[s] = "informing" /\ watcher' = watcher /\ informer'[s]["resign"].at = "collect"
    BY <1>1, <1>7 DEF ServerInv, SentTypes, StartInforming, StartFor, Causes
  <2>2. RemovalOf(s)'
    BY <1>1, <1>6, <1>7, <2>1 DEF RemovalOf
  <2>3. ResignOf(s)
    BY <1>1, <1>2, <1>5, <1>7, <2>1 DEF ResignOf, Stages
  <2> QED BY <1>1, <1>4, <2>2, <2>3 DEF ServerInv, RemovalInv
<1>8. CASE gone[s] = "informing"
  <2>1. gone'[s] = "closed" /\ closed'[s] = TRUE /\ informer' = informer
        /\ watcher'[s] = IF remover[s] = "watcher" THEN "exit" ELSE watcher[s]
    BY <1>1, <1>8 DEF ServerInv, SentTypes, WatchInv, WatchTypes
  <2>2. RemovalOf(s)'
    BY <1>1, <1>6, <1>8, <2>1 DEF RemovalOf
  <2>3. ResignOf(s)
    BY <1>1, <1>2, <1>5, <1>8, <2>1 DEF ResignOf, Stages
  <2> QED BY <1>1, <1>4, <2>2, <2>3 DEF ServerInv, RemovalInv
<1> QED BY <1>1, <1>7, <1>8

(* informChanges does not go back. *)
LEMMA InformerGoesOn ==
    ASSUME ServerInv, NEW s \in Services, NEW c \in Causes, Collect(s, c) \/ Snapshot(s, c)
    PROVE  RemovalInv' /\ \A t \in Services : ResignOf(t)
<1>1. UNCHANGED <<at, gone, services, closed, watcher, remover>>
  BY DEF Collect, Snapshot, regVars, goneVars, aliveVars
<1>2. \E g : informer' = [informer EXCEPT ![s][c] = g] /\ g.at # "idle"
  <2>1. CASE Collect(s, c)
    <3> DEFINE to == {v \in clients : NameOf[s] \in interest[v]}
               g == [at |-> IF to = {} THEN "done" ELSE "snapshot", to |-> to]
    <3>1. informer' = [informer EXCEPT ![s][c] = g]
      BY <2>1 DEF Collect
    <3>2. g.at # "idle"
      OBVIOUS
    <3> HIDE DEF g
    <3> QED BY <3>1, <3>2
  <2>2. CASE Snapshot(s, c)
    <3> DEFINE g == [informer[s][c] EXCEPT !.at = "done"]
    <3>1. informer' = [informer EXCEPT ![s][c] = g]
      BY <2>2 DEF Snapshot
    <3>2. g.at = "done"
      BY DEF ServerInv, SentTypes
    <3> HIDE DEF g
    <3> QED BY <3>1, <3>2
  <2> QED BY <2>1, <2>2
<1>3. \A t \in Services : informer[t]["resign"].at # "idle" => informer'[t]["resign"].at # "idle"
  <2>1. PICK g : informer' = [informer EXCEPT ![s][c] = g] /\ g.at # "idle"
    BY <1>2
  <2> QED BY <2>1 DEF ServerInv, SentTypes, Causes
<1> QED BY <1>1, <1>3, NobodyLeaves

(* What an action of one service does to the removal of any other.         *)
LEMMA ServiceStepRemoves ==
    ASSUME ~Stall, ServerInv, NEW s \in Services, ServerStep(s) \/ ClientStep(s) \/ Expire(s)
    PROVE  RemovalInv' /\ \A t \in Services : ResignOf(t)
<1> USE DEF regVars, aliveVars, goneVars
<1>1. CASE IssueAliveCheck(s) \/ List(s) \/ Enter(s)
  BY <1>1, RegisteringRemoves
<1>2. CASE Leave(s) \/ CloseService(s)
  BY <1>2, ResignRemoves
<1>3. CASE HandleResign(s)
  <2>1. CASE Lookup(idOf[s]) = None
    BY <1>3, <2>1, NobodyLeaves DEF HandleResign
  <2>2. CASE Lookup(idOf[s]) # None
    BY <1>3, <2>2, UnlistRemoves DEF HandleResign
  <2> QED BY <2>1, <2>2
<1>4. CASE Expire(s)
  <2>1. CASE Lookup(idOf[s]) = None
    BY <1>4, <2>1, WatcherEndRemoves DEF Expire, ExpireWith
  <2>2. CASE Lookup(idOf[s]) # None
    BY <1>4, <2>2, UnlistRemoves DEF Expire, ExpireWith
  <2> QED BY <2>1, <2>2
<1>5. CASE Watch(s)
  <2>1. CASE UNCHANGED watcher
    BY <1>5, <2>1, NobodyLeaves DEF Watch
  <2>2. CASE watcher' = [watcher EXCEPT ![s] = "exit"]
    BY <1>5, <2>2, WatcherEndRemoves DEF Watch
  <2> QED BY <1>5, <2>1, <2>2 DEF Watch
<1>6. CASE SignalAlive(s) \/ Beat(s) \/ Crash(s)
  BY <1>6, NobodyLeaves DEF SignalAlive, Signal, Beat, Crash
<1>7. CASE \E c \in Causes : Collect(s, c) \/ Snapshot(s, c)
  BY <1>7, InformerGoesOn
<1>8. CASE \E n \in Names : Ask(s, n)
  BY <1>8, NobodyLeaves DEF Ask
<1> QED BY <1>1, <1>2, <1>3, <1>4, <1>5, <1>6, <1>7, <1>8 DEF ServerStep, ClientStep

LEMMA StepRemoves ==
    ASSUME ~Stall, ServerInv, [Next]_vars
    PROVE  RemovalInv' /\ \A t \in Services : ResignOf(t)
<1>1. CASE UNCHANGED vars
  BY <1>1, NobodyLeaves DEF vars, regVars, goneVars, aliveVars
<1>2. ASSUME NEW m \in net, Arrive(m) PROVE RemovalInv' /\ \A t \in Services : ResignOf(t)
  BY <1>2, NobodyLeaves DEF Arrive, regVars, goneVars, aliveVars
<1>3. CASE Running
  BY <1>2, <1>3, ServiceStepRemoves DEF Running
<1> QED BY <1>1, <1>3 DEF Next, Stopped

LEMMA RemovalInvariant == ~Stall => (Spec => []ServerInv)
<1> SUFFICES ASSUME ~Stall PROVE Spec => []ServerInv
  OBVIOUS
<1>1. Init => RemovalInv
  BY DEF Init, RemovalInv, RemovalOf
<1>2. ServerInv /\ [Next]_vars => RemovalInv'
  BY StepRemoves
<1>3. Spec => [](IInv /\ SentTypes /\ WatchInv)
  BY Invariant, SentInvariant, MembersWatched, PTL DEF SentInv
<1> QED BY <1>1, <1>2, <1>3, PTL DEF Spec, ServerInv

(* A service whose process is gone is always removed, or a step of the     *)
(* registry towards that can be taken, unless the numbers of the model are *)
(* used up: the safety half of DeadAreRemoved, for every set of services.  *)
THEOREM TheDeadAreNeverStuck == ~Stall => (Spec => []DeadNeverStuck)
<1> SUFFICES ASSUME ~Stall PROVE Spec => []DeadNeverStuck
  OBVIOUS
<1>1. ASSUME ServerInv, NEW s \in Mortal, at[s] # "out"
      PROVE  Removed(s) \/ CanBeRemoved(s) \/ (at[s] = "watched" /\ lastId = MaxId)
  <2>1. s \in Services /\ RemovalOf(s)
    BY <1>1, RegistryConstants DEF ServerInv, RemovalInv
  <2>2. CASE at[s] = "watched"
    BY <1>1, <2>2, RegistryConstants DEF CanBeRemoved, Ids, ServerInv, IInv, IndexTypes
  <2>3. CASE at[s] = "up" /\ gone[s] = "no"
    BY <1>1, <2>1, <2>3
       DEF CanBeRemoved, RemovalOf, ServerInv, WatchInv, MembersAreWatched, ListedAreWatched
  <2>4. CASE gone[s] = "informing"
    <3>1. informer[s]["resign"].at \in {"idle", "collect", "snapshot", "done"}
      BY <1>1, <2>1 DEF ServerInv, SentTypes, Causes
    <3> QED BY <2>1, <2>4, <3>1 DEF CanBeRemoved, RemovalOf
  <2>5. CASE gone[s] = "closed" /\ at[s] = "up" /\ watcher[s] # "watch"
    <3>1. ~Listed(s) /\ s \notin clients
      BY <1>1, <2>1, <2>5 DEF ServerInv, WatchInv, GoneForGood, MembersAreWatched, ClientsAreListed
    <3>2. watcher[s] \in {"none", "watch", "resign", "exit"}
      BY <1>1, <2>1 DEF ServerInv, WatchInv, WatchTypes
    <3> QED BY <1>1, <2>1, <2>5, <3>1, <3>2 DEF Removed, RemovalOf
  <2>6. at[s] \in {"out", "watched", "listed", "up"}
    BY <1>1, <2>1 DEF ServerInv, IInv, IndexTypes
  <2>7. gone[s] \in {"no", "unlisted", "informing", "closed"} /\ (gone[s] # "no" => at[s] = "up")
    BY <1>1, <2>1 DEF ServerInv, SentTypes, WatchInv, GoneForGood
  <2> QED BY <1>1, <2>2, <2>3, <2>4, <2>5, <2>6, <2>7 DEF CanBeRemoved
<1>2. ServerInv => DeadNeverStuck
  BY <1>1 DEF DeadNeverStuck
<1> QED BY <1>2, RemovalInvariant, PTL

(* A client that resigns while its timer fires is removed once, by one of  *)
(* the two: resign never starts twice, never closes the channel twice, and *)
(* nothing lists the service again.                                        *)
THEOREM ResignedOnce == ~Stall => (Spec => ResignsOnce)
<1> SUFFICES ASSUME ~Stall PROVE Spec => ResignsOnce
  OBVIOUS
<1>1. ServerInv /\ [Next]_vars => [\A s \in Services : ResignOf(s)]_vars
  BY StepRemoves
<1> QED BY <1>1, RemovalInvariant, PTL DEF Spec, ResignsOnce
=============================================================================
