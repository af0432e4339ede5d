--------------------------- MODULE GebCacheProofs ---------------------------
(* Proofs about GebCache, for every set of clients, nodes and keys and every *)
(* ring: a node has at most one load of a key at work, its cache is sound    *)
(* and keeps what it is given, errors come from the local Getter, and no Get *)
(* of a routed key is ever stuck, whatever deadlocks other keys have.  Then  *)
(* about RingPicker, for every hash function and any numbers of peers and    *)
(* replicas: Pick finds the clockwise successor, adding a peer moves keys to *)
(* it alone, and processes with the same peers agree if no points collide.   *)
EXTENDS GebCache, RingPicker, FiniteSetTheorems, WellFoundedInduction, TLAPS

\* The part of the state the argument is about, and its type: a goroutine that
\* is not idle has a Get.
ControlOK ==
  /\ pc \in [Procs -> PCs]
  /\ want \in [Procs -> Calls \cup {None}]
  /\ flight \in [Calls -> Procs \cup {None}]
  /\ \A p \in Procs : pc[p] # "idle" => want[p] \in Calls

IInv == ControlOK /\ LeaderIsRegistered

\* A handler that is started is given a Get: rings name nodes, and a handler
\* only runs on one that has the group.
LEMMA ForwardedGet ==
  ASSUME NEW w \in Calls
  PROVE  /\ w[1] \in Nodes /\ w[2] \in Keys
         /\ Ring[w[1]][w[2]] \in Grouped => <<Ring[w[1]][w[2]], w[2]>> \in Calls
<1>1. w[1] \in Nodes /\ w[2] \in Keys BY NodeSets DEF Calls
<1>2. Ring[w[1]][w[2]] \in Nodes BY <1>1, RingType
<1> QED BY <1>1, <1>2 DEF Calls

\* Init and the steps keep the types and the registration of leaders.
THEOREM Invariant == Spec => []IInv
<1>1. Init => IInv
  BY DEF Init, IInv, ControlOK, LeaderIsRegistered, Leading, Loading, PCs
<1>2. IInv /\ [Next]_vars => IInv'
  <2> SUFFICES ASSUME IInv, [Next]_vars PROVE IInv' OBVIOUS
  <2> USE DEF IInv, ControlOK, LeaderIsRegistered, Leading, Loading, PCs
  <2>0. Calls \subseteq Procs /\ Clients \subseteq Procs BY DEF Procs
  <2>1. ASSUME NEW p \in Clients, NEW n \in Nodes, NEW k \in Keys, Begin(p, n, k)
        PROVE IInv'
    <3>1. <<n, k>> \in Calls BY <2>1 DEF Begin, Calls
    <3> QED BY <2>0, <2>1, <3>1 DEF Begin, Goto
  <2>2. ASSUME NEW p \in Procs, Hit(p) PROVE IInv'
    BY <2>2 DEF Hit, Goto
  <2>3. ASSUME NEW p \in Procs, Miss(p) PROVE IInv'
    BY <2>3 DEF Miss, Goto
  <2>4. ASSUME NEW p \in Procs, Lead(p) PROVE IInv'
    <3>1. /\ pc[p] = "entering" /\ flight[want[p]] = None /\ want' = want
          /\ pc' = [pc EXCEPT ![p] = "loading"]
          /\ flight' = [flight EXCEPT ![want[p]] = p]
      BY <2>4 DEF Lead, LeadIf, Goto
    <3>2. None \notin Procs BY Distinct
    <3>3. ControlOK' BY <3>1
    <3>4. ASSUME NEW q \in Procs, pc'[q] \in Leading
          PROVE want'[q] \in Calls /\ flight'[want'[q]] = q
      <4>1. CASE q = p BY <3>1, <4>1
      <4>2. CASE q # p
        <5>1. want[q] \in Calls /\ flight[want[q]] = q BY <3>1, <3>4, <4>2
        <5>2. want[q] # want[p] BY <3>1, <3>2, <5>1
        <5> QED BY <3>1, <5>1, <5>2
      <4> QED BY <4>1, <4>2
    <3> QED BY <3>3, <3>4
  <2>5. ASSUME NEW p \in Procs, Join(p) PROVE IInv'
    <3>1. pc' = [pc EXCEPT ![p] = "returning"] \/ pc' = [pc EXCEPT ![p] = "waiting"]
      BY <2>5 DEF Join, Goto
    <3>2. pc[p] = "entering" /\ want' = want /\ flight' = flight
      BY <2>5 DEF Join
    <3> QED BY <3>1, <3>2
  <2>6. ASSUME NEW p \in Procs, LoadHere(p) PROVE IInv'
    BY <2>6 DEF LoadHere, Goto
  <2>7. ASSUME NEW p \in Procs, Forward(p) PROVE IInv'
    <3>1. want[p] \in Calls BY <2>7 DEF Forward
    <3>2. <<OwnerOf(p), KeyOf(p)>> \in Calls
      BY <2>7, <3>1, ForwardedGet DEF Forward, OwnerOf, NodeOf, KeyOf
    <3>3. want[p] \in Procs /\ want[p] # p BY <2>0, <2>7, <3>1 DEF Forward
    <3>4. /\ pc[p] = "loading" /\ pc[want[p]] = "idle" /\ flight' = flight
          /\ pc' = [pc EXCEPT ![p] = "asking", ![want[p]] = "looking"]
      BY <2>7 DEF Forward
    <3>5. want' = [want EXCEPT ![want[p]] = <<OwnerOf(p), KeyOf(p)>>]
      BY <2>7 DEF Forward
    <3> HIDE DEF OwnerOf, KeyOf
    <3> QED BY <3>1, <3>2, <3>3, <3>4, <3>5
  <2>8. ASSUME NEW p \in Procs, TransportFails(p) PROVE IInv'
    <3>1. CASE pc[p] = "loading" /\ Goto(p, "panicked") /\ UNCHANGED want
      BY <2>8, <3>1 DEF TransportFails, Goto
    <3>2. CASE /\ pc[p] = "asking" /\ pc[want[p]] = "panicked"
               /\ FreeHandler(p, want[p], "panicked")
      <4>1. want[p] \in Procs /\ want[p] # p BY <2>0, <3>2
      <4> QED BY <2>8, <3>2, <4>1 DEF TransportFails, FreeHandler
    <3> QED BY <2>8, <3>1, <3>2 DEF TransportFails
  <2>9. ASSUME NEW p \in Procs, TakeReply(p) PROVE IInv'
    <3>1. pc[p] = "asking" /\ pc[want[p]] = "returning" /\ flight' = flight
      BY <2>9 DEF TakeReply, TakeReplyIf
    <3>2. want[p] \in Procs /\ want[p] # p BY <2>0, <3>1
    <3>3. FreeHandler(p, want[p], "sourcing") \/ FreeHandler(p, want[p], "done")
      BY <2>9 DEF TakeReply, TakeReplyIf
    <3> QED BY <3>1, <3>2, <3>3 DEF FreeHandler
  <2>10. ASSUME NEW p \in Procs, Source(p) PROVE IInv'
    <3>1. pc' = [pc EXCEPT ![p] = "done"] \/ pc' = [pc EXCEPT ![p] = "storing"]
      BY <2>10 DEF Source, Goto
    <3>2. pc[p] = "sourcing" /\ want' = want /\ flight' = flight
      BY <2>10 DEF Source
    <3> QED BY <3>1, <3>2
  <2>11. ASSUME NEW p \in Procs, Store(p) PROVE IInv'
    <3>1. /\ pc[p] = "storing" /\ pc' = [pc EXCEPT ![p] = "done"]
          /\ want' = want /\ flight' = flight
      BY <2>11 DEF Store, Goto
    <3> QED BY <3>1
  <2>12. ASSUME NEW p \in Procs, Done(p) PROVE IInv'
    <3>1. /\ pc' = [q \in Procs |-> IF q = p THEN "forget"
                      ELSE IF q \in Waiters(p) THEN "returning" ELSE pc[q]]
          /\ pc[p] = "done" /\ want' = want /\ flight' = flight
      BY <2>12 DEF Done, Wake
    <3>2. \A q \in Waiters(p) : pc[q] = "waiting" BY DEF Waiters
    <3> QED BY <3>1, <3>2
  <2>13. ASSUME NEW p \in Procs, Forget(p) PROVE IInv'
    BY <2>13 DEF Forget, Goto
  <2>14. ASSUME NEW p \in Clients, Return(p) PROVE IInv'
    BY <2>0, <2>14 DEF Return, Goto
  <2>15. ASSUME UNCHANGED vars PROVE IInv'
    BY <2>15 DEF vars
  <2> QED BY <2>1, <2>2, <2>3, <2>4, <2>5, <2>6, <2>7, <2>8, <2>9, <2>10,
             <2>11, <2>12, <2>13, <2>14, <2>15 DEF Next, Step
<1> QED BY <1>1, <1>2, PTL DEF Spec

\* The table of calls names the goroutine that leads, for every ring.
THEOREM LeadersAreRegistered == Spec => []LeaderIsRegistered
<1>1. IInv => LeaderIsRegistered BY DEF IInv
<1> QED BY <1>1, Invariant, PTL

\* Two goroutines that load the same key on the same node are one: both would
\* be the call's registered leader.
THEOREM LoadsAreSingle == Spec => []OneLoadPerKey
<1>1. IInv => OneLoadPerKey
  BY DEF IInv, LeaderIsRegistered, OneLoadPerKey, Leading
<1> QED BY <1>1, Invariant, PTL

-----------------------------------------------------------------------------
(* Induction over the numbers, in the form the provers can use.            *)

\* Every non-empty set of numbers has a least element.
LEMMA LeastNumber ==
  ASSUME NEW T, T \subseteq Nat, T # {}
  PROVE  \E x \in T : \A y \in T : x <= y
<1>1. PICK x \in T : \A y \in T : ~(<<y, x>> \in OpToRel(<, Nat))
  BY NatLessThanWellFounded, WFMin
<1>2. \A y \in T : ~(y < x)
  BY <1>1 DEF OpToRel
<1> QED BY <1>2

\* A set that holds 0, and with a number the next one, holds them all.
LEMMA AllNumbers ==
  ASSUME NEW S, 0 \in S, \A n \in Nat : n \in S => n + 1 \in S
  PROVE  \A n \in Nat : n \in S
<1> SUFFICES ASSUME NEW m \in Nat, m \notin S PROVE FALSE
  OBVIOUS
<1> DEFINE T == Nat \ S
<1>1. PICK x \in T : \A y \in T : x <= y
  <2>1. T \subseteq Nat /\ T # {} OBVIOUS
  <2> HIDE DEF T
  <2> QED BY <2>1, LeastNumber
<1>2. x # 0 /\ x - 1 \in Nat BY <1>1
<1>3. x - 1 \in S BY <1>1, <1>2
<1> QED BY <1>1, <1>2, <1>3

-----------------------------------------------------------------------------
(* The sizes of lists.                                                     *)

Entries == [key : Keys, len : Nat]

\* s[i] is the size of the first i entries.
Sums(ll, s) ==
  /\ s \in [0..Len(ll) -> Int] /\ s[0] = 0
  /\ \A i \in 1..Len(ll) : s[i] = s[i-1] + Size(ll[i])

LEMMA SizesAreNumbers == \A e \in Entries : Size(e) \in Nat
  BY Sizes DEF Entries, Size

LEMMA SumsExist ==
  ASSUME NEW ll \in Seq(Entries)
  PROVE  \E s : Sums(ll, s)
<1> DEFINE Upto(n, s) == /\ s \in [0..n -> Int] /\ s[0] = 0
                         /\ \A i \in 1..n : s[i] = s[i-1] + Size(ll[i])
           S == {n \in Nat : n <= Len(ll) => \E s : Upto(n, s)}
<1>1. 0 \in S
  <2>1. Upto(0, [i \in 0..0 |-> 0]) OBVIOUS
  <2> HIDE DEF Upto
  <2> QED BY <2>1
<1>2. ASSUME NEW n \in Nat, n \in S PROVE n + 1 \in S
  <2>1. ASSUME n + 1 <= Len(ll) PROVE \E s : Upto(n + 1, s)
    <3>0. \E s : Upto(n, s)
      <4> HIDE DEF Upto
      <4> QED BY <1>2, <2>1
    <3>1. PICK s : Upto(n, s) BY <3>0
    <3>2. Size(ll[n + 1]) \in Nat BY <2>1, SizesAreNumbers
    <3> DEFINE t == [i \in 0..(n + 1) |-> IF i = n + 1 THEN s[n] + Size(ll[n + 1]) ELSE s[i]]
    <3>3. t \in [0..(n + 1) -> Int] /\ t[0] = 0 BY <3>1, <3>2
    <3>4. \A i \in 1..(n + 1) : t[i] = t[i-1] + Size(ll[i]) BY <3>1
    <3>5. Upto(n + 1, t) BY <3>3, <3>4
    <3> HIDE DEF Upto
    <3> QED BY <3>5
  <2> HIDE DEF Upto
  <2> QED BY <2>1
<1>3. Len(ll) \in S
  <2> HIDE DEF S
  <2> QED BY <1>1, <1>2, AllNumbers
<1> QED BY <1>3 DEF Sums

\* The recursion over a list computes the last of its sums.
LEMMA SizeIsSum ==
  ASSUME NEW ll \in Seq(Entries), NEW s, Sums(ll, s)
  PROVE  SizeOfAll(ll) = s[Len(ll)] /\ s[Len(ll)] \in Int
<1> DEFINE upTo[i \in 0..Len(ll)] == IF i = 0 THEN 0 ELSE upTo[i-1] + Size(ll[i])
           IsUpTo(t) == t = [i \in 0..Len(ll) |-> IF i = 0 THEN 0 ELSE t[i-1] + Size(ll[i])]
<1>1. SizeOfAll(ll) = upTo[Len(ll)] BY DEF SizeOfAll
<1>2. upTo = CHOOSE t : IsUpTo(t) OBVIOUS
<1>3. Len(ll) \in Nat OBVIOUS
<1>4. IsUpTo(s) BY <1>3 DEF Sums
<1>5. ASSUME NEW t, IsUpTo(t) PROVE t = s
  <2> DEFINE S == {n \in Nat : n <= Len(ll) => t[n] = s[n]}
  <2>1. 0 \in S BY <1>3, <1>5 DEF Sums
  <2>2. ASSUME NEW n \in Nat, n \in S PROVE n + 1 \in S
    <3> SUFFICES ASSUME n + 1 <= Len(ll) PROVE t[n + 1] = s[n + 1]
      OBVIOUS
    <3>1. t[n] = s[n] /\ n + 1 \in 1..Len(ll) /\ n + 1 - 1 = n BY <1>3, <2>2
    <3>2. s[n + 1] = s[n] + Size(ll[n + 1]) BY <3>1 DEF Sums
    <3>3. t[n + 1] = t[n] + Size(ll[n + 1]) BY <1>5, <3>1
    <3> QED BY <3>1, <3>2, <3>3
  <2>3. \A n \in Nat : n \in S
    <3> HIDE DEF S
    <3> QED BY <2>1, <2>2, AllNumbers
  <2>4. \A n \in 0..Len(ll) : t[n] = s[n] BY <1>3, <2>3
  <2> QED BY <1>5, <2>4 DEF Sums
<1> HIDE DEF upTo, IsUpTo
<1>6. upTo = s BY <1>2, <1>4, <1>5
<1> QED BY <1>1, <1>3, <1>6 DEF Sums

LEMMA SizeIsNumber ==
  ASSUME NEW ll \in Seq(Entries)
  PROVE  SizeOfAll(ll) \in Int
BY SumsExist, SizeIsSum

LEMMA SizeOfNone == SizeOfAll(<<>>) = 0
<1>1. <<>> \in Seq(Entries) /\ Len(<<>>) = 0 OBVIOUS
<1>2. PICK s : Sums(<<>>, s) BY <1>1, SumsExist
<1> QED BY <1>1, <1>2, SizeIsSum DEF Sums

\* A new front.
LEMMA SizeOfPush ==
  ASSUME NEW ll \in Seq(Entries), NEW e \in Entries
  PROVE  SizeOfAll(<<e>> \o ll) = Size(e) + SizeOfAll(ll)
<1> DEFINE m == <<e>> \o ll
<1>1. PICK s : Sums(ll, s) BY SumsExist
<1>2. /\ m \in Seq(Entries) /\ Len(m) = Len(ll) + 1 /\ Len(ll) \in Nat /\ m[1] = e
      /\ \A i \in 2..Len(m) : m[i] = ll[i - 1]
  OBVIOUS
<1> DEFINE t == [i \in 0..Len(m) |-> IF i = 0 THEN 0 ELSE Size(e) + s[i - 1]]
<1>3. Size(e) \in Nat BY SizesAreNumbers
<1> HIDE DEF m
<1>4. Sums(m, t)
  <2>1. t \in [0..Len(m) -> Int] /\ t[0] = 0 BY <1>1, <1>2, <1>3 DEF Sums
  <2>2. ASSUME NEW i \in 1..Len(m) PROVE t[i] = t[i-1] + Size(m[i])
    <3>1. CASE i = 1 BY <1>1, <1>2, <1>3, <3>1 DEF Sums
    <3>2. CASE i # 1
      <4>1. i - 1 \in 1..Len(ll) /\ m[i] = ll[i - 1] BY <1>2, <3>2
      <4>2. s[i - 1] = s[(i - 1) - 1] + Size(ll[i - 1]) BY <1>1, <4>1 DEF Sums
      <4>3. (i - 1) - 1 = i - 2 /\ i - 2 \in 0..Len(ll) BY <4>1
      <4>4. s[i - 2] \in Int BY <1>1, <4>3 DEF Sums
      <4>5. Size(ll[i - 1]) \in Nat BY <4>1, SizesAreNumbers
      <4>6. t[i] = Size(e) + s[i - 1] /\ t[i - 1] = Size(e) + s[i - 2] BY <1>2, <3>2, <4>1
      <4> QED BY <1>3, <4>1, <4>2, <4>3, <4>4, <4>5, <4>6
    <3> QED BY <3>1, <3>2
  <2> HIDE DEF t
  <2> QED BY <2>1, <2>2 DEF Sums
<1>5. t[Len(m)] = Size(e) + s[Len(ll)] BY <1>2
<1> HIDE DEF t
<1>6. SizeOfAll(m) = t[Len(m)] BY <1>2, <1>4, SizeIsSum
<1>7. SizeOfAll(ll) = s[Len(ll)] BY <1>1, SizeIsSum
<1> QED BY <1>5, <1>6, <1>7 DEF m

\* The list without one of its elements.
LEMMA RemovedAt ==
  ASSUME NEW ll \in Seq(Entries), NEW i \in 1..Len(ll)
  PROVE  /\ RemoveAt(ll, i) \in Seq(Entries) /\ Len(RemoveAt(ll, i)) = Len(ll) - 1
         /\ \A j \in 1..Len(ll) - 1 :
               RemoveAt(ll, i)[j] = IF j < i THEN ll[j] ELSE ll[j + 1]
<1> DEFINE a == SubSeq(ll, 1, i - 1)
           b == SubSeq(ll, i + 1, Len(ll))
<1>1. /\ a \in Seq(Entries) /\ Len(a) = i - 1 /\ \A j \in 1..i - 1 : a[j] = ll[j]
      /\ b \in Seq(Entries) /\ Len(b) = Len(ll) - i /\ \A j \in 1..Len(ll) - i : b[j] = ll[i + j]
      /\ Len(ll) \in Nat
  OBVIOUS
<1>2. RemoveAt(ll, i) = a \o b BY DEF RemoveAt
<1> HIDE DEF a, b
<1>3. a \o b \in Seq(Entries) /\ Len(a \o b) = Len(ll) - 1
  <2>1. a \in Seq(Entries) /\ b \in Seq(Entries) BY <1>1
  <2>2. a \o b \in Seq(Entries) /\ Len(a \o b) = Len(a) + Len(b) BY <2>1
  <2> QED BY <1>1, <2>2
<1>4. ASSUME NEW j \in 1..Len(ll) - 1
      PROVE  (a \o b)[j] = IF j < i THEN ll[j] ELSE ll[j + 1]
  <2>1. CASE j < i
    <3>1. (a \o b)[j] = a[j] BY <1>1, <2>1
    <3> QED BY <1>1, <2>1, <3>1
  <2>2. CASE ~(j < i)
    <3>1. (a \o b)[j] = b[j - (i - 1)] BY <1>1, <2>2
    <3>2. j - (i - 1) \in 1..Len(ll) - i /\ i + (j - (i - 1)) = j + 1 BY <1>1, <2>2
    <3>3. b[j - (i - 1)] = ll[i + (j - (i - 1))] BY <1>1, <3>2
    <3> QED BY <2>2, <3>1, <3>2, <3>3
  <2> QED BY <2>1, <2>2
<1> QED BY <1>2, <1>3, <1>4

LEMMA SizeOfRemoved ==
  ASSUME NEW ll \in Seq(Entries), NEW i \in 1..Len(ll)
  PROVE  SizeOfAll(RemoveAt(ll, i)) = SizeOfAll(ll) - Size(ll[i])
<1> DEFINE m == RemoveAt(ll, i)
<1>1. PICK s : Sums(ll, s) BY SumsExist
<1>2. /\ m \in Seq(Entries) /\ Len(m) = Len(ll) - 1 /\ Len(ll) \in Nat
      /\ \A j \in 1..Len(ll) - 1 : m[j] = IF j < i THEN ll[j] ELSE ll[j + 1]
  <2>1. Len(ll) \in Nat OBVIOUS
  <2> QED BY <2>1, RemovedAt
<1>3. \A j \in 1..Len(ll) : ll[j] \in Entries /\ Size(ll[j]) \in Nat BY SizesAreNumbers
<1> DEFINE t == [j \in 0..Len(m) |-> IF j < i THEN s[j] ELSE s[j + 1] - Size(ll[i])]
<1> HIDE DEF m
<1>4. Sums(m, t)
  <2>1. t \in [0..Len(m) -> Int] /\ t[0] = 0
    <3>1. s \in [0..Len(ll) -> Int] /\ s[0] = 0 BY <1>1 DEF Sums
    <3>2. ASSUME NEW j \in 0..Len(m) PROVE t[j] \in Int
      <4>1. i \in 1..Len(ll) /\ j \in 0..Len(ll) /\ j + 1 \in 0..Len(ll) BY <1>2
      <4>2. t[j] = IF j < i THEN s[j] ELSE s[j + 1] - Size(ll[i]) OBVIOUS
      <4>3. s[j] \in Int /\ s[j + 1] \in Int BY <3>1, <4>1
      <4>4. Size(ll[i]) \in Int BY <1>3, <4>1
      <4> HIDE DEF t
      <4>5. s[j + 1] - Size(ll[i]) \in Int BY <4>3, <4>4
      <4> QED BY <4>2, <4>3, <4>5
    <3>3. t[0] = 0 BY <1>2, <3>1
    <3> QED BY <3>2, <3>3
  <2>2. ASSUME NEW j \in 1..Len(m) PROVE t[j] = t[j-1] + Size(m[j])
    <3>1. /\ s[j] = s[j-1] + Size(ll[j]) /\ s[j + 1] = s[j] + Size(ll[j + 1])
          /\ s[j - 1] \in Int /\ s[j] \in Int /\ s[j + 1] \in Int
          /\ Size(ll[j]) \in Nat /\ Size(ll[j + 1]) \in Nat /\ Size(ll[i]) \in Nat
      <4>1. j \in 1..Len(ll) /\ j + 1 \in 1..Len(ll) /\ j + 1 - 1 = j BY <1>2
      <4>2. s[j] = s[j-1] + Size(ll[j]) /\ s[j + 1] = s[j] + Size(ll[j + 1])
        BY <1>1, <4>1 DEF Sums
      <4>3. s[j - 1] \in Int /\ s[j] \in Int /\ s[j + 1] \in Int
        <5>1. j - 1 \in 0..Len(ll) /\ j \in 0..Len(ll) /\ j + 1 \in 0..Len(ll) BY <1>2
        <5> QED BY <1>1, <5>1 DEF Sums
      <4> QED BY <1>3, <4>1, <4>2, <4>3
    <3>2. t[j] = (IF j < i THEN s[j] ELSE s[j + 1] - Size(ll[i]))
          /\ t[j - 1] = (IF j - 1 < i THEN s[j - 1] ELSE s[j] - Size(ll[i]))
      BY <1>2
    <3>3. i \in Int /\ j \in Int /\ m[j] = IF j < i THEN ll[j] ELSE ll[j + 1] BY <1>2
    <3> HIDE DEF t
    <3>4. CASE j < i
      <4>1. j - 1 < i BY <3>3, <3>4
      <4>2. t[j] = s[j] /\ t[j - 1] = s[j - 1] /\ m[j] = ll[j] BY <3>2, <3>3, <3>4, <4>1
      <4> QED BY <3>1, <4>2
    <3>5. CASE j = i
      <4>1. ~(j < i) /\ j - 1 < i BY <3>3, <3>5
      <4>2. /\ t[j] = s[j + 1] - Size(ll[j]) /\ t[j - 1] = s[j - 1]
            /\ m[j] = ll[j + 1]
        BY <3>2, <3>3, <3>5, <4>1
      <4>3. s[j + 1] - Size(ll[j]) = s[j - 1] + Size(ll[j + 1])
        <5> DEFINE p == s[j - 1]
                   q == s[j]
                   u == s[j + 1]
                   x == Size(ll[j])
                   y == Size(ll[j + 1])
        <5>1. p \in Int /\ q \in Int /\ u \in Int /\ x \in Int /\ y \in Int
          BY <3>1
        <5>2. q = p + x /\ u = q + y BY <3>1
        <5> HIDE DEF p, q, u, x, y
        <5>3. u - x = p + y BY <5>1, <5>2
        <5> QED BY <5>3 DEF p, u, x, y
      <4> QED BY <4>2, <4>3
    <3>6. CASE j > i
      <4>1. ~(j < i) /\ ~(j - 1 < i) BY <3>3, <3>6
      <4>2. /\ t[j] = s[j + 1] - Size(ll[i]) /\ t[j - 1] = s[j] - Size(ll[i])
            /\ m[j] = ll[j + 1]
        BY <3>2, <3>3, <4>1
      <4> QED BY <3>1, <4>2
    <3> QED BY <3>3, <3>4, <3>5, <3>6
  <2> HIDE DEF t
  <2> QED BY <2>1, <2>2 DEF Sums
<1>5. t[Len(m)] = s[Len(ll)] - Size(ll[i])
  <2>1. CASE i = Len(ll)
    <3>1. s[i] = s[i - 1] + Size(ll[i]) /\ s[i - 1] \in Int /\ Size(ll[i]) \in Nat
      <4>1. i - 1 \in 0..Len(ll) BY <1>2
      <4> QED BY <1>1, <1>3, <4>1 DEF Sums
    <3> QED BY <1>2, <2>1, <3>1
  <2>2. CASE i # Len(ll) BY <1>2, <2>2
  <2> QED BY <2>1, <2>2
<1> HIDE DEF t
<1>6. SizeOfAll(m) = t[Len(m)] BY <1>2, <1>4, SizeIsSum
<1>7. SizeOfAll(ll) = s[Len(ll)] BY <1>1, SizeIsSum
<1> QED BY <1>5, <1>6, <1>7 DEF m

\* A list in two parts.
LEMMA TwoParts ==
  ASSUME NEW ll \in Seq(Entries), NEW m \in 0..Len(ll)
  PROVE  LET a == SubSeq(ll, 1, m)
             b == SubSeq(ll, m + 1, Len(ll))
         IN  /\ a \in Seq(Entries) /\ Len(a) = m /\ \A j \in 1..m : a[j] = ll[j]
             /\ b \in Seq(Entries) /\ Len(b) = Len(ll) - m
             /\ \A j \in 1..Len(ll) - m : b[j] = ll[m + j]
             /\ Len(ll) \in Nat
OBVIOUS

LEMMA SizeOfParts ==
  ASSUME NEW ll \in Seq(Entries), NEW m \in 0..Len(ll)
  PROVE  SizeOfAll(SubSeq(ll, 1, m))
           = SizeOfAll(ll) - SizeOfAll(SubSeq(ll, m + 1, Len(ll)))
<1> DEFINE a == SubSeq(ll, 1, m)
           b == SubSeq(ll, m + 1, Len(ll))
<1>1. PICK s : Sums(ll, s) BY SumsExist
<1>2. /\ a \in Seq(Entries) /\ Len(a) = m /\ \A j \in 1..m : a[j] = ll[j]
      /\ b \in Seq(Entries) /\ Len(b) = Len(ll) - m /\ \A j \in 1..Len(ll) - m : b[j] = ll[m + j]
      /\ Len(ll) \in Nat
  BY TwoParts
<1>3. \A j \in 1..Len(ll) : ll[j] \in Entries /\ Size(ll[j]) \in Nat BY SizesAreNumbers
<1> DEFINE t == [j \in 0..m |-> s[j]]
           u == [j \in 0..Len(ll) - m |-> s[m + j] - s[m]]
<1> HIDE DEF a, b
<1>4. Sums(a, t)
  <2>1. t \in [0..Len(a) -> Int] /\ t[0] = 0
    <3>1. \A j \in 0..m : j \in 0..Len(ll) BY <1>2
    <3>2. \A j \in 0..m : s[j] \in Int BY <1>1, <3>1 DEF Sums
    <3>3. s[0] = 0 /\ 0 \in 0..m BY <1>1 DEF Sums
    <3> QED BY <1>2, <3>2, <3>3
  <2>2. ASSUME NEW j \in 1..Len(a) PROVE t[j] = t[j - 1] + Size(a[j])
    <3>1. j \in 1..Len(ll) /\ t[j] = s[j] /\ t[j - 1] = s[j - 1] /\ a[j] = ll[j] BY <1>2
    <3> QED BY <1>1, <3>1 DEF Sums
  <2> HIDE DEF t
  <2> QED BY <2>1, <2>2 DEF Sums
<1>5. Sums(b, u)
  <2>1. u \in [0..Len(b) -> Int] /\ u[0] = 0
    <3>1. \A j \in 0..Len(ll) - m : m + j \in 0..Len(ll) BY <1>2
    <3>2. m \in 0..Len(ll) /\ 0 \in 0..Len(ll) - m BY <1>2
    <3>3. \A j \in 0..Len(ll) : s[j] \in Int BY <1>1 DEF Sums
    <3>4. \A j \in 0..Len(ll) - m : s[m + j] - s[m] \in Int BY <3>1, <3>2, <3>3
    <3>5. s[m + 0] - s[m] = 0 BY <3>2, <3>3
    <3> QED BY <1>2, <3>2, <3>4, <3>5
  <2>2. ASSUME NEW j \in 1..Len(b) PROVE u[j] = u[j - 1] + Size(b[j])
    <3>1. m + j \in 1..Len(ll) /\ m + j - 1 \in 0..Len(ll) /\ b[j] = ll[m + j] BY <1>2
    <3>2. s[m + j] = s[m + j - 1] + Size(ll[m + j]) /\ s[m + j - 1] \in Int /\ s[m] \in Int
      BY <1>1, <3>1 DEF Sums
    <3>3. u[j] = s[m + j] - s[m] /\ u[j - 1] = s[m + j - 1] - s[m] BY <1>2
    <3> QED BY <1>3, <3>1, <3>2, <3>3
  <2> HIDE DEF u
  <2> QED BY <2>1, <2>2 DEF Sums
<1>6. t[Len(a)] = s[m] /\ u[Len(b)] = s[Len(ll)] - s[m] BY <1>2
<1> HIDE DEF t, u
<1>7. SizeOfAll(a) = s[m] BY <1>2, <1>4, <1>6, SizeIsSum
<1>8. SizeOfAll(b) = s[Len(ll)] - s[m] BY <1>2, <1>5, <1>6, SizeIsSum
<1>9. SizeOfAll(ll) = s[Len(ll)] /\ s[Len(ll)] \in Int /\ s[m] \in Int
  BY <1>1, SizeIsSum DEF Sums
<1> QED BY <1>7, <1>8, <1>9 DEF a, b

-----------------------------------------------------------------------------
(* The operations of lru.Cache, on a list, a map and a count that agree.   *)

Caches == [ll : Seq(Entries), table : SUBSET Keys, nbytes : Int]

KeysOf(ll) == {ll[i].key : i \in DOMAIN ll}
OnceEach(ll) == \A i, j \in DOMAIN ll : ll[i].key = ll[j].key => i = j

Agrees(c) ==
  /\ c \in Caches
  /\ c.table = KeysOf(c.ll) /\ OnceEach(c.ll) /\ c.nbytes = SizeOfAll(c.ll)

\* The map leads to the entry of its key.
LEMMA PlaceOfKey ==
  ASSUME NEW c, Agrees(c), NEW k \in c.table
  PROVE  /\ PlaceOf(c, k) \in 1..Len(c.ll) /\ EntryOf(c, k) \in Entries
         /\ EntryOf(c, k).key = k
<1>1. c.ll \in Seq(Entries) /\ DOMAIN c.ll = 1..Len(c.ll) BY DEF Agrees, Caches
<1>2. \E i \in DOMAIN c.ll : c.ll[i].key = k BY DEF Agrees, KeysOf
<1>3. PlaceOf(c, k) \in DOMAIN c.ll /\ c.ll[PlaceOf(c, k)].key = k BY <1>2 DEF PlaceOf
<1> QED BY <1>1, <1>3 DEF EntryOf

\* The list without a key's entry has the other keys, once each.
LEMMA WithoutKey ==
  ASSUME NEW c, Agrees(c), NEW k \in c.table
  PROVE  /\ Without(c, k) \in Seq(Entries) /\ OnceEach(Without(c, k))
         /\ KeysOf(Without(c, k)) = c.table \ {k}
         /\ SizeOfAll(Without(c, k)) = c.nbytes - Size(EntryOf(c, k))
<1> DEFINE ll == c.ll
           i == PlaceOf(c, k)
           w == RemoveAt(ll, i)
<1>1. /\ ll \in Seq(Entries) /\ DOMAIN ll = 1..Len(ll) /\ Len(ll) \in Nat
      /\ i \in 1..Len(ll) /\ ll[i].key = k /\ OnceEach(ll) /\ c.table = KeysOf(ll)
      /\ c.nbytes = SizeOfAll(ll)
  BY PlaceOfKey DEF Agrees, Caches, EntryOf
<1>2. /\ w \in Seq(Entries) /\ Len(w) = Len(ll) - 1
      /\ \A j \in 1..Len(ll) - 1 : w[j] = IF j < i THEN ll[j] ELSE ll[j + 1]
  <2> HIDE DEF ll, i
  <2> QED BY <1>1, RemovedAt
<1>3. SizeOfAll(w) = SizeOfAll(ll) - Size(ll[i])
  <2> HIDE DEF ll, i
  <2> QED BY <1>1, SizeOfRemoved
<1>4. Without(c, k) = w /\ EntryOf(c, k) = ll[i] BY DEF Without, EntryOf
<1> HIDE DEF ll, i, w
<1>5. DOMAIN w = 1..Len(ll) - 1 BY <1>1, <1>2
<1> DEFINE old(j) == IF j < i THEN j ELSE j + 1
<1>6. \A j \in DOMAIN w : old(j) \in DOMAIN ll /\ old(j) # i /\ w[j] = ll[old(j)]
  BY <1>1, <1>2, <1>5
<1>7. \A j1, j2 \in DOMAIN w : old(j1) = old(j2) => j1 = j2 BY <1>1, <1>5
<1>8. \A j \in DOMAIN ll : j # i => \E n \in DOMAIN w : old(n) = j
  <2> TAKE j \in DOMAIN ll
  <2> HAVE j # i
  <2>1. CASE j < i
    <3>1. j \in DOMAIN w /\ old(j) = j BY <1>1, <1>5, <2>1
    <3> QED BY <3>1
  <2>2. CASE ~(j < i)
    <3>1. j - 1 \in DOMAIN w /\ old(j - 1) = j BY <1>1, <1>5, <2>2
    <3> QED BY <3>1
  <2> QED BY <2>1, <2>2
<1> HIDE DEF old
<1>9. OnceEach(w) BY <1>1, <1>6, <1>7 DEF OnceEach
<1>10. KeysOf(w) = KeysOf(ll) \ {k}
  <2>1. ASSUME NEW x \in KeysOf(w) PROVE x \in KeysOf(ll) /\ x # k
    BY <1>1, <1>6, <2>1 DEF KeysOf, OnceEach
  <2>2. ASSUME NEW x \in KeysOf(ll), x # k PROVE x \in KeysOf(w)
    <3>1. PICK j \in DOMAIN ll : x = ll[j].key BY DEF KeysOf
    <3>2. j # i BY <1>1, <2>2, <3>1
    <3>3. PICK n \in DOMAIN w : old(n) = j BY <1>8, <3>2
    <3> QED BY <1>6, <3>1, <3>3 DEF KeysOf
  <2> QED BY <2>1, <2>2
<1> QED BY <1>1, <1>2, <1>3, <1>4, <1>9, <1>10

\* A new front whose key the list does not have.
LEMMA NewFront ==
  ASSUME NEW w \in Seq(Entries), OnceEach(w), NEW e \in Entries, e.key \notin KeysOf(w)
  PROVE  /\ <<e>> \o w \in Seq(Entries) /\ OnceEach(<<e>> \o w)
         /\ KeysOf(<<e>> \o w) = KeysOf(w) \cup {e.key}
         /\ Len(<<e>> \o w) >= 1 /\ (<<e>> \o w)[1] = e
<1> DEFINE m == <<e>> \o w
<1>1. /\ m \in Seq(Entries) /\ Len(m) = Len(w) + 1 /\ Len(w) \in Nat /\ m[1] = e
      /\ \A i \in 2..Len(m) : m[i] = w[i - 1]
  OBVIOUS
<1>2. DOMAIN m = 1..Len(w) + 1 /\ DOMAIN w = 1..Len(w) BY <1>1
<1> HIDE DEF m
<1>3. \A i \in DOMAIN m : i # 1 => i - 1 \in DOMAIN w /\ m[i] = w[i - 1] BY <1>1, <1>2
<1>4. \A i \in DOMAIN w : i + 1 \in DOMAIN m /\ m[i + 1] = w[i] BY <1>1, <1>2
<1>5. ASSUME NEW i \in DOMAIN m, i # 1 PROVE m[i].key # e.key
  BY <1>3, <1>5 DEF KeysOf
<1>6. OnceEach(m)
  <2> SUFFICES ASSUME NEW i \in DOMAIN m, NEW j \in DOMAIN m, m[i].key = m[j].key
               PROVE  i = j
    BY DEF OnceEach
  <2>1. CASE i = 1 BY <1>1, <1>5, <2>1
  <2>2. CASE j = 1 BY <1>1, <1>5, <2>2
  <2>3. CASE i # 1 /\ j # 1
    <3>1. i - 1 = j - 1 BY <1>3, <2>3 DEF OnceEach
    <3> QED BY <1>2, <3>1
  <2> QED BY <2>1, <2>2, <2>3
<1>7. KeysOf(m) = KeysOf(w) \cup {e.key}
  <2>1. ASSUME NEW x \in KeysOf(m) PROVE x \in KeysOf(w) \cup {e.key}
    BY <1>1, <1>3, <2>1 DEF KeysOf
  <2>2. KeysOf(w) \subseteq KeysOf(m) BY <1>4 DEF KeysOf
  <2>3. e.key \in KeysOf(m) BY <1>1, <1>2 DEF KeysOf
  <2> QED BY <2>1, <2>2, <2>3
<1> QED BY <1>1, <1>6, <1>7 DEF m

\* A hit changes the order only.
LEMMA MoveAgrees ==
  ASSUME NEW c, Agrees(c), NEW k \in c.table
  PROVE  Agrees(MoveToFront(c, k)) /\ MoveToFront(c, k).nbytes = c.nbytes
<1> DEFINE e == EntryOf(c, k)
           w == Without(c, k)
<1>1. e \in Entries /\ e.key = k BY PlaceOfKey
<1>2. /\ w \in Seq(Entries) /\ OnceEach(w) /\ KeysOf(w) = c.table \ {k}
      /\ SizeOfAll(w) = c.nbytes - Size(e)
  BY WithoutKey
<1>3. MoveToFront(c, k) = [c EXCEPT !.ll = <<e>> \o w] BY DEF MoveToFront
<1> HIDE DEF e, w
<1>4. /\ <<e>> \o w \in Seq(Entries) /\ OnceEach(<<e>> \o w)
      /\ KeysOf(<<e>> \o w) = c.table
  <2>1. e.key \notin KeysOf(w) BY <1>1, <1>2
  <2>2. /\ <<e>> \o w \in Seq(Entries) /\ OnceEach(<<e>> \o w)
        /\ KeysOf(<<e>> \o w) = KeysOf(w) \cup {e.key}
    BY <1>1, <1>2, <2>1, NewFront
  <2>3. KeysOf(w) \cup {e.key} = c.table BY <1>1, <1>2
  <2> QED BY <2>2, <2>3
<1>5. SizeOfAll(<<e>> \o w) = c.nbytes
  <2>1. Size(e) \in Nat /\ c.nbytes \in Int BY <1>1, SizesAreNumbers DEF Agrees, Caches
  <2> QED BY <1>1, <1>2, <2>1, SizeOfPush
<1>6. c \in Caches BY DEF Agrees
<1>7. /\ MoveToFront(c, k).ll = <<e>> \o w /\ MoveToFront(c, k).table = c.table
      /\ MoveToFront(c, k).nbytes = c.nbytes /\ MoveToFront(c, k) \in Caches
  BY <1>3, <1>4, <1>6 DEF Caches
<1> QED BY <1>4, <1>5, <1>7 DEF Agrees

\* What Add puts at the front, before the loop.
Fronted(c, e) == IF e.key \in c.table THEN Replace(c, e) ELSE PushFront(c, e)

LEMMA FrontedAgrees ==
  ASSUME NEW c, Agrees(c), NEW e \in Entries
  PROVE  /\ Agrees(Fronted(c, e))
         /\ Len(Fronted(c, e).ll) >= 1 /\ Fronted(c, e).ll[1] = e
<1>0. /\ c \in Caches /\ c.nbytes \in Int /\ c.ll \in Seq(Entries)
      /\ Size(e) \in Nat /\ e.key \in Keys
  BY SizesAreNumbers DEF Agrees, Caches, Entries
<1>1. CASE e.key \in c.table
  <2> DEFINE w == Without(c, e.key)
             o == EntryOf(c, e.key)
  <2>1. o \in Entries /\ Size(o) \in Nat BY <1>1, PlaceOfKey, SizesAreNumbers
  <2>2. /\ w \in Seq(Entries) /\ OnceEach(w) /\ KeysOf(w) = c.table \ {e.key}
        /\ SizeOfAll(w) = c.nbytes - Size(o)
    BY <1>1, WithoutKey
  <2>3. Fronted(c, e) = [c EXCEPT !.ll = <<e>> \o w, !.nbytes = @ - Size(o) + Size(e)]
    BY <1>1 DEF Fronted, Replace
  <2> HIDE DEF w, o
  <2>4. /\ <<e>> \o w \in Seq(Entries) /\ OnceEach(<<e>> \o w)
        /\ KeysOf(<<e>> \o w) = c.table
        /\ Len(<<e>> \o w) >= 1 /\ (<<e>> \o w)[1] = e
    <3>1. e.key \notin KeysOf(w) BY <2>2
    <3>2. /\ <<e>> \o w \in Seq(Entries) /\ OnceEach(<<e>> \o w)
          /\ KeysOf(<<e>> \o w) = KeysOf(w) \cup {e.key}
          /\ Len(<<e>> \o w) >= 1 /\ (<<e>> \o w)[1] = e
      BY <2>2, <3>1, NewFront
    <3>3. KeysOf(w) \cup {e.key} = c.table BY <1>1, <2>2
    <3> QED BY <3>2, <3>3
  <2>5. SizeOfAll(<<e>> \o w) = c.nbytes - Size(o) + Size(e)
    BY <1>0, <2>1, <2>2, SizeOfPush
  <2>6. /\ Fronted(c, e).ll = <<e>> \o w /\ Fronted(c, e).table = c.table
        /\ Fronted(c, e).nbytes = c.nbytes - Size(o) + Size(e) /\ Fronted(c, e) \in Caches
    <3> DEFINE l == <<e>> \o w
               b == c.nbytes - Size(o) + Size(e)
    <3>1. l \in Seq(Entries) /\ b \in Int BY <1>0, <2>1, <2>4
    <3>2. Fronted(c, e) = [c EXCEPT !.ll = l, !.nbytes = b] BY <1>0, <2>3 DEF Caches
    <3> HIDE DEF l, b
    <3>3. /\ Fronted(c, e).ll = l /\ Fronted(c, e).table = c.table
          /\ Fronted(c, e).nbytes = b /\ Fronted(c, e) \in Caches
      BY <1>0, <3>1, <3>2 DEF Caches
    <3> QED BY <3>3 DEF l, b
  <2> QED BY <2>4, <2>5, <2>6 DEF Agrees
<1>2. CASE e.key \notin c.table
  <2>1. c.table = KeysOf(c.ll) /\ OnceEach(c.ll) /\ c.nbytes = SizeOfAll(c.ll)
    BY DEF Agrees
  <2>2. Fronted(c, e) = [ll |-> <<e>> \o c.ll, table |-> c.table \cup {e.key},
                         nbytes |-> c.nbytes + Size(e)]
    BY <1>2 DEF Fronted, PushFront
  <2>3. /\ <<e>> \o c.ll \in Seq(Entries) /\ OnceEach(<<e>> \o c.ll)
        /\ KeysOf(<<e>> \o c.ll) = c.table \cup {e.key}
        /\ Len(<<e>> \o c.ll) >= 1 /\ (<<e>> \o c.ll)[1] = e
    BY <1>0, <1>2, <2>1, NewFront
  <2>4. SizeOfAll(<<e>> \o c.ll) = c.nbytes + Size(e)
    BY <1>0, <2>1, SizeOfPush
  <2>5. Fronted(c, e) \in Caches BY <1>0, <2>2, <2>3 DEF Caches
  <2> QED BY <2>2, <2>3, <2>4, <2>5 DEF Agrees
<1> QED BY <1>1, <1>2

\* Removing the n oldest entries: the map and the count lose what they held.
LEMMA DropAgrees ==
  ASSUME NEW c, Agrees(c), NEW n \in 0..Len(c.ll)
  PROVE  /\ Agrees(RemoveOldest(c, n))
         /\ RemoveOldest(c, n).ll = SubSeq(c.ll, 1, Len(c.ll) - n)
         /\ RemoveOldest(c, n).nbytes = SizeOfAll(SubSeq(c.ll, 1, Len(c.ll) - n))
<1> DEFINE ll == c.ll
           m == Len(ll) - n
           a == SubSeq(ll, 1, m)
           b == SubSeq(ll, m + 1, Len(ll))
<1>1. /\ ll \in Seq(Entries) /\ DOMAIN ll = 1..Len(ll) /\ Len(ll) \in Nat
      /\ OnceEach(ll) /\ c.table = KeysOf(ll) /\ c.nbytes = SizeOfAll(ll)
      /\ c.table \subseteq Keys
  BY DEF Agrees, Caches
<1>2. m \in 0..Len(ll) BY <1>1
<1>3. SizeOfAll(a) = SizeOfAll(ll) - SizeOfAll(b)
  <2> HIDE DEF ll, m
  <2> QED BY <1>1, <1>2, SizeOfParts
<1>4. RemoveOldest(c, n) = [ll |-> a, table |-> c.table \ KeysOf(b),
                            nbytes |-> c.nbytes - SizeOfAll(b)]
  BY DEF RemoveOldest, Drop, KeysOf
<1> HIDE DEF ll
<1>5. /\ a \in Seq(Entries) /\ DOMAIN a = 1..m /\ \A j \in 1..m : a[j] = ll[j]
      /\ DOMAIN b = 1..Len(ll) - m /\ \A j \in 1..Len(ll) - m : b[j] = ll[m + j]
  <2> HIDE DEF m
  <2>1. a \in Seq(Entries) /\ Len(a) = m /\ \A j \in 1..m : a[j] = ll[j]
    BY <1>1, <1>2, TwoParts
  <2>2. /\ b \in Seq(Entries) /\ Len(b) = Len(ll) - m
        /\ \A j \in 1..Len(ll) - m : b[j] = ll[m + j]
    BY <1>1, <1>2, TwoParts
  <2>3. DOMAIN a = 1..m BY <2>1
  <2>4. DOMAIN b = 1..Len(ll) - m BY <2>2
  <2> HIDE DEF a, b
  <2> QED BY <2>1, <2>2, <2>3, <2>4
<1> HIDE DEF a, b, m
<1>6. OnceEach(a) BY <1>1, <1>2, <1>5 DEF OnceEach
<1>7. KeysOf(a) = KeysOf(ll) \ KeysOf(b)
  <2>1. ASSUME NEW x \in KeysOf(a) PROVE x \in KeysOf(ll) /\ x \notin KeysOf(b)
    <3>1. PICK i \in 1..m : x = a[i].key BY <1>5 DEF KeysOf
    <3>2. i \in DOMAIN ll /\ x = ll[i].key BY <1>1, <1>2, <1>5, <3>1
    <3>3. ASSUME NEW j \in DOMAIN b PROVE b[j].key # x
      <4>1. m + j \in DOMAIN ll /\ m + j # i /\ b[j] = ll[m + j] BY <1>1, <1>2, <1>5
      <4> QED BY <1>1, <3>2, <4>1 DEF OnceEach
    <3> QED BY <3>2, <3>3 DEF KeysOf
  <2>2. ASSUME NEW x \in KeysOf(ll), x \notin KeysOf(b) PROVE x \in KeysOf(a)
    <3>1. PICK j \in DOMAIN ll : x = ll[j].key BY DEF KeysOf
    <3>2. CASE j <= m
      <4>1. j \in DOMAIN a /\ a[j] = ll[j] BY <1>1, <1>2, <1>5, <3>2
      <4> QED BY <3>1, <4>1 DEF KeysOf
    <3>3. CASE ~(j <= m)
      <4>1. j - m \in DOMAIN b /\ m + (j - m) = j BY <1>1, <1>2, <1>5, <3>3
      <4>2. b[j - m] = ll[j] BY <1>5, <4>1
      <4> QED BY <2>2, <3>1, <4>1, <4>2 DEF KeysOf
    <3> QED BY <3>2, <3>3
  <2> QED BY <2>1, <2>2
<1>8. SizeOfAll(a) \in Int BY <1>5, SizeIsNumber
<1>9. RemoveOldest(c, n) = [ll |-> a, table |-> KeysOf(a), nbytes |-> SizeOfAll(a)]
  BY <1>1, <1>3, <1>4, <1>7
<1>10. KeysOf(a) \subseteq Keys BY <1>1, <1>7
<1> QED BY <1>5, <1>6, <1>8, <1>9, <1>10 DEF Agrees, Caches, a, m, ll

\* The loop of Add ends within the bound, and before it reaches an entry at
\* the front that fits by itself.
LEMMA TrimFits ==
  ASSUME NEW c, Agrees(c)
  PROVE  /\ Agrees(Trim(c)) /\ Trim(c).nbytes <= MaxBytes
         /\ Len(c.ll) >= 1 /\ Size(c.ll[1]) <= MaxBytes
              => c.ll[1].key \in Trim(c).table
<1> DEFINE ll == c.ll
           fits == {n \in 0..Len(ll) : RemoveOldest(c, n).nbytes <= MaxBytes}
           x == Min(fits)
<1>1. ll \in Seq(Entries) /\ Len(ll) \in Nat /\ MaxBytes \in Nat
  BY Sizes DEF Agrees, Caches
<1>2. Len(ll) \in fits
  <2>1. Len(ll) \in 0..Len(ll) /\ Len(ll) - Len(ll) = 0 BY <1>1
  <2>2. RemoveOldest(c, Len(ll)).nbytes = SizeOfAll(SubSeq(ll, 1, 0))
    BY <2>1, DropAgrees
  <2>3. SubSeq(ll, 1, 0) = <<>> BY <1>1
  <2>4. RemoveOldest(c, Len(ll)).nbytes = 0 BY <2>2, <2>3, SizeOfNone
  <2> QED BY <1>1, <2>1, <2>4
<1>3. x \in fits /\ \A y \in fits : x <= y
  <2>1. fits \subseteq Nat /\ fits # {} BY <1>2
  <2> HIDE DEF fits
  <2>2. \E z \in fits : \A y \in fits : z <= y BY <2>1, LeastNumber
  <2> QED BY <2>2 DEF Min
<1>4. Trim(c) = RemoveOldest(c, x) BY <1>2 DEF Trim
<1>5. /\ x \in 0..Len(ll) /\ RemoveOldest(c, x).nbytes <= MaxBytes
  BY <1>3
<1>6. ASSUME Len(ll) >= 1, Size(ll[1]) <= MaxBytes
      PROVE  ll[1].key \in RemoveOldest(c, x).table
  <2> DEFINE e == ll[1]
  <2>1. e \in Entries /\ Size(e) \in Nat BY <1>1, <1>6, SizesAreNumbers
  <2>2. Len(ll) - 1 \in 0..Len(ll) /\ Len(ll) - (Len(ll) - 1) = 1 BY <1>1, <1>6
  <2>3. RemoveOldest(c, Len(ll) - 1).nbytes = SizeOfAll(SubSeq(ll, 1, 1))
    BY <2>2, DropAgrees
  <2>4. SubSeq(ll, 1, 1) = <<e>> /\ <<e>> = <<e>> \o <<>>
    <3>1. <<e>> = <<e>> \o <<>> BY <2>1
    <3> DEFINE o == SubSeq(ll, 1, 1)
    <3> HIDE DEF ll
    <3>2. o \in Seq(Entries) /\ Len(o) = 1 /\ o[1] = ll[1] BY <1>1, <1>6
    <3> HIDE DEF o
    <3>3. o = <<o[1]>> BY <3>2
    <3> QED BY <3>1, <3>2, <3>3 DEF o
  <2>5. SizeOfAll(<<e>>) = Size(e)
    <3>1. <<>> \in Seq(Entries) OBVIOUS
    <3> HIDE DEF e
    <3>2. SizeOfAll(<<e>> \o <<>>) = Size(e) + SizeOfAll(<<>>) BY <2>1, <3>1, SizeOfPush
    <3> QED BY <2>1, <2>4, <3>2, SizeOfNone
  <2>6. Len(ll) - 1 \in fits BY <1>6, <2>2, <2>3, <2>4, <2>5
  <2>7. x <= Len(ll) - 1 BY <1>3, <2>6
  <2> DEFINE a == SubSeq(ll, 1, Len(ll) - x)
  <2>8. RemoveOldest(c, x).ll = a /\ RemoveOldest(c, x).table = KeysOf(a)
    BY <1>5, DropAgrees DEF Agrees
  <2>9. 1 \in DOMAIN a /\ a[1] = e
    <3> DEFINE m == Len(ll) - x
    <3>1. m \in 1..Len(ll) BY <1>1, <1>5, <2>7
    <3> HIDE DEF x, ll, m
    <3>2. SubSeq(ll, 1, m) \in Seq(Entries) /\ Len(SubSeq(ll, 1, m)) = m
      BY <1>1, <3>1
    <3>3. SubSeq(ll, 1, m)[1] = ll[1] BY <1>1, <3>1
    <3>4. 1 \in DOMAIN SubSeq(ll, 1, m) BY <3>1, <3>2
    <3> QED BY <3>3, <3>4 DEF m
  <2> QED BY <2>8, <2>9 DEF KeysOf
<1> HIDE DEF x, fits
<1>7. Agrees(RemoveOldest(c, x)) BY <1>5, DropAgrees
<1> QED BY <1>4, <1>5, <1>6, <1>7

\* Add as a whole.
LEMMA AddFits ==
  ASSUME NEW c, Agrees(c), NEW e \in Entries
  PROVE  /\ Agrees(Add(c, e)) /\ Add(c, e).nbytes <= MaxBytes
         /\ Size(e) <= MaxBytes => e.key \in Add(c, e).table
<1> DEFINE d == Fronted(c, e)
<1>1. Agrees(d) /\ Len(d.ll) >= 1 /\ d.ll[1] = e BY FrontedAgrees
<1>2. Add(c, e) = Trim(d) BY DEF Add, Fronted
<1> HIDE DEF d
<1> QED BY <1>1, <1>2, TrimFits

-----------------------------------------------------------------------------
(* The caches and the results of a running system.                         *)

\* A goroutine has no result before it is given one, and stores a datum.
ResultsOK ==
  /\ res \in [Procs -> Nat \cup {None, Err}]
  /\ \A p \in Procs :
       /\ pc[p] \in {"idle", "looking", "entering", "waiting", "loading",
                     "asking", "sourcing", "panicked"} => res[p] = None
       /\ pc[p] = "storing" => res[p] \in Lengths

CachesOK ==
  /\ lru \in [Nodes -> Caches]
  /\ \A n \in Nodes : Agrees(lru[n]) /\ lru[n].nbytes <= MaxBytes

\* Only Hit and Store touch a cache, and the goroutine of each has a Get.
LEMMA CachesKept ==
  ASSUME IInv, ResultsOK, CachesOK, Next
  PROVE  CachesOK'
<1>1. ASSUME NEW n \in Nodes, NEW c, lru' = [lru EXCEPT ![n] = c],
             Agrees(c), c.nbytes <= MaxBytes
      PROVE  CachesOK'
  BY <1>1 DEF CachesOK, Agrees
<1>2. CASE UNCHANGED lru BY <1>2 DEF CachesOK, Agrees
<1>3. ASSUME NEW p \in Procs, Hit(p) PROVE CachesOK'
  <2> DEFINE n == NodeOf(p)
             c == MoveToFront(lru[n], KeyOf(p))
  <2>1. want[p] \in Calls BY <1>3 DEF Hit, IInv, ControlOK
  <2>2. n \in Nodes BY <2>1, ForwardedGet DEF NodeOf
  <2>3. lru' = [lru EXCEPT ![n] = c] BY <1>3, <2>2 DEF Hit, CachesOK
  <2>4. Agrees(lru[n]) /\ lru[n].nbytes <= MaxBytes /\ KeyOf(p) \in lru[n].table
    BY <1>3, <2>2 DEF Hit, CachesOK
  <2>5. Agrees(c) /\ c.nbytes <= MaxBytes
    <3> HIDE DEF n
    <3> QED BY <2>4, MoveAgrees
  <2> HIDE DEF n, c
  <2> QED BY <1>1, <2>2, <2>3, <2>5
<1>4. ASSUME NEW p \in Procs, Store(p) PROVE CachesOK'
  <2> DEFINE n == NodeOf(p)
             e == [key |-> KeyOf(p), len |-> res[p]]
             c == Add(lru[n], e)
  <2>1. want[p] \in Calls BY <1>4 DEF Store, IInv, ControlOK
  <2>2. n \in Nodes /\ KeyOf(p) \in Keys BY <2>1, ForwardedGet DEF NodeOf, KeyOf
  <2>3. res[p] \in Nat BY <1>4, Sizes DEF Store, ResultsOK
  <2>4. e \in Entries BY <2>2, <2>3 DEF Entries
  <2>5. lru' = [lru EXCEPT ![n] = c] BY <1>4, <2>2 DEF Store, CachesOK
  <2>6. Agrees(lru[n]) BY <2>2 DEF CachesOK
  <2>7. Agrees(c) /\ c.nbytes <= MaxBytes
    <3> HIDE DEF n, e
    <3> QED BY <2>4, <2>6, AddFits
  <2> HIDE DEF n, c
  <2> QED BY <1>1, <2>2, <2>5, <2>7
<1>5. ASSUME NEW p \in Procs, Step(p), ~Hit(p), ~Store(p) PROVE UNCHANGED lru
  BY <1>5 DEF Step, Miss, Lead, LeadIf, Join, LoadHere, Forward, TransportFails,
              TakeReply, TakeReplyIf, Source, Done, Wake, Forget
<1>6. ASSUME NEW p \in Clients, NEW n \in Nodes, NEW k \in Keys, Begin(p, n, k)
      PROVE  UNCHANGED lru
  BY <1>6 DEF Begin
<1>7. ASSUME NEW p \in Clients, Return(p) PROVE UNCHANGED lru
  BY <1>7 DEF Return
<1> QED BY <1>2, <1>3, <1>4, <1>5, <1>6, <1>7 DEF Next

\* A result is given to a goroutine that returns, that is done or that stores
\* it, and taken from one that becomes idle.
LEMMA ResultsKept ==
  ASSUME IInv, ResultsOK, CachesOK, Next
  PROVE  ResultsOK'
<1> USE DEF ResultsOK
<1>0. /\ Calls \subseteq Procs /\ Clients \subseteq Procs
      /\ pc \in [Procs -> PCs] /\ want \in [Procs -> Calls \cup {None}]
      /\ flight \in [Calls -> Procs \cup {None}]
      /\ \A p \in Procs : pc[p] # "idle" => want[p] \in Calls
  BY DEF Procs, IInv, ControlOK
<1>1. ASSUME NEW p \in Clients, NEW n \in Nodes, NEW k \in Keys, Begin(p, n, k)
      PROVE  ResultsOK'
  BY <1>0, <1>1 DEF Begin, Goto
<1>2. ASSUME NEW p \in Procs, Hit(p) PROVE ResultsOK'
  <2>1. want[p] \in Calls BY <1>0, <1>2 DEF Hit
  <2>2. NodeOf(p) \in Nodes BY <2>1, ForwardedGet DEF NodeOf
  <2>3. EntryOf(lru[NodeOf(p)], KeyOf(p)) \in Entries
    <3> DEFINE c == lru[NodeOf(p)]
    <3>1. Agrees(c) /\ KeyOf(p) \in c.table BY <1>2, <2>2 DEF Hit, CachesOK
    <3> HIDE DEF c
    <3>2. EntryOf(c, KeyOf(p)) \in Entries BY <3>1, PlaceOfKey
    <3> QED BY <3>2 DEF c
  <2>4. EntryOf(lru[NodeOf(p)], KeyOf(p)).len \in Nat BY <2>3 DEF Entries
  <2> DEFINE r == EntryOf(lru[NodeOf(p)], KeyOf(p)).len
  <2>5. r \in Nat /\ Answer(p, r) /\ Goto(p, "returning") BY <1>2, <2>4 DEF Hit
  <2> HIDE DEF r
  <2> QED BY <1>0, <2>5 DEF Answer, Goto
<1>3. ASSUME NEW p \in Procs, Miss(p) PROVE ResultsOK'
  BY <1>0, <1>3 DEF Miss, Goto
<1>4. ASSUME NEW p \in Procs, Lead(p) PROVE ResultsOK'
  BY <1>0, <1>4 DEF Lead, LeadIf, Goto
<1>5. ASSUME NEW p \in Procs, Join(p) PROVE ResultsOK'
  <2> DEFINE leader == flight[want[p]]
  <2>1. leader \in Procs BY <1>0, <1>5 DEF Join
  <2>2. CASE Goto(p, "returning") /\ Answer(p, res[leader])
    BY <1>0, <2>1, <2>2 DEF Goto, Answer
  <2>3. CASE Goto(p, "waiting") /\ UNCHANGED res
    BY <1>0, <1>5, <2>3 DEF Goto, Join
  <2> QED BY <1>5, <2>2, <2>3 DEF Join
<1>6. ASSUME NEW p \in Procs, LoadHere(p) PROVE ResultsOK'
  BY <1>0, <1>6 DEF LoadHere, Goto
<1>7. ASSUME NEW p \in Procs, Forward(p) PROVE ResultsOK'
  <2>1. want[p] \in Procs /\ want[p] # p BY <1>0, <1>7 DEF Forward
  <2>2. /\ pc[p] = "loading" /\ pc[want[p]] = "idle" /\ res' = res
        /\ pc' = [pc EXCEPT ![p] = "asking", ![want[p]] = "looking"]
    BY <1>7 DEF Forward
  <2> QED BY <1>0, <2>1, <2>2
<1>8. ASSUME NEW p \in Procs, TransportFails(p) PROVE ResultsOK'
  <2>1. CASE pc[p] = "loading" /\ Goto(p, "panicked")
    BY <1>0, <1>8, <2>1 DEF TransportFails, Goto
  <2>2. CASE /\ pc[p] = "asking" /\ pc[want[p]] = "panicked"
             /\ FreeHandler(p, want[p], "panicked")
    <3>1. want[p] \in Procs /\ want[p] # p BY <1>0, <2>2
    <3> QED BY <1>0, <1>8, <2>2, <3>1 DEF TransportFails, FreeHandler
  <2> QED BY <1>8, <2>1, <2>2 DEF TransportFails
<1>9. ASSUME NEW p \in Procs, TakeReply(p) PROVE ResultsOK'
  <2> DEFINE h == want[p]
  <2>1. pc[p] = "asking" /\ pc[h] = "returning"
    BY <1>9 DEF TakeReply, TakeReplyIf
  <2>2. h \in Procs /\ h # p /\ res[p] = None BY <1>0, <2>1
  <2>3. CASE FreeHandler(p, h, "sourcing") /\ res' = [res EXCEPT ![h] = None]
    BY <1>0, <2>1, <2>2, <2>3 DEF FreeHandler
  <2>4. CASE FreeHandler(p, h, "done") /\ res' = [res EXCEPT ![p] = res[h], ![h] = None]
    BY <1>0, <2>1, <2>2, <2>4 DEF FreeHandler
  <2> QED BY <1>9, <2>3, <2>4 DEF TakeReply, TakeReplyIf
<1>10. ASSUME NEW p \in Procs, Source(p) PROVE ResultsOK'
  <2>1. CASE Answer(p, Err) /\ Goto(p, "done")
    BY <1>0, <2>1 DEF Answer, Goto
  <2>2. CASE \E l \in Lengths : Answer(p, l) /\ Goto(p, "storing")
    BY <1>0, <2>2, Sizes DEF Answer, Goto
  <2> QED BY <1>10, <2>1, <2>2 DEF Source
<1>11. ASSUME NEW p \in Procs, Store(p) PROVE ResultsOK'
  BY <1>0, <1>11 DEF Store, Goto
<1>12. ASSUME NEW p \in Procs, Done(p) PROVE ResultsOK'
  <2>1. /\ pc' = [q \in Procs |-> IF q = p THEN "forget"
                    ELSE IF q \in Waiters(p) THEN "returning" ELSE pc[q]]
        /\ res' = [q \in Procs |-> IF q \in Waiters(p) THEN res[p] ELSE res[q]]
        /\ pc[p] = "done"
    BY <1>12 DEF Done, Wake
  <2>2. \A q \in Waiters(p) : pc[q] = "waiting" BY DEF Waiters
  <2> QED BY <1>0, <2>1, <2>2
<1>13. ASSUME NEW p \in Procs, Forget(p) PROVE ResultsOK'
  BY <1>0, <1>13 DEF Forget, Goto
<1>14. ASSUME NEW p \in Clients, Return(p) PROVE ResultsOK'
  BY <1>0, <1>14 DEF Return, Goto
<1> QED BY <1>1, <1>2, <1>3, <1>4, <1>5, <1>6, <1>7, <1>8, <1>9, <1>10,
           <1>11, <1>12, <1>13, <1>14 DEF Next, Step

\* Results and caches keep their invariants, for every size of the data.
THEOREM DataInvariant == Spec => [](ResultsOK /\ CachesOK)
<1>1. Init => ResultsOK /\ CachesOK
  <2> SUFFICES ASSUME Init PROVE ResultsOK /\ CachesOK OBVIOUS
  <2> DEFINE c == [ll |-> <<>>, table |-> {}, nbytes |-> 0]
  <2>1. ResultsOK BY DEF Init, ResultsOK
  <2>2. c \in Caches BY DEF Caches
  <2>3. Agrees(c) /\ c.nbytes <= MaxBytes
    BY <2>2, SizeOfNone, Sizes DEF Agrees, KeysOf, OnceEach
  <2>4. lru = [n \in Nodes |-> c] BY DEF Init
  <2> HIDE DEF c
  <2> QED BY <2>1, <2>2, <2>3, <2>4 DEF CachesOK
<1>2. IInv /\ ResultsOK /\ CachesOK /\ [Next]_vars => (ResultsOK /\ CachesOK)'
  <2>1. CASE Next BY <2>1, CachesKept, ResultsKept
  <2>2. CASE UNCHANGED vars BY <2>2 DEF vars, ResultsOK, CachesOK, Agrees
  <2> QED BY <2>1, <2>2
<1> QED BY <1>1, <1>2, Invariant, PTL DEF Spec

\* The list, the map and the byte count of every node's cache describe the
\* same entries within the bound, for every size of key and datum.
THEOREM CachesAreSound == Spec => []CacheIsSound
<1>1. CachesOK => CacheIsSound
  BY DEF CachesOK, CacheIsSound, Agrees, KeysOf, OnceEach
<1> QED BY <1>1, DataInvariant, PTL

\* What a load stores is still there when its Add has evicted what it must.
THEOREM StoredIsKept == Spec => AddedIsKept
<1> DEFINE Kept == \A p \in Procs :
             pc[p] = "storing" /\ pc'[p] = "done" /\ KeyLen + res[p] <= MaxBytes
               => KeyOf(p) \in lru'[NodeOf(p)].table
<1>1. IInv /\ ResultsOK /\ CachesOK /\ [Next]_vars => Kept
  <2> SUFFICES ASSUME IInv, ResultsOK, CachesOK, [Next]_vars, NEW p \in Procs,
                      pc[p] = "storing", pc'[p] = "done", KeyLen + res[p] <= MaxBytes
               PROVE  KeyOf(p) \in lru'[NodeOf(p)].table
    OBVIOUS
  <2>0. /\ Calls \subseteq Procs /\ Clients \subseteq Procs /\ pc \in [Procs -> PCs]
        /\ \A q \in Procs : pc[q] # "idle" => want[q] \in Calls
    BY DEF Procs, IInv, ControlOK
  <2>1. Store(p)
    <3>1. ASSUME NEW q \in Procs, NEW where, Goto(q, where), pc[q] # "storing"
          PROVE  FALSE
      BY <2>0, <3>1 DEF Goto
    <3>2. ASSUME NEW q \in Procs, NEW h \in Procs, NEW where, FreeHandler(q, h, where),
                 pc[q] # "storing", pc[h] # "storing"
          PROVE  FALSE
      BY <2>0, <3>2 DEF FreeHandler
    <3>3. ASSUME NEW q \in Procs, Forward(q) PROVE FALSE
      BY <2>0, <3>3 DEF Forward
    <3>4. ASSUME NEW q \in Procs, Done(q) PROVE FALSE
      BY <3>4 DEF Done, Wake
    <3>5. ASSUME NEW q \in Procs, TransportFails(q) PROVE FALSE
      <4>1. pc[q] # "storing" BY <3>5 DEF TransportFails
      <4>2. CASE Goto(q, "panicked") BY <3>1, <4>1, <4>2
      <4>3. CASE pc[q] = "asking" /\ pc[want[q]] = "panicked" /\ FreeHandler(q, want[q], "panicked")
        <5>1. want[q] \in Procs BY <2>0, <4>3
        <5> QED BY <3>2, <4>3, <5>1
      <4> QED BY <3>5, <4>2, <4>3 DEF TransportFails
    <3>6. ASSUME NEW q \in Procs, TakeReply(q) PROVE FALSE
      <4>1. pc[q] = "asking" /\ pc[want[q]] = "returning"
        BY <3>6 DEF TakeReply, TakeReplyIf
      <4>2. want[q] \in Procs BY <2>0, <4>1
      <4> QED BY <3>2, <3>6, <4>1, <4>2 DEF TakeReply, TakeReplyIf
    <3>7. ASSUME NEW q \in Procs, Hit(q) \/ Miss(q) \/ LoadHere(q) \/ Forget(q) PROVE FALSE
      <4>1. pc[q] # "storing" BY <3>7 DEF Hit, Miss, LoadHere, Forget
      <4> QED BY <3>1, <3>7, <4>1 DEF Hit, Miss, LoadHere, Forget
    <3>8. ASSUME NEW q \in Procs, Lead(q) \/ Join(q) \/ Source(q) PROVE FALSE
      <4>1. pc[q] # "storing" BY <3>8 DEF Lead, LeadIf, Join, Source
      <4> QED BY <3>1, <3>8, <4>1 DEF Lead, LeadIf, Join, Source
    <3>9. ASSUME NEW q \in Procs, Store(q) PROVE q = p
      BY <2>0, <3>9 DEF Store, Goto
    <3>10. ASSUME NEW q \in Clients, Return(q) PROVE FALSE
      BY <2>0, <3>1, <3>10 DEF Return
    <3>11. ASSUME NEW q \in Clients, NEW n \in Nodes, NEW k \in Keys, Begin(q, n, k)
           PROVE  FALSE
      BY <2>0, <3>1, <3>11 DEF Begin
    <3>12. pc' # pc OBVIOUS
    <3> QED BY <3>3, <3>4, <3>5, <3>6, <3>7, <3>8, <3>9, <3>10, <3>11, <3>12
            DEF Next, Step, vars
  <2> DEFINE n == NodeOf(p)
             e == [key |-> KeyOf(p), len |-> res[p]]
  <2>2. want[p] \in Calls BY <2>0
  <2>3. n \in Nodes /\ KeyOf(p) \in Keys BY <2>2, ForwardedGet DEF NodeOf, KeyOf
  <2>4. res[p] \in Nat BY Sizes DEF ResultsOK
  <2>5. e \in Entries /\ Size(e) <= MaxBytes BY <2>3, <2>4 DEF Entries, Size
  <2>6. Agrees(lru[n]) /\ lru'[n] = Add(lru[n], e) BY <2>1, <2>3 DEF CachesOK, Store
  <2>7. e.key \in lru'[n].table
    <3> HIDE DEF n, e
    <3> QED BY <2>5, <2>6, AddFits
  <2> QED BY <2>7
<1> HIDE DEF Kept
<1>2. Spec => [][Kept]_vars BY <1>1, Invariant, DataInvariant, PTL DEF Spec
<1> QED BY <1>2 DEF AddedIsKept, Kept

\* Whatever a peer answers, a load gets an error from its own Getter only.
THEOREM OnlyGettersFail == Spec => ErrorsAreLocal
<1> DEFINE Local == \A p \in Procs :
             pc[p] \in Loading /\ res'[p] = Err => pc[p] = "sourcing"
<1>1. IInv /\ ResultsOK /\ CachesOK /\ [Next]_vars => Local
  <2> SUFFICES ASSUME IInv, ResultsOK, [Next]_vars, NEW p \in Procs,
                      pc[p] \in {"loading", "asking", "storing"}, res'[p] = Err
               PROVE  FALSE
    BY DEF Loading
  <2>0. /\ Calls \subseteq Procs /\ Clients \subseteq Procs /\ res \in [Procs -> Nat \cup {None, Err}]
        /\ \A q \in Procs : pc[q] # "idle" => want[q] \in Calls
        /\ None # Err /\ Err \notin Lengths
    BY Distinct DEF Procs, IInv, ControlOK, ResultsOK
  <2>1. res[p] # Err BY <2>0 DEF ResultsOK
  <2>2. ASSUME NEW q \in Procs, NEW r, Answer(q, r), pc[q] \notin {"loading", "asking", "storing"}
        PROVE  FALSE
    BY <2>0, <2>1, <2>2 DEF Answer
  <2>3. CASE UNCHANGED res BY <2>1, <2>3
  <2>4. ASSUME NEW q \in Procs, Hit(q) \/ Join(q) \/ Source(q) PROVE FALSE
    <3>1. pc[q] \notin {"loading", "asking", "storing"} BY <2>4 DEF Hit, Join, Source
    <3> QED BY <2>2, <2>3, <2>4, <3>1 DEF Hit, Join, Source
  <2>5. ASSUME NEW q \in Procs, TakeReply(q) PROVE FALSE
    <3>1. pc[q] = "asking" /\ pc[want[q]] = "returning" BY <2>5 DEF TakeReply, TakeReplyIf
    <3>2. want[q] \in Procs /\ want[q] # p BY <2>0, <3>1
    <3>3. CASE res' = [res EXCEPT ![want[q]] = None] BY <2>0, <2>1, <3>2, <3>3
    <3>4. CASE /\ res[want[q]] \notin {Err, 0}
               /\ res' = [res EXCEPT ![q] = res[want[q]], ![want[q]] = None]
      BY <2>0, <2>1, <3>2, <3>4
    <3> QED BY <2>5, <3>3, <3>4 DEF TakeReply, TakeReplyIf
  <2>6. ASSUME NEW q \in Procs, Done(q) PROVE FALSE
    <3>1. p \notin Waiters(q) BY DEF Waiters
    <3> QED BY <2>1, <2>6, <3>1 DEF Done, Wake
  <2>7. ASSUME NEW q \in Clients, Return(q) PROVE FALSE
    BY <2>0, <2>1, <2>7 DEF Return
  <2>8. ASSUME NEW q \in Procs, \/ Miss(q) \/ Lead(q) \/ LoadHere(q) \/ Forward(q)
                                \/ TransportFails(q) \/ Store(q) \/ Forget(q)
        PROVE  UNCHANGED res
    BY <2>8 DEF Miss, Lead, LeadIf, LoadHere, Forward, TransportFails, Store, Forget
  <2>9. ASSUME NEW q \in Clients, NEW n \in Nodes, NEW k \in Keys, Begin(q, n, k)
        PROVE  UNCHANGED res
    BY <2>9 DEF Begin
  <2> QED BY <2>3, <2>4, <2>5, <2>6, <2>7, <2>8, <2>9 DEF Next, Step, vars
<1> HIDE DEF Local
<1>2. Spec => [][Local]_vars BY <1>1, Invariant, DataInvariant, PTL DEF Spec
<1> QED BY <1>2 DEF ErrorsAreLocal, Local

-----------------------------------------------------------------------------
(* Deadlocks: the half of RoutedGetsReturn that needs no fairness.         *)

\* A goroutine that asks a peer waits for the handler named by its call, and a
\* handler that is busy serves the load that is at work on that call.
HandlersOK ==
  /\ \A p \in Procs : pc[p] = "asking" =>
       /\ pc[want[p]] # "idle" /\ want[want[p]] = <<OwnerOf(p), KeyOf(p)>>
       /\ OwnerOf(p) # NodeOf(p) /\ OwnerOf(p) \in Grouped \ Unreachable
  /\ \A h \in Calls : pc[h] # "idle" =>
       flight[h] # None /\ pc[flight[h]] = "asking" /\ want[flight[h]] = h

\* No load of a routed key panics, the table names only goroutines that are
\* still at it, and a goroutine that waits has a leader that has not yet called
\* Done: no wakeup is lost.
RoutesOK ==
  \A c \in RoutedCalls :
    /\ \A p \in Procs : want[p] = c => pc[p] # "panicked"
    /\ flight[c] # None => want[flight[c]] = c /\ pc[flight[c]] \in Leading
    /\ \A p \in Procs : want[p] = c /\ pc[p] = "waiting" =>
         flight[c] # None /\ pc[flight[c]] # "forget"

\* What a goroutine that is not idle needs for its next step ...
CanStep(p) ==
  \/ pc[p] \in {"looking", "entering", "sourcing", "storing", "done", "forget"}
  \/ pc[p] = "loading" /\ \/ OwnerOf(p) = NodeOf(p)
                          \/ OwnerOf(p) \notin Grouped \ Unreachable
                          \/ pc[want[p]] = "idle"
  \/ pc[p] = "asking" /\ pc[want[p]] \in {"returning", "panicked"}
  \/ pc[p] = "returning" /\ p \in Clients

\* ... and for whom it waits without it: the leader of its call, the handler of
\* its request or, when it is a handler with an answer, the load that asked.
WaitsOn(p) == CASE pc[p] = "waiting" -> flight[want[p]]
                [] pc[p] = "asking" -> want[p]
                [] pc[p] = "returning" -> flight[p]
                [] OTHER -> p

Deadlock(S) == \A p \in S : pc[p] # "idle" /\ ~CanStep(p) /\ WaitsOn(p) \in S

\* No Get of a routed key is part of a deadlock, nor waits for one.
RoutesNeverStuck ==
  \A S \in SUBSET Procs : Deadlock(S) => \A p \in S : want[p] \notin RoutedCalls

\* The steps, as far as the control is concerned.
Starts(p) == /\ pc[p] = "idle" /\ pc' = [pc EXCEPT ![p] = "looking"]
             /\ \E c \in Calls : want' = [want EXCEPT ![p] = c]
             /\ UNCHANGED flight
Goes(p) ==
  \E to \in {"entering", "returning", "sourcing", "storing", "done"} :
    /\ pc[p] \in {"looking", "entering", "loading", "sourcing", "storing"}
    /\ pc[p] \in Leading => to \in Leading
    /\ pc' = [pc EXCEPT ![p] = to] /\ UNCHANGED <<want, flight>>
Leads(p) == /\ pc[p] = "entering" /\ flight[want[p]] = None
            /\ pc' = [pc EXCEPT ![p] = "loading"] /\ UNCHANGED want
            /\ flight' = [flight EXCEPT ![want[p]] = p]
Waits(p) == /\ pc[p] = "entering" /\ flight[want[p]] # None
            /\ pc[flight[want[p]]] # "forget"
            /\ pc' = [pc EXCEPT ![p] = "waiting"] /\ UNCHANGED <<want, flight>>
Panics(p) == /\ pc[p] = "loading" /\ pc' = [pc EXCEPT ![p] = "panicked"]
             /\ OwnerOf(p) # NodeOf(p) /\ OwnerOf(p) \in Unreachable
             /\ UNCHANGED <<want, flight>>
Frees(p) ==
  \E to \in {"panicked", "sourcing", "done"} :
    /\ pc[p] = "asking" /\ FreeHandler(p, want[p], to) /\ UNCHANGED flight
    /\ pc[want[p]] = IF to = "panicked" THEN "panicked" ELSE "returning"
Wakes(p) == /\ pc[p] = "done" /\ UNCHANGED <<want, flight>>
            /\ pc' = [q \in Procs |-> IF q = p THEN "forget"
                                      ELSE IF q \in Waiters(p) THEN "returning"
                                      ELSE pc[q]]

LEMMA ControlSteps ==
  ASSUME [Next]_vars
  PROVE  \/ UNCHANGED <<pc, want, flight>>
         \/ \E p \in Procs : \/ Goes(p) \/ Leads(p) \/ Waits(p) \/ Forward(p) \/ Panics(p)
                             \/ Frees(p) \/ Wakes(p) \/ Forget(p)
         \/ \E p \in Clients : Starts(p) \/ Return(p)
<1> USE DEF Goto
<1>1. ASSUME NEW p \in Clients, NEW n \in Nodes, NEW k \in Keys, Begin(p, n, k)
      PROVE  Starts(p)
  <2>1. <<n, k>> \in Calls BY <1>1 DEF Begin, Calls
  <2> QED BY <1>1, <2>1 DEF Begin, Starts
<1>2. ASSUME NEW p \in Procs, Step(p)
      PROVE  \/ Goes(p) \/ Leads(p) \/ Waits(p) \/ Forward(p) \/ Panics(p)
             \/ Frees(p) \/ Wakes(p) \/ Forget(p)
  <2>1. CASE Hit(p) \/ Miss(p) \/ LoadHere(p) \/ Source(p) \/ Store(p)
    BY <2>1 DEF Hit, Miss, LoadHere, Source, Store, Leading, Loading, Goes
  <2>2. CASE Lead(p) BY <2>2 DEF Lead, LeadIf, Leads
  <2>3. CASE Join(p)
    <3>1. pc[p] = "entering" /\ pc[p] \notin Leading BY <2>3 DEF Join, Leading, Loading
    <3> QED BY <2>3, <3>1 DEF Join, Goes, Waits
  <2>4. CASE TransportFails(p) \/ TakeReply(p)
    BY <2>4 DEF TransportFails, TakeReply, TakeReplyIf, Panics, Frees
  <2>5. CASE Done(p) BY <2>5 DEF Done, Wake, Wakes
  <2> QED BY <1>2, <2>1, <2>2, <2>3, <2>4, <2>5 DEF Step
<1>3. CASE UNCHANGED vars BY <1>3 DEF vars
<1> QED BY <1>1, <1>2, <1>3 DEF Next

\* The types, and who is whose handler.
LEMMA Control ==
  ASSUME IInv
  PROVE  /\ Calls \subseteq Procs /\ Clients \subseteq Procs /\ None \notin Procs
         /\ None \notin Calls /\ Clients \cap Calls = {}
         /\ pc \in [Procs -> PCs] /\ want \in [Procs -> Calls \cup {None}]
         /\ flight \in [Calls -> Procs \cup {None}]
         /\ \A p \in Procs : pc[p] # "idle" => want[p] \in Calls
         /\ \A p \in Procs : pc[p] \in Leading => want[p] \in Calls /\ flight[want[p]] = p
BY Distinct DEF IInv, ControlOK, LeaderIsRegistered, Procs

\* A handler is busy exactly as long as a load asks it.
LEMMA HandlersKept ==
  ASSUME IInv, HandlersOK, [Next]_vars
  PROVE  HandlersOK'
<1>0. "asking" \in Leading /\ "loading" \in Leading BY DEF Leading, Loading
<1> USE Control DEF HandlersOK, OwnerOf, NodeOf, KeyOf
<1>1. CASE UNCHANGED <<pc, want, flight>> BY <1>1
<1>2. ASSUME NEW p \in Procs, Goes(p) \/ Waits(p) \/ Panics(p)
      PROVE  HandlersOK'
  <2>1. PICK to : /\ pc' = [pc EXCEPT ![p] = to] /\ UNCHANGED <<want, flight>>
                  /\ to \notin {"idle", "asking"} /\ pc[p] \notin {"idle", "asking"}
    BY <1>2 DEF Goes, Waits, Panics
  <2> QED BY <2>1
<1>3. ASSUME NEW p \in Procs, Leads(p) PROVE HandlersOK'
  BY <1>3 DEF Leads
<1>4. ASSUME NEW p \in Procs, Forward(p) PROVE HandlersOK'
  <2>1. /\ pc[p] = "loading" /\ pc[want[p]] = "idle" /\ flight' = flight
        /\ OwnerOf(p) # NodeOf(p) /\ OwnerOf(p) \in Grouped \ Unreachable
        /\ pc' = [pc EXCEPT ![p] = "asking", ![want[p]] = "looking"]
        /\ want' = [want EXCEPT ![want[p]] = <<OwnerOf(p), KeyOf(p)>>]
    BY <1>4 DEF Forward
  <2>2. want[p] \in Calls /\ want[p] # p /\ flight[want[p]] = p
    BY <1>0, <2>1
  <2>3. ASSUME NEW q \in Procs, q # p, pc[q] = "asking" PROVE want[q] # want[p]
    BY <1>0, <2>2, <2>3
  <2>4. ASSUME NEW h \in Calls, h # want[p], pc[h] # "idle"
        PROVE  flight[h] # p
    BY <2>1, <2>4
  <2>5. want'[p] = want[p] /\ want'[want[p]] = <<OwnerOf(p), KeyOf(p)>>
        /\ \A q \in Procs : q # want[p] => want'[q] = want[q]
    BY <2>1, <2>2
  <2>6. /\ pc'[p] = "asking" /\ pc'[want[p]] = "looking"
        /\ \A q \in Procs : q # p /\ q # want[p] => pc'[q] = pc[q]
    BY <2>1, <2>2
  <2>7. ASSUME NEW q \in Procs, pc'[q] = "asking"
        PROVE  /\ pc'[want'[q]] # "idle" /\ want'[want'[q]] = <<OwnerOf(q)', KeyOf(q)'>>
               /\ OwnerOf(q)' # NodeOf(q)' /\ OwnerOf(q)' \in Grouped \ Unreachable
    BY <2>1, <2>2, <2>3, <2>5, <2>6, <2>7
  <2>8. ASSUME NEW h \in Calls, pc'[h] # "idle"
        PROVE  flight'[h] # None /\ pc'[flight'[h]] = "asking" /\ want'[flight'[h]] = h
    BY <2>1, <2>2, <2>4, <2>5, <2>6, <2>8
  <2> QED BY <2>7, <2>8
<1>5. ASSUME NEW p \in Procs, Frees(p) PROVE HandlersOK'
  <2>1. PICK to \in {"panicked", "sourcing", "done"} :
            /\ pc[p] = "asking" /\ pc[want[p]] # "asking" /\ flight' = flight
            /\ pc' = [pc EXCEPT ![p] = to, ![want[p]] = "idle"]
            /\ want' = [want EXCEPT ![want[p]] = None]
    BY <1>5 DEF Frees, FreeHandler
  <2>2. want[p] \in Calls /\ want[p] # p /\ flight[want[p]] = p
    BY <1>0, <2>1
  <2>3. ASSUME NEW q \in Procs, q # p, pc[q] = "asking" PROVE want[q] # want[p]
    BY <1>0, <2>2, <2>3
  <2>4. /\ pc'[p] = to /\ pc'[want[p]] = "idle"
        /\ \A q \in Procs : q # p /\ q # want[p] => pc'[q] = pc[q] /\ want'[q] = want[q]
    BY <2>1, <2>2
  <2>5. want'[p] = want[p] BY <2>1, <2>2
  <2>6. ASSUME NEW q \in Procs, pc'[q] = "asking"
        PROVE  /\ pc'[want'[q]] # "idle" /\ want'[want'[q]] = <<OwnerOf(q)', KeyOf(q)'>>
               /\ OwnerOf(q)' # NodeOf(q)' /\ OwnerOf(q)' \in Grouped \ Unreachable
    BY <2>1, <2>2, <2>3, <2>4, <2>5, <2>6
  <2>7. ASSUME NEW h \in Calls, pc'[h] # "idle"
        PROVE  flight'[h] # None /\ pc'[flight'[h]] = "asking" /\ want'[flight'[h]] = h
    BY <2>1, <2>2, <2>4, <2>5, <2>7
  <2> QED BY <2>6, <2>7
<1>6. ASSUME NEW p \in Procs, Wakes(p) PROVE HandlersOK'
  BY <1>6 DEF Wakes, Waiters
<1>7. ASSUME NEW p \in Procs, Forget(p) PROVE HandlersOK'
  BY <1>7 DEF Forget, Goto, Leading
<1>8. ASSUME NEW p \in Clients, Starts(p) PROVE HandlersOK'
  BY <1>8 DEF Starts
<1>9. ASSUME NEW p \in Clients, Return(p) PROVE HandlersOK'
  BY <1>9 DEF Return, Goto
<1> QED BY <1>1, <1>2, <1>3, <1>4, <1>5, <1>6, <1>7, <1>8, <1>9, ControlSteps

\* The recursion of Route: each node but the first is named by the one before.
LEMMA RouteIs ==
  ASSUME NEW n \in Nodes, NEW k \in Keys
  PROVE  /\ Cardinality(Nodes) \in Nat \ {0} /\ Route(n, k)[0] = n
         /\ \A i \in 1..Cardinality(Nodes) : Route(n, k)[i] = Ring[Route(n, k)[i-1]][k]
<1> DEFINE N == Cardinality(Nodes)
           r[i \in 0..N] == IF i = 0 THEN n ELSE Ring[r[i-1]][k]
           IsRoute(m, t) == t = [i \in 0..m |-> IF i = 0 THEN n ELSE Ring[t[i-1]][k]]
           S == {m \in Nat : \E t : IsRoute(m, t)}
<1>1. N \in Nat \ {0}
  BY NodeSets, FS_CardinalityType, FS_EmptySet
<1>2. 0 \in S
  <2>1. IsRoute(0, [i \in 0..0 |-> n]) OBVIOUS
  <2> HIDE DEF IsRoute
  <2> QED BY <2>1
<1>3. ASSUME NEW m \in Nat, m \in S PROVE m + 1 \in S
  <2>0. \E t : IsRoute(m, t)
    <3> HIDE DEF IsRoute
    <3> QED BY <1>3
  <2>1. PICK t : IsRoute(m, t) BY <2>0
  <2> DEFINE u == [i \in 0..(m + 1) |-> IF i = m + 1 THEN Ring[t[m]][k] ELSE t[i]]
  <2>2. ASSUME NEW i \in 0..(m + 1)
        PROVE  u[i] = IF i = 0 THEN n ELSE Ring[u[i-1]][k]
    <3>1. CASE i = 0 BY <2>1, <3>1
    <3>2. CASE i = m + 1
      <4>1. i - 1 = m /\ m \in 0..(m + 1) /\ m # m + 1 BY <3>2
      <4> QED BY <3>2, <4>1
    <3>3. CASE i # 0 /\ i # m + 1
      <4>1. i \in 0..m /\ i - 1 \in 0..(m + 1) /\ i - 1 # m + 1 BY <3>3
      <4> QED BY <2>1, <3>3, <4>1
    <3> QED BY <3>1, <3>2, <3>3
  <2>3. IsRoute(m + 1, u)
    <3>1. u = [i \in 0..(m + 1) |-> u[i]] OBVIOUS
    <3> HIDE DEF u
    <3> QED BY <2>2, <3>1
  <2> HIDE DEF IsRoute
  <2> QED BY <2>3
<1>4. N \in S
  <2> HIDE DEF S, N
  <2> QED BY <1>1, <1>2, <1>3, AllNumbers
<1>5. r = CHOOSE t : IsRoute(N, t) OBVIOUS
<1>6. Route(n, k) = r BY DEF Route
<1>7. IsRoute(N, Route(n, k))
  <2> HIDE DEF IsRoute, r
  <2> QED BY <1>4, <1>5, <1>6
<1> HIDE DEF N
<1> QED BY <1>1, <1>7 DEF N

\* The route from the node that n names is n's route without n.
LEMMA RouteFromOwner ==
  ASSUME NEW n \in Nodes, NEW k \in Keys
  PROVE  /\ Ring[n][k] \in Nodes
         /\ \A i \in 0..(Cardinality(Nodes) - 1) :
              Route(Ring[n][k], k)[i] = Route(n, k)[i+1]
<1> DEFINE N == Cardinality(Nodes)
           a == Route(n, k)
           b == Route(Ring[n][k], k)
           S == {i \in Nat : i <= N - 1 => b[i] = a[i+1]}
<1>1. Ring[n][k] \in Nodes BY RingType
<1>2. /\ N \in Nat \ {0} /\ a[0] = n /\ \A i \in 1..N : a[i] = Ring[a[i-1]][k]
  BY RouteIs
<1>3. b[0] = Ring[n][k] /\ \A i \in 1..N : b[i] = Ring[b[i-1]][k]
  BY <1>1, RouteIs
<1> HIDE DEF N, a, b
<1>4. 0 \in S
  <2>1. 1 \in 1..N /\ 1 - 1 = 0 BY <1>2
  <2>2. a[1] = Ring[a[0]][k] BY <1>2, <2>1
  <2> QED BY <1>2, <1>3, <2>2
<1>5. ASSUME NEW i \in Nat, i \in S PROVE i + 1 \in S
  <2> SUFFICES ASSUME i + 1 <= N - 1 PROVE b[i+1] = a[i+1+1] OBVIOUS
  <2>1. b[i] = a[i+1] /\ i + 1 \in 1..N /\ i + 1 + 1 \in 1..N BY <1>2, <1>5
  <2>2. i + 1 - 1 = i /\ i + 1 + 1 - 1 = i + 1 OBVIOUS
  <2> QED BY <1>2, <1>3, <2>1, <2>2
<1>6. \A i \in Nat : i \in S
  <2> HIDE DEF S
  <2> QED BY <1>4, <1>5, AllNumbers
<1>7. \A i \in 0..(N - 1) : b[i] = a[i+1] BY <1>2, <1>6
<1> QED BY <1>1, <1>7 DEF N, a, b

\* From n the request for k needs i hops to be answered.
Meets(n, k, i) ==
  /\ i \in 0..(Cardinality(Nodes) - 1)
  /\ Route(n, k)[i+1] = Route(n, k)[i] \/ Route(n, k)[i+1] \notin Grouped \cup Unreachable
  /\ \A j \in 1..i : Route(n, k)[j] \in Grouped \ Unreachable

LEMMA RoutedMeets ==
  ASSUME NEW c \in Calls
  PROVE  c \in RoutedCalls <=> \E i \in Nat : Meets(c[1], c[2], i)
<1> DEFINE N == Cardinality(Nodes)
<1>1. c[1] \in Nodes /\ c[2] \in Keys BY ForwardedGet
<1>2. N \in Nat BY <1>1, RouteIs
<1>3. \A i \in 0..(N - 1) : i \in Nat BY <1>2
<1> QED BY <1>3 DEF RoutedCalls, Routed, Meets

\* The peer to which it is forwarded is up, and needs one hop less.
LEMMA OneHopLess ==
  ASSUME NEW n \in Nodes, NEW k \in Keys, NEW i \in Nat, Meets(n, k, i), Ring[n][k] # n
  PROVE  /\ Ring[n][k] \notin Unreachable
         /\ Ring[n][k] \in Grouped => i # 0 /\ i - 1 \in Nat /\ Meets(Ring[n][k], k, i - 1)
<1> DEFINE N == Cardinality(Nodes)
           a == Route(n, k)
           m == Ring[n][k]
           b == Route(m, k)
<1>1. N \in Nat \ {0} /\ a[0] = n /\ \A j \in 1..N : a[j] = Ring[a[j-1]][k]
  BY RouteIs
<1>2. \A j \in 0..(N - 1) : b[j] = a[j+1] BY RouteFromOwner
<1>3. /\ i \in 0..(N - 1)
      /\ a[i+1] = a[i] \/ a[i+1] \notin Grouped \cup Unreachable
      /\ \A j \in 1..i : a[j] \in Grouped \ Unreachable
  BY DEF Meets
<1>4. m # n OBVIOUS
<1>5. a[1] = m
  <2>1. 1 \in 1..N /\ 1 - 1 = 0 BY <1>1
  <2> QED BY <1>1, <2>1
<1> HIDE DEF N, a, b
<1>6. CASE i = 0
  <2>1. i + 1 = 1 BY <1>6
  <2>2. m \notin Grouped \cup Unreachable BY <1>1, <1>3, <1>4, <1>5, <1>6, <2>1
  <2> QED BY <2>2 DEF m
<1>7. CASE i # 0
  <2>1. i - 1 \in Nat /\ i - 1 \in 0..(N - 1) /\ 1 \in 1..i /\ i - 1 + 1 = i BY <1>1, <1>3, <1>7
  <2>2. m \in Grouped \ Unreachable BY <1>3, <1>5, <2>1
  <2>3. b[i] = a[i+1] /\ b[i-1] = a[i] BY <1>2, <1>3, <2>1
  <2>4. \A j \in 1..(i - 1) : b[j] \in Grouped \ Unreachable
    <3> TAKE j \in 1..(i - 1)
    <3>1. j \in 0..(N - 1) /\ j + 1 \in 1..i BY <1>1, <1>3
    <3> QED BY <1>2, <1>3, <3>1
  <2>5. Meets(m, k, i - 1)
    <3> HIDE DEF m
    <3> QED BY <1>3, <2>1, <2>3, <2>4 DEF Meets, N, b
  <2> QED BY <1>7, <2>1, <2>2, <2>5 DEF m
<1> QED BY <1>6, <1>7

\* A peer that is asked for a routed key is up, and the key is routed from it.
LEMMA RoutedOwner ==
  ASSUME NEW c \in RoutedCalls, Ring[c[1]][c[2]] # c[1]
  PROVE  /\ Ring[c[1]][c[2]] \notin Unreachable
         /\ Ring[c[1]][c[2]] \in Grouped => <<Ring[c[1]][c[2]], c[2]>> \in RoutedCalls
<1> DEFINE m == Ring[c[1]][c[2]]
<1>1. c \in Calls /\ c[1] \in Nodes /\ c[2] \in Keys BY ForwardedGet DEF RoutedCalls
<1>2. PICK i \in Nat : Meets(c[1], c[2], i) BY <1>1, RoutedMeets
<1>3. m \notin Unreachable /\ (m \in Grouped => i - 1 \in Nat /\ Meets(m, c[2], i - 1))
  BY <1>1, <1>2, OneHopLess
<1>4. m \in Grouped => <<m, c[2]>> \in Calls BY <1>1, ForwardedGet
<1> HIDE DEF m
<1>5. m \in Grouped => <<m, c[2]>> \in RoutedCalls BY <1>3, <1>4, RoutedMeets
<1> QED BY <1>3, <1>5 DEF m

\* The loads of a routed key keep to it.
LEMMA RoutesKept ==
  ASSUME IInv, HandlersOK, RoutesOK, [Next]_vars
  PROVE  RoutesOK'
<1> DEFINE OK(c) == /\ \A p \in Procs : want[p] = c => pc[p] # "panicked"
                    /\ flight[c] # None => want[flight[c]] = c /\ pc[flight[c]] \in Leading
                    /\ \A p \in Procs : want[p] = c /\ pc[p] = "waiting" =>
                         flight[c] # None /\ pc[flight[c]] # "forget"
<1> SUFFICES ASSUME NEW c \in RoutedCalls PROVE OK(c)' BY DEF RoutesOK
<1>0. c \in Calls /\ OK(c) BY DEF RoutesOK, RoutedCalls
<1>a. /\ "asking" \in Leading /\ "loading" \in Leading /\ "forget" \in Leading
      /\ {"sourcing", "done"} \subseteq Leading /\ "storing" \in Leading
      /\ {"idle", "looking", "entering", "waiting", "returning", "panicked"} \cap Leading = {}
  BY DEF Leading, Loading
<1> USE Control
<1>1. CASE UNCHANGED <<pc, want, flight>> BY <1>0, <1>1
<1>2. ASSUME NEW p \in Procs, Goes(p) PROVE OK(c)'
  BY <1>0, <1>a, <1>2 DEF Goes
<1>3. ASSUME NEW p \in Procs, Leads(p) PROVE OK(c)'
  BY <1>0, <1>a, <1>3 DEF Leads
<1>4. ASSUME NEW p \in Procs, Waits(p) PROVE OK(c)'
  <2>1. want[p] \in Calls /\ flight[want[p]] \in Procs BY <1>4 DEF Waits
  <2> QED BY <1>0, <1>a, <1>4, <2>1 DEF Waits
<1>5. ASSUME NEW p \in Procs, Forward(p) PROVE OK(c)'
  <2>1. /\ pc[p] = "loading" /\ pc[want[p]] = "idle" /\ flight' = flight
        /\ pc' = [pc EXCEPT ![p] = "asking", ![want[p]] = "looking"]
        /\ want' = [want EXCEPT ![want[p]] = <<OwnerOf(p), KeyOf(p)>>]
    BY <1>5 DEF Forward
  <2>2. want[p] \in Procs /\ want[p] # p BY <2>1
  <2>3. /\ pc'[p] = "asking" /\ pc'[want[p]] = "looking" /\ want'[p] = want[p]
        /\ \A q \in Procs : q # p /\ q # want[p] => pc'[q] = pc[q] /\ want'[q] = want[q]
    <3> HIDE DEF OwnerOf, KeyOf
    <3> QED BY <2>1, <2>2
  <2>4. flight[c] # None => flight[c] # want[p] BY <1>0, <1>a, <2>1
  <2> QED BY <1>0, <1>a, <2>1, <2>2, <2>3, <2>4
<1>6. ASSUME NEW p \in Procs, Panics(p) PROVE OK(c)'
  <2>1. want[p] \in Calls BY <1>6 DEF Panics
  <2>2. want[p] # c BY <1>6, RoutedOwner DEF Panics, OwnerOf, NodeOf, KeyOf
  <2>3. /\ pc' = [pc EXCEPT ![p] = "panicked"] /\ pc[p] = "loading"
        /\ want' = want /\ flight' = flight
    BY <1>6 DEF Panics
  <2> QED BY <1>0, <1>a, <2>2, <2>3
<1>7. ASSUME NEW p \in Procs, Frees(p) PROVE OK(c)'
  <2>1. PICK to \in {"panicked", "sourcing", "done"} :
            /\ pc[p] = "asking" /\ flight' = flight
            /\ pc[want[p]] = IF to = "panicked" THEN "panicked" ELSE "returning"
            /\ pc' = [pc EXCEPT ![p] = to, ![want[p]] = "idle"]
            /\ want' = [want EXCEPT ![want[p]] = None]
    BY <1>7 DEF Frees, FreeHandler
  <2>2. want[p] \in Calls /\ want[p] \in Procs /\ want[p] # p BY <2>1
  <2>3. /\ pc'[p] = to /\ pc'[want[p]] = "idle" /\ want'[p] = want[p]
        /\ want'[want[p]] = None
        /\ \A q \in Procs : q # p /\ q # want[p] => pc'[q] = pc[q] /\ want'[q] = want[q]
    BY <2>1, <2>2
  <2>4. flight[c] # want[p] BY <1>0, <1>a, <2>1, <2>2
  <2>5. want[p] = c => to # "panicked"
    <3> SUFFICES ASSUME want[p] = c, to = "panicked" PROVE FALSE OBVIOUS
    <3>1. /\ pc[want[p]] = "panicked" /\ want[want[p]] = <<OwnerOf(p), KeyOf(p)>>
          /\ OwnerOf(p) # NodeOf(p) /\ OwnerOf(p) \in Grouped
      BY <2>1 DEF HandlersOK
    <3>2. <<OwnerOf(p), KeyOf(p)>> \in RoutedCalls
      BY <3>1, RoutedOwner DEF OwnerOf, NodeOf, KeyOf
    <3> QED BY <2>2, <3>1, <3>2 DEF RoutesOK
  <2>6. to \in Leading \cup {"panicked"} /\ to # "waiting" /\ to # "forget"
    BY <1>a
  <2> QED BY <1>0, <1>a, <2>1, <2>2, <2>3, <2>4, <2>5, <2>6
<1>8. ASSUME NEW p \in Procs, Wakes(p) PROVE OK(c)'
  <2>1. want[p] \in Calls /\ flight[want[p]] = p BY <1>a, <1>8 DEF Wakes, Leading
  <2>2. /\ pc[p] = "done" /\ want' = want /\ flight' = flight /\ pc'[p] = "forget"
        /\ \A q \in Procs : q # p =>
             pc'[q] = IF pc[q] = "waiting" /\ want[q] = want[p] THEN "returning" ELSE pc[q]
    BY <1>8 DEF Wakes, Waiters
  <2> QED BY <1>0, <1>a, <2>1, <2>2
<1>9. ASSUME NEW p \in Procs, Forget(p) PROVE OK(c)'
  <2>1. /\ pc[p] = "forget" /\ pc' = [pc EXCEPT ![p] = "returning"] /\ want' = want
        /\ flight' = [flight EXCEPT ![want[p]] = None]
    BY <1>9 DEF Forget, Goto
  <2>2. want[p] \in Calls /\ flight[want[p]] = p BY <1>a, <2>1
  <2> QED BY <1>0, <1>a, <2>1, <2>2
<1>10. ASSUME NEW p \in Clients, Starts(p) PROVE OK(c)'
  BY <1>0, <1>a, <1>10 DEF Starts
<1>11. ASSUME NEW p \in Clients, Return(p) PROVE OK(c)'
  BY <1>0, <1>a, <1>11 DEF Return, Goto
<1> HIDE DEF OK
<1> QED BY <1>1, <1>2, <1>3, <1>4, <1>5, <1>6, <1>7, <1>8, <1>9, <1>10, <1>11, ControlSteps

\* A deadlock with a Get of a routed key has another one, a hop nearer to the
\* answer: behind the leader of its call is the handler of the leader's request.
LEMMA NearerInDeadlock ==
  ASSUME IInv, HandlersOK, RoutesOK, NEW S \in SUBSET Procs, Deadlock(S),
         NEW p \in S, want[p] \in RoutedCalls,
         NEW i \in Nat, Meets(NodeOf(p), KeyOf(p), i)
  PROVE  \E q \in S : /\ want[q] \in RoutedCalls /\ i - 1 \in Nat
                      /\ Meets(NodeOf(q), KeyOf(q), i - 1)
<1> USE Control
<1>1. p \in Procs /\ want[p] \in Calls /\ pc[p] # "idle" /\ ~CanStep(p) /\ WaitsOn(p) \in S
  BY DEF Deadlock, RoutedCalls
<1>2. ASSUME NEW l \in S, want[l] = want[p], pc[l] \in Leading
      PROVE  \E q \in S : /\ want[q] \in RoutedCalls /\ i - 1 \in Nat
                          /\ Meets(NodeOf(q), KeyOf(q), i - 1)
  <2>1. l \in Procs /\ ~CanStep(l) /\ WaitsOn(l) \in S BY <1>2 DEF Deadlock
  <2>2. pc[l] # "loading"
    <3> SUFFICES ASSUME pc[l] = "loading" PROVE FALSE OBVIOUS
    <3>1. want[l] \in Calls /\ flight[want[l]] = l BY <1>2, <2>1
    <3>2. pc[want[l]] = "idle" BY <3>1 DEF HandlersOK
    <3> QED BY <2>1, <3>2 DEF CanStep
  <2>3. pc[l] = "asking" BY <1>2, <2>1, <2>2 DEF CanStep, Leading, Loading
  <2> DEFINE h == want[l]
  <2>4. h \in S BY <2>1, <2>3 DEF WaitsOn
  <2>5. want[h] = <<OwnerOf(l), KeyOf(l)>> /\ OwnerOf(l) # NodeOf(l) /\ OwnerOf(l) \in Grouped
    BY <2>1, <2>3 DEF HandlersOK
  <2>6. NodeOf(l) = NodeOf(p) /\ KeyOf(l) = KeyOf(p) BY <1>2 DEF NodeOf, KeyOf
  <2>7. want[h] \in RoutedCalls
    BY <1>2, <2>5, RoutedOwner DEF OwnerOf, NodeOf, KeyOf
  <2>8. NodeOf(l) \in Nodes /\ KeyOf(l) \in Keys
    BY <1>1, <1>2, ForwardedGet DEF NodeOf, KeyOf
  <2>9. i - 1 \in Nat /\ Meets(OwnerOf(l), KeyOf(l), i - 1)
    BY <2>5, <2>6, <2>8, OneHopLess DEF OwnerOf
  <2>10. NodeOf(h) = OwnerOf(l) /\ KeyOf(h) = KeyOf(l)
    <3> HIDE DEF h
    <3> QED BY <2>5 DEF NodeOf, KeyOf
  <2> HIDE DEF h
  <2> QED BY <2>4, <2>7, <2>9, <2>10
<1>3. CASE pc[p] = "waiting"
  <2>1. /\ flight[want[p]] # None /\ want[flight[want[p]]] = want[p]
        /\ pc[flight[want[p]]] \in Leading
    BY <1>1, <1>3 DEF RoutesOK
  <2>2. flight[want[p]] \in S BY <1>1, <1>3 DEF WaitsOn
  <2> QED BY <1>2, <2>1, <2>2
<1>4. CASE pc[p] \in Leading BY <1>2, <1>4
<1>5. CASE pc[p] = "returning"
  <2>1. p \in Calls BY <1>1, <1>5 DEF CanStep, Procs
  <2>2. pc[flight[p]] = "asking" /\ want[flight[p]] = p BY <1>5, <2>1 DEF HandlersOK
  <2>3. flight[p] \in S BY <1>1, <1>5 DEF WaitsOn
  <2>4. CanStep(flight[p]) BY <1>5, <2>2 DEF CanStep
  <2> QED BY <2>3, <2>4 DEF Deadlock
<1>6. pc[p] # "panicked" BY <1>1 DEF RoutesOK
<1>7. pc[p] \in PCs /\ pc[p] \notin {"looking", "entering"} BY <1>1 DEF CanStep
<1> QED BY <1>1, <1>3, <1>4, <1>5, <1>6, <1>7 DEF PCs, Leading

\* For every ring, whatever loads of other keys wait for each other or have
\* panicked: no Get of a routed key is stuck.
THEOREM RoutedGetsNeverStuck == Spec => []RoutesNeverStuck
<1>1. Init => HandlersOK /\ RoutesOK
  <2> SUFFICES ASSUME Init PROVE HandlersOK /\ RoutesOK OBVIOUS
  <2>1. \A c \in RoutedCalls : c \in Calls BY DEF RoutedCalls
  <2>2. Calls \subseteq Procs BY DEF Procs
  <2> QED BY <2>1, <2>2 DEF Init, HandlersOK, RoutesOK
<1>2. IInv /\ HandlersOK /\ RoutesOK /\ [Next]_vars => (HandlersOK /\ RoutesOK)'
  BY HandlersKept, RoutesKept
<1>3. IInv /\ HandlersOK /\ RoutesOK => RoutesNeverStuck
  <2> SUFFICES ASSUME IInv, HandlersOK, RoutesOK, NEW S \in SUBSET Procs, Deadlock(S),
                      NEW p \in S, want[p] \in RoutedCalls
               PROVE  FALSE
    BY DEF RoutesNeverStuck
  <2> DEFINE Hops == {i \in Nat : \E q \in S : /\ want[q] \in RoutedCalls
                                               /\ Meets(NodeOf(q), KeyOf(q), i)}
  <2>1. \E i \in Nat : Meets(NodeOf(p), KeyOf(p), i)
    <3>1. want[p] \in Calls BY DEF RoutedCalls
    <3> QED BY <3>1, RoutedMeets DEF NodeOf, KeyOf
  <2>2. Hops \subseteq Nat /\ Hops # {} BY <2>1
  <2>3. PICK i \in Hops : \A j \in Hops : i <= j
    <3> HIDE DEF Hops
    <3> QED BY <2>2, LeastNumber
  <2>4. PICK q \in S : want[q] \in RoutedCalls /\ Meets(NodeOf(q), KeyOf(q), i)
    BY <2>3
  <2>5. i - 1 \in Hops BY <2>2, <2>4, NearerInDeadlock
  <2>6. i \in Nat BY <2>2
  <2> HIDE DEF Hops
  <2> QED BY <2>3, <2>5, <2>6
<1> QED BY <1>1, <1>2, <1>3, Invariant, PTL DEF Spec

-----------------------------------------------------------------------------
(* The ring.  First sort.Ints: Sorted(s) holds the values of s, in order.  *)

\* Min and Max of a set of numbers are its least and its greatest member.
LEMMA MinIsLeast ==
  ASSUME NEW T, T \subseteq Nat, T # {}
  PROVE  Min(T) \in T /\ \A y \in T : Min(T) <= y
<1>1. PICK x \in T : \A y \in T : x <= y BY LeastNumber
<1> QED BY <1>1 DEF Min

LEMMA MaxIsGreatest ==
  ASSUME NEW T, T \subseteq Nat, T # {}, NEW b \in Nat, \A y \in T : y <= b
  PROVE  Max(T) \in T /\ \A y \in T : Max(T) >= y
<1> DEFINE U == {u \in Nat : \A y \in T : y <= u}
<1>1. U \subseteq Nat /\ b \in U OBVIOUS
<1>2. PICK x \in U : \A y \in U : x <= y
  <2> HIDE DEF U
  <2> QED BY <1>1, LeastNumber
<1>3. x \in T
  <2> SUFFICES ASSUME x \notin T PROVE FALSE OBVIOUS
  <2>1. x \in Nat /\ \A y \in T : y < x BY <1>2
  <2>2. x # 0
    <3>1. PICK y \in T : TRUE OBVIOUS
    <3> QED BY <2>1, <3>1
  <2>3. x - 1 \in U BY <2>1, <2>2
  <2> QED BY <2>1, <2>2, <2>3, <1>2
<1>4. \A y \in T : x >= y BY <1>2
<1> QED BY <1>3, <1>4 DEF Max

\* What a sequence of hashes consists of.
LEMMA HashesIn ==
  ASSUME NEW s \in Seq(Hashes)
  PROVE  /\ DOMAIN s = 1..Len(s) /\ Len(s) \in Nat
         /\ \A j \in DOMAIN s : s[j] \in Hashes /\ s[j] \in Nat /\ s[j] <= MaxHash
<1>1. \A j \in DOMAIN s : s[j] \in Hashes OBVIOUS
<1>2. \A x \in Hashes : x \in Nat /\ x <= MaxHash BY RingBounds DEF Hashes
<1> QED BY <1>1, <1>2

\* The positions of s whose value is at most h.
UpTo(s, h) == {j \in DOMAIN s : s[j] <= h}

\* A larger bound takes in more positions, and no fewer.
LEMMA MoreUpTo ==
  ASSUME NEW s \in Seq(Hashes), NEW g \in Nat, NEW h \in Nat, g <= h
  PROVE  /\ Cardinality(UpTo(s, g)) \in Nat
         /\ Cardinality(UpTo(s, g)) <= Cardinality(UpTo(s, h))
         /\ Cardinality(UpTo(s, h)) <= Len(s)
         /\ (\E j \in DOMAIN s : g < s[j] /\ s[j] <= h) =>
               Cardinality(UpTo(s, g)) < Cardinality(UpTo(s, h))
<1>1. DOMAIN s = 1..Len(s) /\ Len(s) \in Nat /\ \A j \in DOMAIN s : s[j] \in Int
  BY HashesIn
<1>2. IsFiniteSet(1..Len(s)) /\ Cardinality(1..Len(s)) = Len(s)
  BY <1>1, FS_Interval
<1>3. UpTo(s, h) \subseteq 1..Len(s) BY <1>1 DEF UpTo
<1>4. UpTo(s, g) \subseteq UpTo(s, h) BY <1>1 DEF UpTo
<1>5. /\ IsFiniteSet(UpTo(s, h)) /\ Cardinality(UpTo(s, h)) <= Len(s)
  BY <1>2, <1>3, FS_Subset
<1>6. /\ IsFiniteSet(UpTo(s, g)) 
      /\ Cardinality(UpTo(s, g)) <= Cardinality(UpTo(s, h))
      /\ Cardinality(UpTo(s, h)) = Cardinality(UpTo(s, g)) => UpTo(s, h) = UpTo(s, g)
  BY <1>4, <1>5, FS_Subset
<1>7. Cardinality(UpTo(s, g)) \in Nat /\ Cardinality(UpTo(s, h)) \in Nat
  BY <1>5, <1>6, FS_CardinalityType
<1>8. ASSUME NEW j \in DOMAIN s, g < s[j], s[j] <= h
      PROVE  UpTo(s, h) # UpTo(s, g)
  <2>1. j \in UpTo(s, h) BY <1>8 DEF UpTo
  <2>2. j \notin UpTo(s, g) BY <1>8, <1>1 DEF UpTo
  <2> QED BY <2>1, <2>2
<1> QED BY <1>5, <1>6, <1>7, <1>8

\* The values that place i of the sorted sequence is the least of.
Enough(s, i) == {h \in ToSet(s) : Cardinality(UpTo(s, h)) >= i}

LEMMA SortedPlaces ==
  ASSUME NEW s \in Seq(Hashes)
  PROVE  \A i \in DOMAIN s :
            /\ Sorted(s)[i] \in Enough(s, i)
            /\ \A h \in Enough(s, i) : Sorted(s)[i] <= h
<1> SUFFICES ASSUME NEW i \in DOMAIN s
             PROVE  /\ Sorted(s)[i] \in Enough(s, i)
                    /\ \A h \in Enough(s, i) : Sorted(s)[i] <= h
  OBVIOUS
<1>1. DOMAIN s = 1..Len(s) /\ Len(s) \in Nat OBVIOUS
<1>2. ToSet(s) \subseteq Nat /\ \A x \in ToSet(s) : x <= MaxHash
  BY RingBounds DEF ToSet, Hashes
<1>3. s[i] \in ToSet(s) BY DEF ToSet
<1>4. Max(ToSet(s)) \in ToSet(s) /\ \A y \in ToSet(s) : Max(ToSet(s)) >= y
  BY <1>2, <1>3, RingBounds, MaxIsGreatest
<1>5. \A j \in DOMAIN s : s[j] <= Max(ToSet(s)) BY <1>4 DEF ToSet
<1>6. UpTo(s, Max(ToSet(s))) = 1..Len(s) BY <1>1, <1>5 DEF UpTo
<1>7. Cardinality(1..Len(s)) = Len(s)
  <2>1. Cardinality(1..Len(s)) = IF 1 > Len(s) THEN 0 ELSE Len(s) - 1 + 1
    BY <1>1, FS_Interval
  <2> QED BY <1>1, <2>1
<1>8. Max(ToSet(s)) \in Enough(s, i) BY <1>1, <1>4, <1>6, <1>7 DEF Enough
<1>9. Enough(s, i) \subseteq Nat BY <1>2 DEF Enough
<1>10. Sorted(s)[i] = Min(Enough(s, i)) BY DEF Sorted, Enough, UpTo
<1> QED BY <1>8, <1>9, <1>10, MinIsLeast

LEMMA SortedIsSorted ==
  ASSUME NEW s \in Seq(Hashes)
  PROVE  /\ Sorted(s) \in Seq(Hashes) /\ Len(Sorted(s)) = Len(s)
         /\ ToSet(Sorted(s)) = ToSet(s) /\ Ordered(Sorted(s))
<1>1. DOMAIN s = 1..Len(s) /\ Len(s) \in Nat OBVIOUS
<1>2. ToSet(s) \subseteq Hashes /\ Hashes \subseteq Nat BY HashesIn DEF ToSet, Hashes
<1>3. DOMAIN Sorted(s) = DOMAIN s BY DEF Sorted
<1>4. \A i \in DOMAIN s : Sorted(s)[i] \in ToSet(s) BY SortedPlaces DEF Enough
<1>5. Sorted(s) \in Seq(Hashes) /\ Len(Sorted(s)) = Len(s)
  <2>1. Sorted(s) = [i \in 1..Len(s) |-> Sorted(s)[i]] BY <1>1 DEF Sorted
  <2>2. Sorted(s) \in [1..Len(s) -> Hashes] BY <1>1, <1>2, <1>4, <2>1
  <2> HIDE DEF Sorted
  <2> QED BY <1>1, <2>2
<1>6. ToSet(Sorted(s)) \subseteq ToSet(s) BY <1>3, <1>4 DEF ToSet
<1>7. ASSUME NEW j \in DOMAIN s PROVE s[j] \in ToSet(Sorted(s))
  <2> DEFINE i == Cardinality(UpTo(s, s[j]))
  <2>1. s[j] \in ToSet(s) /\ s[j] \in Nat BY <1>2, <1>7 DEF ToSet
  <2>2. i \in Nat /\ i <= Len(s) BY <2>1, MoreUpTo
  <2>3. i # 0
    <3>1. j \in UpTo(s, s[j]) BY <1>7, <2>1 DEF UpTo
    <3>2. UpTo(s, s[j]) \subseteq 1..Len(s) BY <1>1 DEF UpTo
    <3>3. IsFiniteSet(1..Len(s)) BY <1>1, FS_Interval
    <3>4. IsFiniteSet(UpTo(s, s[j])) BY <3>2, <3>3, FS_Subset
    <3> QED BY <3>1, <3>4, FS_EmptySet
  <2>4. i \in DOMAIN s BY <1>1, <2>2, <2>3
  <2>5. s[j] \in Enough(s, i) BY <2>1, <2>2 DEF Enough
  <2> HIDE DEF i
  <2>6. Sorted(s)[i] <= s[j] BY <2>4, <2>5, SortedPlaces
  <2>7. Sorted(s)[i] \in Nat /\ i <= Cardinality(UpTo(s, Sorted(s)[i]))
    BY <1>2, <2>4, SortedPlaces DEF Enough
  <2>8. ~(Sorted(s)[i] < s[j])
    <3> SUFFICES ASSUME Sorted(s)[i] < s[j] PROVE FALSE OBVIOUS
    <3>1. Cardinality(UpTo(s, Sorted(s)[i])) < Cardinality(UpTo(s, s[j]))
      BY <1>7, <2>1, <2>7, MoreUpTo
    <3>2. Cardinality(UpTo(s, Sorted(s)[i])) \in Nat BY <2>1, <2>7, <2>6, MoreUpTo
    <3> QED BY <3>1, <3>2, <2>7, <2>2 DEF i
  <2>9. Sorted(s)[i] = s[j] BY <2>1, <2>6, <2>7, <2>8
  <2> QED BY <1>3, <2>4, <2>9 DEF ToSet
<1>8. ToSet(s) \subseteq ToSet(Sorted(s)) BY <1>7 DEF ToSet
<1>9. ASSUME NEW i \in DOMAIN s, NEW j \in DOMAIN s, i <= j
      PROVE  Sorted(s)[i] <= Sorted(s)[j]
  <2>1. Sorted(s)[j] \in Enough(s, j) BY <1>9, SortedPlaces
  <2>2. Sorted(s)[j] \in Nat BY <1>2, <1>4, <1>9
  <2>3. Cardinality(UpTo(s, Sorted(s)[j])) \in Nat BY <2>2, MoreUpTo
  <2>4. Sorted(s)[j] \in Enough(s, i) BY <1>1, <1>9, <2>1, <2>3 DEF Enough
  <2> QED BY <1>9, <2>4, SortedPlaces
<1> QED BY <1>3, <1>5, <1>6, <1>8, <1>9 DEF Ordered
-----------------------------------------------------------------------------
(* sort.Search on a sorted sequence: the number of values below h.         *)
Cuts(s, h, c) ==
  /\ c \in 0..Len(s)
  /\ \A k \in 1..c : s[k] < h
  /\ \A k \in (c + 1)..Len(s) : s[k] >= h

LEMMA CutExists ==
  ASSUME NEW s \in Seq(Hashes), Ordered(s), NEW h \in Nat
  PROVE  \E c \in 0..Len(s) : Cuts(s, h, c)
<1> DEFINE T == {x \in 0..Len(s) : \A k \in (x + 1)..Len(s) : s[k] >= h}
<1>1. Len(s) \in Nat /\ DOMAIN s = 1..Len(s) /\ \A k \in 1..Len(s) : s[k] \in Nat
  BY HashesIn
<1>2. T \subseteq Nat /\ Len(s) \in T BY <1>1
<1>3. PICK c \in T : \A y \in T : c <= y
  <2> HIDE DEF T
  <2> QED BY <1>2, LeastNumber
<1>4. c \in 0..Len(s) /\ \A k \in (c + 1)..Len(s) : s[k] >= h BY <1>3
<1>5. ASSUME c > 0 PROVE s[c] < h
  <2> SUFFICES ASSUME s[c] >= h PROVE FALSE BY <1>1, <1>4, <1>5
  <2>1. \A k \in ((c - 1) + 1)..Len(s) : s[k] >= h BY <1>4, <1>5
  <2>2. c - 1 \in T BY <1>4, <1>5, <2>1
  <2> QED BY <1>3, <1>4, <2>2
<1>6. \A k \in 1..c : s[k] <= s[c]
  <2>1. \A k \in 1..c : k \in DOMAIN s /\ c \in DOMAIN s /\ k <= c BY <1>1, <1>4
  <2> QED BY <2>1 DEF Ordered
<1>7. \A k \in 1..c : s[k] < h
  <2> TAKE k \in 1..c
  <2>1. c > 0 /\ s[k] <= s[c] /\ s[k] \in Nat /\ s[c] \in Nat BY <1>1, <1>4, <1>6
  <2> QED BY <1>5, <2>1
<1> QED BY <1>4, <1>7 DEF Cuts

\* Where the search between i and j ends, if the values from c on are those
\* that are at least h.
Clamp(c, i, j) == IF i >= j \/ c <= i THEN i ELSE IF c >= j THEN j ELSE c

LEMMA HalvesAgree ==
  ASSUME NEW s \in Seq(Hashes), NEW h \in Nat, NEW c, Cuts(s, h, c),
         NEW i \in 0..Len(s), NEW j \in 0..Len(s), i < j
  PROVE  /\ (i + j) \div 2 \in i..(j - 1)
         /\ Clamp(c, i, j) = IF s[(i + j) \div 2 + 1] >= h
                             THEN Clamp(c, i, (i + j) \div 2)
                             ELSE Clamp(c, (i + j) \div 2 + 1, j)
<1>1. Len(s) \in Nat /\ i \in Nat /\ j \in Nat /\ j <= Len(s) OBVIOUS
<1>2. PICK mid \in Nat : mid = (i + j) \div 2 BY <1>1
<1>3. mid \in i..(j - 1) BY <1>1, <1>2
<1>4. c \in Nat /\ mid + 1 \in 1..Len(s) /\ s[mid + 1] \in Nat
  BY <1>1, <1>3, HashesIn DEF Cuts
<1>5. s[mid + 1] >= h <=> c <= mid
  BY <1>1, <1>3, <1>4 DEF Cuts
<1>6. Clamp(c, i, j) = IF c <= mid THEN Clamp(c, i, mid) ELSE Clamp(c, mid + 1, j)
  BY <1>1, <1>3, <1>4 DEF Clamp
<1> QED BY <1>2, <1>3, <1>5, <1>6

LEMMA SearchFindsCut ==
  ASSUME NEW s \in Seq(Hashes), NEW h \in Nat, NEW c, Cuts(s, h, c)
  PROVE  Search(s, h) = c
<1> DEFINE D == (0..Len(s)) \X (0..Len(s))
           Mid(r) == (r[1] + r[2]) \div 2
           Eq(f) == f = [r \in D |->
                       IF r[1] >= r[2] THEN r[1]
                       ELSE IF s[Mid(r) + 1] >= h THEN f[<<r[1], Mid(r)>>]
                                                  ELSE f[<<Mid(r) + 1, r[2]>>]]
           g == [r \in D |-> Clamp(c, r[1], r[2])]
           find == CHOOSE f : Eq(f)
<1>1. Search(s, h) = find[<<0, Len(s)>>] BY DEF Search
<1>2. Len(s) \in Nat /\ c \in 0..Len(s) BY DEF Cuts
<1>3. ASSUME NEW i \in 0..Len(s), NEW j \in 0..Len(s), i < j
      PROVE  /\ <<i, (i + j) \div 2>> \in D /\ <<(i + j) \div 2 + 1, j>> \in D
             /\ (i + j) \div 2 \in Nat /\ i <= (i + j) \div 2 /\ (i + j) \div 2 < j
  <2>1. (i + j) \div 2 \in i..(j - 1) BY <1>3, HalvesAgree
  <2> QED BY <1>2, <1>3, <2>1
<1>4. Eq(g)
  <2>1. ASSUME NEW r \in D
        PROVE  g[r] = IF r[1] >= r[2] THEN r[1]
                      ELSE IF s[Mid(r) + 1] >= h THEN g[<<r[1], Mid(r)>>]
                                                 ELSE g[<<Mid(r) + 1, r[2]>>]
    <3> DEFINE i == r[1]
               j == r[2]
    <3>1. i \in 0..Len(s) /\ j \in 0..Len(s) /\ g[r] = Clamp(c, i, j) BY <2>1
    <3> HIDE DEF i, j
    <3>2. CASE i >= j BY <3>1, <3>2 DEF Clamp, i, j
    <3>3. CASE i < j
      <4>1. /\ g[<<i, (i + j) \div 2>>] = Clamp(c, i, (i + j) \div 2)
            /\ g[<<(i + j) \div 2 + 1, j>>] = Clamp(c, (i + j) \div 2 + 1, j)
        BY <1>3, <3>1, <3>3
      <4> HIDE DEF g
      <4>2. g[r] = IF s[(i + j) \div 2 + 1] >= h THEN g[<<i, (i + j) \div 2>>]
                                                  ELSE g[<<(i + j) \div 2 + 1, j>>]
        BY <3>1, <3>3, <4>1, HalvesAgree
      <4> QED BY <3>1, <3>3, <4>2 DEF i, j
    <3> QED BY <3>1, <3>2, <3>3
  <2> DEFINE rhs == [r \in D |->
                       IF r[1] >= r[2] THEN r[1]
                       ELSE IF s[Mid(r) + 1] >= h THEN g[<<r[1], Mid(r)>>]
                                                  ELSE g[<<Mid(r) + 1, r[2]>>]]
  <2>2. \A r \in D : g[r] = rhs[r] BY <2>1
  <2>3. g = [r \in D |-> g[r]] /\ rhs = [r \in D |-> rhs[r]] OBVIOUS
  <2>4. g = rhs
    <3> HIDE DEF g, rhs, D
    <3> QED BY <2>2, <2>3
  <2> QED BY <2>4
<1>5. Eq(find)
  <2> HIDE DEF Eq, g
  <2> QED BY <1>4
<1>6. ASSUME NEW i \in 0..Len(s), NEW j \in 0..Len(s)
      PROVE  find[<<i, j>>] =
               IF i >= j THEN i
               ELSE IF s[(i + j) \div 2 + 1] >= h THEN find[<<i, (i + j) \div 2>>]
                                                  ELSE find[<<(i + j) \div 2 + 1, j>>]
  <2>1. <<i, j>> \in D BY <1>6
  <2> HIDE DEF find
  <2> QED BY <1>5, <2>1
<1> HIDE DEF find
<1> DEFINE Found(d) == \A i, j \in 0..Len(s) :
                         i <= j /\ j - i <= d => find[<<i, j>>] = Clamp(c, i, j)
           S == {d \in Nat : Found(d)}
<1>7. 0 \in S
  <2>1. ASSUME NEW i \in 0..Len(s), NEW j \in 0..Len(s), i <= j, j - i <= 0
        PROVE  find[<<i, j>>] = Clamp(c, i, j)
    <3>1. i >= j BY <1>2, <2>1
    <3> QED BY <1>6, <3>1 DEF Clamp
  <2> QED BY <2>1
<1>8. \A d \in Nat : d \in S => d + 1 \in S
  <2> HIDE DEF Found
  <2> SUFFICES ASSUME NEW d \in Nat, Found(d) PROVE Found(d + 1) OBVIOUS
  <2> USE DEF Found
  <2> SUFFICES ASSUME NEW i \in 0..Len(s), NEW j \in 0..Len(s), i <= j, j - i <= d + 1
               PROVE  find[<<i, j>>] = Clamp(c, i, j)
    OBVIOUS
  <2>1. CASE i >= j BY <1>6, <2>1 DEF Clamp
  <2>2. CASE i < j
    <3>1. PICK mid \in Nat : mid = (i + j) \div 2 BY <1>3, <2>2
    <3>2. i <= mid /\ mid < j BY <1>3, <2>2, <3>1
    <3>3. /\ mid \in 0..Len(s) /\ mid + 1 \in 0..Len(s)
          /\ mid - i <= d /\ j - (mid + 1) <= d /\ mid + 1 <= j
      BY <1>2, <3>2
    <3>4. /\ find[<<i, mid>>] = Clamp(c, i, mid)
          /\ find[<<mid + 1, j>>] = Clamp(c, mid + 1, j)
      BY <3>2, <3>3
    <3>5. Clamp(c, i, j) = IF s[mid + 1] >= h THEN Clamp(c, i, mid)
                                               ELSE Clamp(c, mid + 1, j)
      BY <2>2, <3>1, HalvesAgree
    <3>6. ~(i >= j) BY <1>2, <2>2
    <3> QED BY <1>6, <3>1, <3>4, <3>5, <3>6
  <2> QED BY <1>2, <2>1, <2>2
<1>9. \A d \in Nat : d \in S
  <2> HIDE DEF S
  <2> QED BY <1>7, <1>8, AllNumbers
<1>10. find[<<0, Len(s)>>] = Clamp(c, 0, Len(s)) BY <1>2, <1>9
<1> QED BY <1>1, <1>2, <1>10 DEF Clamp
-----------------------------------------------------------------------------
(* The ring: what a process has when it has added its peers.               *)

\* The points of a peer, and the peers of a process that have a point at h.
At(n, h) == {i \in DOMAIN added[n] : h \in ToSet(HashesOf(added[n][i]))}

LEMMA PointsOfPeer ==
  ASSUME RingStateOK, NEW m \in Peers
  PROVE  /\ HashesOf(m) \in Seq(Hashes) /\ Len(HashesOf(m)) = Replicas + 1
         /\ ToSet(HashesOf(m)) \subseteq Hashes /\ ToSet(HashesOf(m)) # {}
<1>1. \A i \in 1..(Replicas + 1) : <<m, i - 1>> \in Points
  BY RingBounds DEF Points
<1>2. \A i \in 1..(Replicas + 1) : hash[<<m, i - 1>>] \in Hashes
  BY <1>1 DEF RingStateOK
<1>3. HashesOf(m) \in [1..(Replicas + 1) -> Hashes] BY <1>2 DEF HashesOf
<1>4. Replicas + 1 \in Nat /\ 1 \in 1..(Replicas + 1) BY RingBounds
<1>5. HashesOf(m) \in Seq(Hashes) /\ Len(HashesOf(m)) = Replicas + 1
  BY <1>3, <1>4
<1>6. HashesOf(m)[1] \in ToSet(HashesOf(m)) BY <1>3, <1>4 DEF ToSet
<1> QED BY <1>3, <1>5, <1>6 DEF ToSet

\* The last place of the list at which a peer with a point at h stands.
LEMMA LastPlace ==
  ASSUME RingStateOK, NEW n \in Processes, NEW h
  PROVE  /\ h \in Circle(n) <=> At(n, h) # {}
         /\ At(n, h) # {} => /\ Max(At(n, h)) \in At(n, h)
                             /\ \A y \in At(n, h) : Max(At(n, h)) >= y
         /\ LastAt(n, h) = added[n][Max(At(n, h))]
<1>1. added[n] \in Seq(Peers) BY DEF RingStateOK
<1>2. DOMAIN added[n] = 1..Len(added[n]) /\ Len(added[n]) \in Nat BY <1>1
<1>3. At(n, h) \subseteq Nat /\ \A y \in At(n, h) : y <= Len(added[n])
  BY <1>2 DEF At
<1>4. h \in Circle(n) <=> At(n, h) # {} BY DEF Circle, At
<1>5. LastAt(n, h) = added[n][Max(At(n, h))] BY DEF LastAt, At
<1> QED BY <1>2, <1>3, <1>4, <1>5, MaxIsGreatest

\* The clockwise successor of h on the circle of n.
After(n, h) == {x \in Circle(n) : x >= h}
Successor(n, h) == Min(IF After(n, h) = {} THEN Circle(n) ELSE After(n, h))

LEMMA CircleIsOfHashes ==
  ASSUME RingStateOK, NEW n \in Processes
  PROVE  Circle(n) \subseteq Hashes /\ Circle(n) \subseteq Nat
         /\ (Circle(n) = {} <=> added[n] = <<>>)
<1>1. added[n] \in Seq(Peers) BY DEF RingStateOK
<1>2. \A i \in DOMAIN added[n] : added[n][i] \in Peers BY <1>1
<1>3. \A i \in DOMAIN added[n] : /\ ToSet(HashesOf(added[n][i])) \subseteq Hashes
                                 /\ ToSet(HashesOf(added[n][i])) # {}
  BY <1>2, PointsOfPeer
<1>4. Circle(n) \subseteq Hashes BY <1>3 DEF Circle
<1>5. Hashes \subseteq Nat BY DEF Hashes
<1>6. ASSUME added[n] # <<>> PROVE Circle(n) # {}
  <2>1. 1 \in DOMAIN added[n] BY <1>1, <1>6
  <2> QED BY <1>3, <2>1 DEF Circle
<1>7. added[n] = <<>> => Circle(n) = {} BY DEF Circle
<1> QED BY <1>4, <1>5, <1>6, <1>7

LEMMA SuccessorIs ==
  ASSUME RingStateOK, NEW n \in Processes, NEW h \in Hashes, Circle(n) # {}
  PROVE  /\ Successor(n, h) \in Circle(n)
         /\ After(n, h) = {} => \A x \in Circle(n) : Successor(n, h) <= x
         /\ After(n, h) # {} => /\ Successor(n, h) \in After(n, h)
                                /\ \A x \in After(n, h) : Successor(n, h) <= x
<1>1. Circle(n) \subseteq Nat /\ After(n, h) \subseteq Circle(n)
  BY CircleIsOfHashes DEF After
<1>2. CASE After(n, h) = {} BY <1>1, <1>2, MinIsLeast DEF Successor
<1>3. CASE After(n, h) # {} BY <1>1, <1>3, MinIsLeast DEF Successor
<1> QED BY <1>2, <1>3

\* The key that the search on sorted keys ends at: the first at or after h, or
\* the first of all.
FirstKey(s, h) == s[(Search(s, h) % Len(s)) + 1]

LEMMA FirstKeyIs ==
  ASSUME NEW s \in Seq(Hashes), Ordered(s), s # <<>>, NEW h \in Hashes
  PROVE  /\ FirstKey(s, h) \in ToSet(s)
         /\ (\A x \in ToSet(s) : x < h) => \A x \in ToSet(s) : FirstKey(s, h) <= x
         /\ (\E x \in ToSet(s) : x >= h) =>
              /\ FirstKey(s, h) >= h
              /\ \A x \in ToSet(s) : x >= h => FirstKey(s, h) <= x
<1>1. h \in Nat BY DEF Hashes
<1>2. PICK c \in 0..Len(s) : Cuts(s, h, c) BY <1>1, CutExists
<1>3. Search(s, h) = c BY <1>1, <1>2, SearchFindsCut
<1>4. /\ DOMAIN s = 1..Len(s) /\ Len(s) \in Nat /\ Len(s) > 0
      /\ \A k \in DOMAIN s : s[k] \in Nat
  BY HashesIn
<1>5. CASE c = Len(s)
  <2>1. (c % Len(s)) + 1 = 1 /\ 1 \in DOMAIN s BY <1>4, <1>5
  <2>2. FirstKey(s, h) = s[1] BY <1>3, <2>1 DEF FirstKey
  <2>3. \A k \in DOMAIN s : s[k] < h /\ ~(s[k] >= h) BY <1>1, <1>2, <1>4, <1>5 DEF Cuts
  <2>4. \A k \in DOMAIN s : s[1] <= s[k] BY <1>4, <2>1 DEF Ordered
  <2> QED BY <2>1, <2>2, <2>3, <2>4 DEF ToSet
<1>6. CASE c < Len(s)
  <2>1. c \in Nat /\ (c % Len(s)) + 1 = c + 1
    <3>1. c \in Nat /\ Len(s) \in Nat BY <1>2, <1>4
    <3>2. c % Len(s) = c BY <1>6, <3>1
    <3> QED BY <3>1, <3>2
  <2>2. c + 1 \in DOMAIN s BY <1>4, <1>6, <2>1
  <2>3. FirstKey(s, h) = s[c + 1] BY <1>3, <2>1 DEF FirstKey
  <2>4. s[c + 1] >= h /\ ~(s[c + 1] < h) BY <1>1, <1>2, <1>4, <2>1, <2>2 DEF Cuts
  <2>5. ASSUME NEW k \in DOMAIN s, s[k] >= h PROVE s[c + 1] <= s[k]
    <3>1. ~(k \in 1..c) BY <1>1, <1>2, <1>4, <2>5 DEF Cuts
    <3>2. c + 1 <= k BY <1>4, <2>1, <3>1
    <3> QED BY <2>2, <3>2 DEF Ordered
  <2> QED BY <2>2, <2>3, <2>4, <2>5 DEF ToSet
<1>7. c = Len(s) \/ c < Len(s)
  <2>1. c \in 0..Len(s) /\ Len(s) \in Nat BY <1>2, <1>4
  <2> QED BY <2>1
<1> QED BY <1>5, <1>6, <1>7

\* It is the successor of h on the circle.
LEMMA PickedKey ==
  ASSUME RingInv, NEW n \in Processes, NEW h \in Hashes, keys[n] # <<>>
  PROVE  FirstKey(keys[n], h) = Successor(n, h)
<1> DEFINE key == FirstKey(keys[n], h)
<1>1. /\ keys[n] \in Seq(Hashes) /\ Ordered(keys[n]) /\ ToSet(keys[n]) = Circle(n)
      /\ RingStateOK
  BY DEF RingInv, RingStateOK
<1>2. /\ key \in Circle(n)
      /\ (\A x \in Circle(n) : x < h) => \A x \in Circle(n) : key <= x
      /\ (\E x \in Circle(n) : x >= h) => /\ key >= h
                                          /\ \A x \in Circle(n) : x >= h => key <= x
  BY <1>1, FirstKeyIs
<1> HIDE DEF key
<1>3. Circle(n) # {} BY <1>2
<1>4. Circle(n) \subseteq Nat /\ h \in Nat BY <1>1, CircleIsOfHashes DEF Hashes
<1>5. CASE After(n, h) = {}
  <2>1. \A x \in Circle(n) : x < h BY <1>4, <1>5 DEF After
  <2>2. Successor(n, h) \in Circle(n) /\ \A x \in Circle(n) : Successor(n, h) <= x
    BY <1>1, <1>3, <1>5, SuccessorIs
  <2>3. key <= Successor(n, h) /\ Successor(n, h) <= key BY <1>2, <2>1, <2>2
  <2> QED BY <1>2, <1>4, <2>2, <2>3 DEF key
<1>6. CASE After(n, h) # {}
  <2>1. \E x \in Circle(n) : x >= h BY <1>6 DEF After
  <2>2. /\ Successor(n, h) \in After(n, h)
        /\ \A x \in After(n, h) : Successor(n, h) <= x
    BY <1>1, <1>3, <1>6, SuccessorIs
  <2>3. key \in After(n, h) BY <1>2, <2>1 DEF After
  <2>4. Successor(n, h) \in Circle(n) /\ Successor(n, h) >= h BY <2>2 DEF After
  <2>5. key <= Successor(n, h) /\ Successor(n, h) <= key BY <1>2, <2>1, <2>2, <2>3, <2>4
  <2> QED BY <1>2, <1>4, <2>4, <2>5 DEF key
<1> QED BY <1>5, <1>6

\* What Pick returns, from the invariant.
LEMMA Picked ==
  ASSUME RingInv, NEW n \in Processes, NEW h \in Hashes
  PROVE  /\ keys[n] = <<>> <=> Circle(n) = {}
         /\ Circle(n) = {} => Pick(n, h) = NoPeer
         /\ Circle(n) # {} => Pick(n, h) = LastAt(n, Successor(n, h))
<1>1. keys[n] \in Seq(Hashes) /\ ToSet(keys[n]) = Circle(n) /\ RingStateOK
  BY DEF RingInv, RingStateOK
<1>2. keys[n] = <<>> => Circle(n) = {} BY <1>1 DEF ToSet
<1>3. ASSUME keys[n] # <<>>
      PROVE  Circle(n) # {} /\ Pick(n, h) = LastAt(n, Successor(n, h))
  <2>1. 1 \in DOMAIN keys[n] BY <1>1, <1>3
  <2>2. Circle(n) # {} BY <1>1, <2>1 DEF ToSet
  <2>3. Pick(n, h) = hashMap[n][Successor(n, h)]
    BY <1>3, PickedKey DEF Pick, PickFrom, FirstKey
  <2>4. Successor(n, h) \in Circle(n) /\ Successor(n, h) \in Hashes
    BY <1>1, <2>2, SuccessorIs, CircleIsOfHashes
  <2>5. hashMap[n][Successor(n, h)] = LastAt(n, Successor(n, h))
    BY <2>4 DEF RingInv
  <2> QED BY <2>2, <2>3, <2>5
<1> QED BY <1>2, <1>3 DEF Pick

\* AddPeer sorts what it has and the new peer's hashes.
LEMMA AddedPeer ==
  ASSUME RingInv, NEW n \in Processes, NEW m \in Peers, AddPeer(n, m)
  PROVE  /\ added'[n] = Append(added[n], m)
         /\ \A h : h \in ToSet(keys'[n]) <=> h \in ToSet(keys[n]) \/ h \in ToSet(HashesOf(m))
         /\ keys'[n] \in Seq(Hashes) /\ Ordered(keys'[n])
         /\ \A h \in Hashes :
              hashMap'[n][h] = IF h \in ToSet(HashesOf(m)) THEN m ELSE hashMap[n][h]
         /\ RingStateOK'
         /\ hash' = hash
         /\ \A p \in Processes \ {n} : /\ added'[p] = added[p] /\ keys'[p] = keys[p]
                                       /\ hashMap'[p] = hashMap[p]
<1>1. RingStateOK BY DEF RingInv
<1>2. /\ added' = [added EXCEPT ![n] = Append(added[n], m)]
      /\ keys' = [keys EXCEPT ![n] = Sorted(keys[n] \o HashesOf(m))]
      /\ hashMap' = [hashMap EXCEPT ![n] =
            [h \in Hashes |-> IF h \in ToSet(HashesOf(m)) THEN m ELSE hashMap[n][h]]]
      /\ hash' = hash
  BY DEF AddPeer, AddWith
<1>3. /\ DOMAIN added = Processes /\ DOMAIN keys = Processes /\ DOMAIN hashMap = Processes
      /\ added[n] \in Seq(Peers) /\ keys[n] \in Seq(Hashes)
      /\ hashMap[n] \in [Hashes -> Peers \cup {NoPeer}]
  BY <1>1 DEF RingStateOK
<1>4. HashesOf(m) \in Seq(Hashes) BY <1>1, PointsOfPeer
<1> DEFINE both == keys[n] \o HashesOf(m)
<1>5. both \in Seq(Hashes) BY <1>3, <1>4
<1>6. \A h : h \in ToSet(both) <=> h \in ToSet(keys[n]) \/ h \in ToSet(HashesOf(m))
  <2>1. /\ DOMAIN both = 1..(Len(keys[n]) + Len(HashesOf(m)))
        /\ DOMAIN keys[n] = 1..Len(keys[n]) /\ Len(keys[n]) \in Nat
        /\ DOMAIN HashesOf(m) = 1..Len(HashesOf(m)) /\ Len(HashesOf(m)) \in Nat
    BY <1>3, <1>4
  <2>2. \A i \in 1..Len(keys[n]) : both[i] = keys[n][i] BY <1>3, <1>4
  <2>3. \A i \in 1..Len(HashesOf(m)) : both[Len(keys[n]) + i] = HashesOf(m)[i]
    BY <1>3, <1>4
  <2> HIDE DEF both
  <2>4. ASSUME NEW i \in DOMAIN both
        PROVE  both[i] \in ToSet(keys[n]) \/ both[i] \in ToSet(HashesOf(m))
    <3>1. CASE i <= Len(keys[n]) BY <2>1, <2>2, <2>4, <3>1 DEF ToSet
    <3>2. CASE i > Len(keys[n])
      <4>1. i - Len(keys[n]) \in 1..Len(HashesOf(m)) BY <2>1, <2>4, <3>2
      <4>2. both[i] = HashesOf(m)[i - Len(keys[n])]
        <5>1. Len(keys[n]) + (i - Len(keys[n])) = i BY <2>1, <2>4
        <5> QED BY <2>3, <4>1, <5>1
      <4> QED BY <2>1, <4>1, <4>2 DEF ToSet
    <3> QED BY <2>1, <2>4, <3>1, <3>2
  <2>5. \A i \in DOMAIN keys[n] : keys[n][i] \in ToSet(both)
    <3>1. \A i \in DOMAIN keys[n] : i \in DOMAIN both /\ both[i] = keys[n][i]
      BY <2>1, <2>2
    <3> QED BY <3>1 DEF ToSet
  <2>6. \A i \in DOMAIN HashesOf(m) : HashesOf(m)[i] \in ToSet(both)
    <3>1. \A i \in DOMAIN HashesOf(m) : /\ Len(keys[n]) + i \in DOMAIN both
                                        /\ both[Len(keys[n]) + i] = HashesOf(m)[i]
      BY <2>1, <2>3
    <3> QED BY <3>1 DEF ToSet
  <2> QED BY <2>4, <2>5, <2>6 DEF ToSet
<1>7. keys'[n] = Sorted(both) BY <1>2, <1>3
<1>8. added'[n] = Append(added[n], m) BY <1>2, <1>3
<1>9. hashMap'[n] = [h \in Hashes |-> IF h \in ToSet(HashesOf(m)) THEN m ELSE hashMap[n][h]]
  BY <1>2, <1>3
<1>10. \A p \in Processes \ {n} : /\ added'[p] = added[p] /\ keys'[p] = keys[p]
                                  /\ hashMap'[p] = hashMap[p]
  BY <1>2, <1>3
<1> HIDE DEF both
<1>11. /\ keys'[n] \in Seq(Hashes) /\ Ordered(keys'[n])
       /\ ToSet(keys'[n]) = ToSet(both)
  BY <1>5, <1>7, SortedIsSorted
<1>12. RingStateOK'
  <2>1. added' \in [Processes -> Seq(Peers)]
    <3>1. Append(added[n], m) \in Seq(Peers) BY <1>3
    <3> QED BY <1>1, <1>2, <3>1 DEF RingStateOK
  <2>2. keys' \in [Processes -> Seq(Hashes)]
    <3>1. Sorted(both) \in Seq(Hashes) BY <1>7, <1>11
    <3> QED BY <1>1, <1>2, <3>1 DEF RingStateOK, both
  <2>3. hashMap' \in [Processes -> [Hashes -> Peers \cup {NoPeer}]]
    <3>1. [h \in Hashes |-> IF h \in ToSet(HashesOf(m)) THEN m ELSE hashMap[n][h]]
             \in [Hashes -> Peers \cup {NoPeer}]
      BY <1>3
    <3> QED BY <1>1, <1>2, <3>1 DEF RingStateOK
  <2> QED BY <1>1, <1>2, <2>1, <2>2, <2>3 DEF RingStateOK
<1> QED BY <1>2, <1>6, <1>8, <1>9, <1>10, <1>11, <1>12

\* With the peer its points come on to the circle, and they are its own.
LEMMA CircleOfAdded ==
  ASSUME RingInv, NEW n \in Processes, NEW m \in Peers, AddPeer(n, m)
  PROVE  \A h : /\ h \in Circle(n)' <=> h \in Circle(n) \/ h \in ToSet(HashesOf(m))
                /\ h \in ToSet(HashesOf(m)) => LastAt(n, h)' = m
                /\ h \in Circle(n) /\ h \notin ToSet(HashesOf(m)) =>
                     LastAt(n, h)' = LastAt(n, h)
<1> TAKE h
<1>1. /\ RingStateOK /\ RingStateOK' /\ hash' = hash
      /\ added'[n] = Append(added[n], m)
  BY AddedPeer DEF RingInv
<1>2. added[n] \in Seq(Peers) BY <1>1 DEF RingStateOK
<1> DEFINE len == Len(added[n])
<1>3. /\ len \in Nat /\ DOMAIN added[n] = 1..len
      /\ DOMAIN added'[n] = 1..(len + 1)
      /\ \A i \in 1..len : added'[n][i] = added[n][i]
      /\ added'[n][len + 1] = m
  BY <1>1, <1>2
<1>4. \A p : HashesOf(p)' = HashesOf(p) BY <1>1 DEF HashesOf
<1> HIDE DEF len
<1>5. At(n, h)' = {i \in DOMAIN added'[n] : h \in ToSet(HashesOf(added'[n][i]))}
  BY <1>1 DEF At, HashesOf
<1>6. \A i \in 1..len : i \in At(n, h)' <=> i \in At(n, h)
  BY <1>3, <1>5 DEF At
<1>7. len + 1 \in At(n, h)' <=> h \in ToSet(HashesOf(m))
  BY <1>3, <1>5
<1>8. At(n, h)' \subseteq 1..(len + 1) /\ At(n, h) \subseteq 1..len
  BY <1>3, <1>5 DEF At
<1>9. /\ h \in Circle(n) <=> At(n, h) # {}
      /\ (h \in Circle(n))' <=> At(n, h)' # {}
  BY DEF Circle, At
<1>10. LastAt(n, h)' = added'[n][Max(At(n, h)')] /\ LastAt(n, h) = added[n][Max(At(n, h))]
  BY DEF LastAt, At
<1>11. h \in Circle(n)' <=> h \in Circle(n) \/ h \in ToSet(HashesOf(m))
  <2>1. ASSUME At(n, h) # {} PROVE At(n, h)' # {} BY <1>6, <1>8, <2>1
  <2>2. ASSUME At(n, h)' # {}, h \notin ToSet(HashesOf(m)) PROVE At(n, h) # {}
    <3>1. PICK i \in At(n, h)' : TRUE BY <2>2
    <3>2. i \in 1..len BY <1>3, <1>7, <1>8, <2>2, <3>1
    <3> QED BY <1>6, <3>1, <3>2
  <2> QED BY <1>7, <1>9, <2>1, <2>2
<1>12. ASSUME h \in ToSet(HashesOf(m)) PROVE LastAt(n, h)' = m
  <2>1. /\ len + 1 \in At(n, h)' /\ At(n, h)' \subseteq Nat
        /\ \A y \in At(n, h)' : y <= len + 1
    BY <1>3, <1>7, <1>8, <1>12
  <2>2. /\ Max(At(n, h)') \in At(n, h)' /\ len + 1 <= Max(At(n, h)')
    BY <1>3, <2>1, MaxIsGreatest
  <2>3. Max(At(n, h)') = len + 1 BY <1>3, <2>1, <2>2
  <2> QED BY <1>3, <1>10, <2>3
<1>13. ASSUME h \in Circle(n), h \notin ToSet(HashesOf(m))
       PROVE  LastAt(n, h)' = LastAt(n, h)
  <2>1. At(n, h)' = At(n, h)
    <3>1. len + 1 \notin At(n, h)' BY <1>7, <1>13
    <3>2. At(n, h)' \subseteq 1..len BY <1>3, <1>8, <3>1
    <3> QED BY <1>6, <1>8, <3>2
  <2>2. Max(At(n, h)) \in At(n, h) BY <1>1, <1>9, <1>13, LastPlace
  <2> QED BY <1>3, <1>8, <1>10, <2>1, <2>2
<1> QED BY <1>11, <1>12, <1>13

\* A process that adds no peer keeps its circle.
LEMMA CircleOfOther ==
  ASSUME NEW n \in Processes, added'[n] = added[n], hash' = hash
  PROVE  Circle(n)' = Circle(n) /\ \A h : LastAt(n, h)' = LastAt(n, h)
<1>1. Circle(n)' = Circle(n) BY DEF Circle, HashesOf
<1>2. \A h : LastAt(n, h)' = LastAt(n, h) BY DEF LastAt, HashesOf
<1> QED BY <1>1, <1>2

\* The rings keep their invariant.
THEOREM RingInvariant == RingSpec => []RingInv
<1>1. RingInit => RingInv
  <2> SUFFICES ASSUME RingInit PROVE RingInv OBVIOUS
  <2>1. /\ hash \in [Points -> Hashes] /\ added = [n \in Processes |-> <<>>]
        /\ keys = [n \in Processes |-> <<>>]
        /\ hashMap = [n \in Processes |-> [h \in Hashes |-> NoPeer]]
    BY DEF RingInit
  <2>2. RingStateOK
    <3>1. <<>> \in Seq(Peers) /\ <<>> \in Seq(Hashes) OBVIOUS
    <3> QED BY <2>1, <3>1 DEF RingStateOK
  <2>3. ASSUME NEW n \in Processes
        PROVE  /\ Ordered(keys[n]) /\ ToSet(keys[n]) = Circle(n)
               /\ \A h \in Hashes :
                    hashMap[n][h] = IF h \in Circle(n) THEN LastAt(n, h) ELSE NoPeer
    <3>1. added[n] = <<>> /\ keys[n] = <<>> /\ \A h \in Hashes : hashMap[n][h] = NoPeer
      BY <2>1
    <3>2. Circle(n) = {} BY <3>1 DEF Circle
    <3>3. Ordered(keys[n]) /\ ToSet(keys[n]) = {} BY <3>1 DEF Ordered, ToSet
    <3> QED BY <3>1, <3>2, <3>3
  <2> QED BY <2>2, <2>3 DEF RingInv
<1>2. RingInv /\ [RingNext]_ringVars => RingInv'
  <2> SUFFICES ASSUME RingInv, [RingNext]_ringVars PROVE RingInv' OBVIOUS
  <2>1. CASE UNCHANGED ringVars
    <3>1. /\ hash' = hash /\ added' = added /\ keys' = keys /\ hashMap' = hashMap
      BY <2>1 DEF ringVars
    <3>2. RingStateOK' BY <3>1 DEF RingInv, RingStateOK
    <3>3. \A n \in Processes : Circle(n)' = Circle(n) /\ \A h : LastAt(n, h)' = LastAt(n, h)
      BY <3>1, CircleOfOther
    <3> QED BY <3>1, <3>2, <3>3 DEF RingInv, Ordered, ToSet
  <2>2. ASSUME NEW n \in Processes, NEW m \in Peers, AddPeer(n, m) PROVE RingInv'
    <3>1. RingStateOK' /\ hash' = hash BY <2>2, AddedPeer
    <3>2. ASSUME NEW p \in Processes
          PROVE  /\ Ordered(keys'[p]) /\ ToSet(keys'[p]) = Circle(p)'
                 /\ \A h \in Hashes :
                      hashMap'[p][h] = IF h \in Circle(p)' THEN LastAt(p, h)' ELSE NoPeer
      <4>1. /\ Ordered(keys[p]) /\ ToSet(keys[p]) = Circle(p)
            /\ \A h \in Hashes :
                 hashMap[p][h] = IF h \in Circle(p) THEN LastAt(p, h) ELSE NoPeer
        BY DEF RingInv
      <4>2. CASE p # n
        <5>1. added'[p] = added[p] /\ keys'[p] = keys[p] /\ hashMap'[p] = hashMap[p]
          BY <2>2, <4>2, AddedPeer
        <5>2. Circle(p)' = Circle(p) /\ \A h : LastAt(p, h)' = LastAt(p, h)
          BY <3>1, <5>1, CircleOfOther
        <5> QED BY <4>1, <5>1, <5>2
      <4>3. CASE p = n
        <5>1. \A h : h \in ToSet(keys'[n]) <=> h \in ToSet(keys[n]) \/ h \in ToSet(HashesOf(m))
          BY <2>2, AddedPeer
        <5>2. Ordered(keys'[n]) BY <2>2, AddedPeer
        <5>3. \A h \in Hashes :
                hashMap'[n][h] = IF h \in ToSet(HashesOf(m)) THEN m ELSE hashMap[n][h]
          BY <2>2, AddedPeer
        <5>4. \A h : /\ h \in Circle(n)' <=> h \in Circle(n) \/ h \in ToSet(HashesOf(m))
                     /\ h \in ToSet(HashesOf(m)) => LastAt(n, h)' = m
                     /\ h \in Circle(n) /\ h \notin ToSet(HashesOf(m)) =>
                          LastAt(n, h)' = LastAt(n, h)
          BY <2>2, CircleOfAdded
        <5>5. ToSet(keys'[n]) = Circle(n)' BY <4>1, <4>3, <5>1, <5>4
        <5> QED BY <4>1, <4>3, <5>2, <5>3, <5>4, <5>5
      <4> QED BY <4>2, <4>3
    <3> QED BY <3>1, <3>2 DEF RingInv, Ordered, ToSet
  <2> QED BY <2>1, <2>2 DEF RingNext
<1> QED BY <1>1, <1>2, PTL DEF RingSpec

\* Pick returns the peer last added at the clockwise successor of the key.
THEOREM PickFindsSuccessor == RingSpec => []PickIsSuccessor
<1>1. RingInv => PickIsSuccessor
  <2> SUFFICES ASSUME RingInv, NEW n \in Processes, NEW h \in Hashes
               PROVE  Pick(n, h) = IF Circle(n) = {} THEN NoPeer
                                   ELSE LastAt(n, Successor(n, h))
    BY DEF PickIsSuccessor, Successor, After
  <2> QED BY Picked
<1> QED BY <1>1, RingInvariant, PTL

\* Processes with the same peers have the same circle and, if no points
\* collide, the same owners on it.
THEOREM PickersAgree == RingSpec => []RingsAgree
<1>1. RingInv => RingsAgree
  <2> SUFFICES ASSUME RingInv, NoCollision, NEW n1 \in Processes, NEW n2 \in Processes,
                      ToSet(added[n1]) = ToSet(added[n2]), NEW h \in Hashes
               PROVE  Pick(n1, h) = Pick(n2, h)
    BY DEF RingsAgree
  <2>1. RingStateOK BY DEF RingInv
  <2>2. \A n \in Processes : Circle(n) = UNION {ToSet(HashesOf(m)) : m \in ToSet(added[n])}
    BY DEF Circle, ToSet
  <2>3. Circle(n1) = Circle(n2) BY <2>2
  <2>4. Successor(n1, h) = Successor(n2, h) BY <2>3 DEF Successor, After
  <2>5. ASSUME NEW x \in Circle(n1) PROVE LastAt(n1, x) = LastAt(n2, x)
    <3>1. ASSUME NEW n \in {n1, n2}
          PROVE  LastAt(n, x) \in Peers /\ x \in ToSet(HashesOf(LastAt(n, x)))
      <4>1. x \in Circle(n) BY <2>3, <2>5, <3>1
      <4>2. Max(At(n, x)) \in At(n, x) /\ LastAt(n, x) = added[n][Max(At(n, x))]
        BY <2>1, <4>1, LastPlace
      <4>3. added[n] \in Seq(Peers) BY <2>1 DEF RingStateOK
      <4>4. \A i \in DOMAIN added[n] : added[n][i] \in Peers BY <4>3
      <4>5. /\ Max(At(n, x)) \in DOMAIN added[n]
            /\ x \in ToSet(HashesOf(added[n][Max(At(n, x))]))
        BY <4>2 DEF At
      <4> QED BY <4>2, <4>4, <4>5
    <3>2. ASSUME NEW m \in Peers, x \in ToSet(HashesOf(m))
          PROVE  \E r \in 0..Replicas : hash[<<m, r>>] = x
      <4>1. PICK i \in 1..(Replicas + 1) : hash[<<m, i - 1>>] = x
        BY <3>2 DEF ToSet, HashesOf
      <4>2. i - 1 \in 0..Replicas BY RingBounds
      <4> QED BY <4>1, <4>2
    <3> DEFINE a == LastAt(n1, x)
               b == LastAt(n2, x)
    <3>3. a \in Peers /\ b \in Peers BY <3>1
    <3>4. PICK r \in 0..Replicas, t \in 0..Replicas : hash[<<a, r>>] = x /\ hash[<<b, t>>] = x
      BY <3>1, <3>2
    <3> HIDE DEF a, b
    <3>5. <<a, r>> \in Points /\ <<b, t>> \in Points BY <3>3 DEF Points
    <3>6. a = b BY <3>4, <3>5 DEF NoCollision
    <3> QED BY <3>6 DEF a, b
  <2>6. Circle(n1) # {} => Successor(n1, h) \in Circle(n1) BY <2>1, SuccessorIs
  <2> QED BY <2>3, <2>4, <2>5, <2>6, Picked
<1> QED BY <1>1, RingInvariant, PTL

\* A key changes its owner only to the peer that was added.
THEOREM OnlyNewPeerTakes == RingSpec => MovesOnlyToNewPeer
<1>1. RingInv /\ RingInv' /\ [RingNext]_ringVars =>
        [\A n \in Processes, h \in Hashes :
           keys[n] # <<>> /\ Pick(n, h)' # Pick(n, h) => Pick(n, h)' = Last(added'[n])]_ringVars
  <2> SUFFICES ASSUME RingInv, RingInv', NEW p \in Processes, NEW m \in Peers, AddPeer(p, m),
                      NEW n \in Processes, NEW h \in Hashes, keys[n] # <<>>,
                      Pick(n, h)' # Pick(n, h)
               PROVE  Pick(n, h)' = Last(added'[n])
    BY DEF RingNext
  <2>1. n = p
    <3> SUFFICES ASSUME n # p PROVE FALSE OBVIOUS
    <3>1. keys'[n] = keys[n] /\ hashMap'[n] = hashMap[n] BY AddedPeer
    <3> QED BY <3>1 DEF Pick, PickFrom
  <2>2. /\ keys[n] \in Seq(Hashes) /\ Ordered(keys[n]) BY DEF RingInv, RingStateOK
  <2>3. /\ keys'[n] \in Seq(Hashes) /\ Ordered(keys'[n])
        /\ \A x : x \in ToSet(keys'[n]) <=> x \in ToSet(keys[n]) \/ x \in ToSet(HashesOf(m))
        /\ \A x \in Hashes :
             hashMap'[n][x] = IF x \in ToSet(HashesOf(m)) THEN m ELSE hashMap[n][x]
        /\ added'[n] = Append(added[n], m)
    BY <2>1, AddedPeer
  <2> DEFINE old == FirstKey(keys[n], h)
             new == FirstKey(keys'[n], h)
  <2>4. /\ old \in ToSet(keys[n])
        /\ (\A x \in ToSet(keys[n]) : x < h) => \A x \in ToSet(keys[n]) : old <= x
        /\ (\E x \in ToSet(keys[n]) : x >= h) =>
             old >= h /\ \A x \in ToSet(keys[n]) : x >= h => old <= x
    BY <2>2, FirstKeyIs
  <2>5. keys'[n] # <<>>
    <3>1. old \in ToSet(keys'[n]) BY <2>3, <2>4
    <3> QED BY <3>1 DEF ToSet
  <2>6. /\ new \in ToSet(keys'[n])
        /\ (\A x \in ToSet(keys'[n]) : x < h) => \A x \in ToSet(keys'[n]) : new <= x
        /\ (\E x \in ToSet(keys'[n]) : x >= h) =>
             new >= h /\ \A x \in ToSet(keys'[n]) : x >= h => new <= x
    BY <2>3, <2>5, FirstKeyIs
  <2>7. Pick(n, h) = hashMap[n][old] /\ Pick(n, h)' = hashMap'[n][new]
    BY <2>5 DEF Pick, PickFrom, FirstKey
  <2>8. /\ ToSet(keys[n]) \subseteq Nat /\ ToSet(keys'[n]) \subseteq Hashes
        /\ ToSet(keys'[n]) \subseteq Nat /\ h \in Nat
    BY <2>2, <2>3, HashesIn DEF ToSet, Hashes
  <2> HIDE DEF old, new
  <2>9. new \in Hashes BY <2>6, <2>8
  <2>10. new \in ToSet(HashesOf(m))
    <3> SUFFICES ASSUME new \notin ToSet(HashesOf(m)) PROVE FALSE OBVIOUS
    <3>1. new \in ToSet(keys[n]) /\ old \in ToSet(keys'[n]) BY <2>3, <2>4, <2>6
    <3>2. old = new
      <4>1. CASE \E x \in ToSet(keys[n]) : x >= h
        <5>1. \E x \in ToSet(keys'[n]) : x >= h BY <2>3, <4>1
        <5>2. old <= new /\ new <= old BY <2>4, <2>6, <3>1, <4>1, <5>1
        <5> QED BY <2>8, <3>1, <5>2
      <4>2. CASE \A x \in ToSet(keys[n]) : x < h
        <5>1. \A x \in ToSet(keys'[n]) : x < h
          <6>1. ~(new >= h) BY <2>8, <3>1, <4>2
          <6> QED BY <2>6, <2>8, <6>1
        <5>2. old <= new /\ new <= old BY <2>4, <2>6, <3>1, <4>2, <5>1
        <5> QED BY <2>8, <3>1, <5>2
      <4> QED BY <2>8, <4>1, <4>2
    <3> QED BY <2>3, <2>7, <2>9, <3>2
  <2>11. Pick(n, h)' = m BY <2>3, <2>7, <2>9, <2>10
  <2>12. Last(added'[n]) = m
    <3>1. added[n] \in Seq(Peers) BY DEF RingInv, RingStateOK
    <3> QED BY <2>3, <3>1 DEF Last
  <2> QED BY <2>11, <2>12
<1> QED BY <1>1, RingInvariant, PTL DEF RingSpec, MovesOnlyToNewPeer
=============================================================================
