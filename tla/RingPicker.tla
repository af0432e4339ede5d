----------------------------- MODULE RingPicker -----------------------------
(***************************************************************************)
(* The consistent hash ring by which a Geb_Chache node picks the owner of  *)
(* a key (ConsistentHashPicker).  Every process adds the same peers, each  *)
(* in an order of its own, and must pick the same owners: GebCache shows   *)
(* what becomes of requests when the rings disagree.                       *)
(*                                                                         *)
(* The 32-bit hash is any function onto 0..MaxHash, so that points of two  *)
(* peers may collide; a key is its hash.                                   *)
(***************************************************************************)
EXTENDS Integers, Sequences, FiniteSets, SequencesExt

CONSTANTS Processes, Peers, Replicas, MaxHash, NoPeer

ASSUME RingBounds == Replicas \in Nat \ {0} /\ MaxHash \in Nat /\ NoPeer \notin Peers

Points == Peers \X (0..Replicas)    \* the loop of Add runs to Replicas inclusive
Hashes == 0..MaxHash

VARIABLES
  hash,      \* the hash of each point of each peer
  added,     \* per process, the peers added so far, in order
  keys,      \* per process, the sorted hashes
  hashMap    \* per process, the peer of each hash, NoPeer if there is none

ringVars == <<hash, added, keys, hashMap>>

RingInit ==
  /\ hash \in [Points -> Hashes]
  /\ added = [n \in Processes |-> <<>>]
  /\ keys = [n \in Processes |-> <<>>]
  /\ hashMap = [n \in Processes |-> [h \in Hashes |-> NoPeer]]

HashesOf(m) == [i \in 1..(Replicas + 1) |-> hash[<<m, i - 1>>]]

\* sort.Ints: place i gets the least value with i values up to it.
Sorted(s) ==
  [i \in DOMAIN s |->
     Min({h \in ToSet(s) : Cardinality({j \in DOMAIN s : s[j] <= h}) >= i})]

\* A peer is added: its hashes are appended and sort ends the call.  An Add of
\* several peers sorts once, after the last: the ring is then the same.
AddWith(n, m, Order(_)) ==
  /\ m \notin ToSet(added[n])
  /\ added' = [added EXCEPT ![n] = Append(@, m)]
  /\ keys' = [keys EXCEPT ![n] = Order(@ \o HashesOf(m))]
  /\ hashMap' = [hashMap EXCEPT ![n] =
       [h \in Hashes |-> IF h \in ToSet(HashesOf(m)) THEN m ELSE @[h]]]
  /\ UNCHANGED hash

AddUnsorted(n, m) == AddWith(n, m, LAMBDA s : s)
AddPeer(n, m) == AddWith(n, m, Sorted)

\* sort.Search: binary search between i and j for the first index, counted
\* from 0, whose hash is at least h; for a slice that may be out of order too.
Search(s, h) ==
  LET find[r \in (0..Len(s)) \X (0..Len(s))] ==
        LET i == r[1]
            j == r[2]
            mid == (i + j) \div 2
        IN  IF i >= j THEN i
            ELSE IF s[mid + 1] >= h THEN find[<<i, mid>>] ELSE find[<<mid + 1, j>>]
  IN  find[<<0, Len(s)>>]

PickFrom(n, h) == hashMap[n][keys[n][(Search(keys[n], h) % Len(keys[n])) + 1]]
PickAfter(n, h) == IF keys[n] = <<>> THEN NoPeer ELSE PickFrom(n, h + 1)
Pick(n, h) == IF keys[n] = <<>> THEN NoPeer ELSE PickFrom(n, h)

RingNext == \E n \in Processes, m \in Peers : AddPeer(n, m)

RingSpec == RingInit /\ [][RingNext]_ringVars
-----------------------------------------------------------------------------
(* Properties.                                                             *)

\* The last of the peers added by n that has a point at h.
LastAt(n, h) ==
  LET at == {i \in DOMAIN added[n] : h \in ToSet(HashesOf(added[n][i]))}
  IN  added[n][Max(at)]

Circle(n) == UNION {ToSet(HashesOf(added[n][i])) : i \in DOMAIN added[n]}

\* Pick finds by binary search, in keys and hashMap, the peer that owns the
\* first point at or clockwise after the key.
PickIsSuccessor ==
  \A n \in Processes, h \in Hashes :
    Pick(n, h) =
      LET circle == Circle(n)
          after == {x \in circle : x >= h}
      IN  IF circle = {} THEN NoPeer
          ELSE LastAt(n, Min(IF after = {} THEN circle ELSE after))

\* Adding a peer moves keys to that peer only: every other key keeps its owner,
\* which is why the ring is consistent.
MovesOnlyToNewPeer ==
  [][\A n \in Processes, h \in Hashes :
       keys[n] # <<>> /\ Pick(n, h)' # Pick(n, h) => Pick(n, h)' = Last(added'[n])]_ringVars

\* No two peers have points with the same hash.
NoCollision ==
  \A x, y \in Points : hash[x] = hash[y] => x[1] = y[1]

\* Processes that know the same peers pick the same owners, in whatever order
\* each added them (main.go adds self last on every node), if no points collide.
RingsAgree ==
  NoCollision =>
    \A n1, n2 \in Processes :
      ToSet(added[n1]) = ToSet(added[n2]) => \A h \in Hashes : Pick(n1, h) = Pick(n2, h)

\* The inductive invariant: keys are sorted and are the points of the peers
\* added, and hashMap has the last of the peers at each of them.
RingStateOK ==
  /\ hash \in [Points -> Hashes]
  /\ added \in [Processes -> Seq(Peers)]
  /\ keys \in [Processes -> Seq(Hashes)]
  /\ hashMap \in [Processes -> [Hashes -> Peers \cup {NoPeer}]]
Ordered(s) == \A i, j \in DOMAIN s : i <= j => s[i] <= s[j]
RingInv ==
  /\ RingStateOK
  /\ \A n \in Processes :
       /\ Ordered(keys[n])
       /\ ToSet(keys[n]) = Circle(n)
       /\ \A h \in Hashes :
            hashMap[n][h] = IF h \in Circle(n) THEN LastAt(n, h) ELSE NoPeer
=============================================================================
