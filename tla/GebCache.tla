------------------------------ MODULE GebCache ------------------------------
(***************************************************************************)
(* The group cache of Geb_Chache: Group.Get with its byte-bounded LRU, the *)
(* singleflight that merges concurrent loads of a key, and the forwarding  *)
(* of a load over HTTP to the node the ring names for the key.             *)
(*                                                                         *)
(* A goroutine is a client's Get or an HTTP handler.  A node has at most   *)
(* one load of a key at work, so the handler that serves the request       *)
(* forwarded by node n for key k is named <<n, k>>.  A datum is its length:*)
(* that is all lru.Cache and the empty-answer test look at.  The ring of   *)
(* each node is a constant; RingPicker says how it is computed.            *)
(***************************************************************************)
EXTENDS Integers, Sequences, FiniteSets, SequencesExt

CONSTANTS
  Clients,      \* goroutines that call Group.Get
  Nodes,        \* processes, each with its group, its cache and its pool
  Keys,         \* keys, all of length KeyLen
  Ring,         \* Ring[n][k]: the node that n's picker names for k
  Grouped,      \* nodes on which the group exists (GetGroup is not nil)
  Unreachable,  \* nodes to which an HTTP request fails in the transport
  KeyLen,       \* length of a key
  Lengths,      \* lengths of the data a Getter returns (0: an empty datum)
  MaxBytes,     \* cacheBytes of every group, not 0
  None, Err     \* no value; an error

Calls == Grouped \X Keys    \* a Get of a key on a node that has the group
Procs == Clients \cup Calls

ASSUME RingType == Ring \in [Nodes -> [Keys -> Nodes]]
ASSUME NodeSets == IsFiniteSet(Nodes) /\ Grouped \subseteq Nodes /\ Unreachable \subseteq Nodes
ASSUME Sizes == KeyLen \in Nat /\ Lengths \subseteq Nat /\ MaxBytes \in Nat \ {0}
ASSUME Distinct == /\ None \notin Procs \cup Calls \cup Lengths \cup {Err}
                   /\ Err \notin Lengths /\ Clients \cap Calls = {}

VARIABLES
  pc,      \* where each goroutine is
  want,    \* the node and the key of its Get
  res,     \* what it has got: a length or Err
  flight,  \* singleflight.Group.m of each node: the goroutine that loads
  lru      \* mainCache of each node: list, map and byte count

vars == <<pc, want, res, flight, lru>>

Loading == {"loading", "asking", "sourcing", "storing"}
PCs == Loading \cup {"idle", "looking", "entering", "waiting", "done",
                     "forget", "returning", "panicked"}

NodeOf(p) == want[p][1]
KeyOf(p) == want[p][2]
OwnerOf(p) == Ring[NodeOf(p)][KeyOf(p)]
-----------------------------------------------------------------------------
(* lru.Cache: ll is the list, front first; table the keys of the map.      *)
Size(e) == KeyLen + e.len

SizeOfAll(ll) ==
  LET upTo[i \in 0..Len(ll)] == IF i = 0 THEN 0 ELSE upTo[i-1] + Size(ll[i])
  IN  upTo[Len(ll)]

\* The element of the list that the map has for k, and the list without it.
PlaceOf(c, k) == CHOOSE i \in DOMAIN c.ll : c.ll[i].key = k
EntryOf(c, k) == c.ll[PlaceOf(c, k)]
Without(c, k) == RemoveAt(c.ll, PlaceOf(c, k))

MoveToFront(c, k) == [c EXCEPT !.ll = <<EntryOf(c, k)>> \o Without(c, k)]

PushFront(c, e) == [ll     |-> <<e>> \o c.ll,
                    table  |-> c.table \cup {e.key},
                    nbytes |-> c.nbytes + Size(e)]

Replace(c, e) == [c EXCEPT
  !.ll     = <<e>> \o Without(c, e.key),
  !.nbytes = @ - Size(EntryOf(c, e.key)) + Size(e)]

Drop(c, gone, kept) ==
  [ll     |-> kept,
   table  |-> c.table \ {gone[i].key : i \in DOMAIN gone},
   nbytes |-> c.nbytes - SizeOfAll(gone)]

RemoveNewest(c, n) == Drop(c, SubSeq(c.ll, 1, n), SubSeq(c.ll, n + 1, Len(c.ll)))

RemoveFromList(c, n) == [c EXCEPT !.ll = SubSeq(@, 1, Len(@) - n),
  !.nbytes = @ - SizeOfAll(SubSeq(c.ll, Len(c.ll) - n + 1, Len(c.ll)))]

\* The n oldest entries removed, one RemoveOldest each.
RemoveOldest(c, n) ==
  Drop(c, SubSeq(c.ll, Len(c.ll) - n + 1, Len(c.ll)), SubSeq(c.ll, 1, Len(c.ll) - n))

\* The loop of Add: oldest entries go until the rest fits.
Trim(c) ==
  LET fits == {n \in 0..Len(c.ll) : RemoveOldest(c, n).nbytes <= MaxBytes}
  IN  RemoveOldest(c, IF fits = {} THEN Len(c.ll) ELSE Min(fits))

Add(c, e) == Trim(IF e.key \in c.table THEN Replace(c, e) ELSE PushFront(c, e))
-----------------------------------------------------------------------------
Init ==
  /\ pc = [p \in Procs |-> "idle"]
  /\ want = [p \in Procs |-> None]
  /\ res = [p \in Procs |-> None]
  /\ flight = [c \in Calls |-> None]
  /\ lru = [n \in Nodes |-> [ll |-> <<>>, table |-> {}, nbytes |-> 0]]

Goto(p, where) == pc' = [pc EXCEPT ![p] = where]
Answer(p, r) == res' = [res EXCEPT ![p] = r]

\* A client calls Get(k) on a node that has the group.
Begin(p, n, k) ==
  /\ pc[p] = "idle" /\ n \in Grouped
  /\ Goto(p, "looking")
  /\ want' = [want EXCEPT ![p] = <<n, k>>]
  /\ UNCHANGED <<res, flight, lru>>

\* mainCache.get, under the lock of the cache.
Hit(p) ==
  /\ pc[p] = "looking"
  /\ KeyOf(p) \in lru[NodeOf(p)].table
  /\ Answer(p, EntryOf(lru[NodeOf(p)], KeyOf(p)).len)
  /\ lru' = [lru EXCEPT ![NodeOf(p)] = MoveToFront(@, KeyOf(p))]
  /\ Goto(p, "returning")
  /\ UNCHANGED <<want, flight>>

Miss(p) ==
  /\ pc[p] = "looking"
  /\ KeyOf(p) \notin lru[NodeOf(p)].table
  /\ Goto(p, "entering")
  /\ UNCHANGED <<want, res, flight, lru>>

\* singleflight Do, first lock section, by a goroutine that may lead if ok.
LeadIf(p, ok) ==
  /\ pc[p] = "entering" /\ ok
  /\ flight' = [flight EXCEPT ![want[p]] = p]
  /\ Goto(p, "loading")
  /\ UNCHANGED <<want, res, lru>>

LeadUnchecked(p) == LeadIf(p, TRUE)
Lead(p) == LeadIf(p, flight[want[p]] = None)

\* ... or that finds a call and waits on its WaitGroup.  When the leader has
\* already called Done the wait is over at once.
Join(p) ==
  LET leader == flight[want[p]] IN
  /\ pc[p] = "entering" /\ leader # None
  /\ IF pc[leader] = "forget"
     THEN Goto(p, "returning") /\ Answer(p, res[leader])
     ELSE Goto(p, "waiting") /\ UNCHANGED res
  /\ UNCHANGED <<want, flight, lru>>

\* load: the ring names this node itself, or the peer has no such group and
\* answers 404; the datum comes from the local Getter.
LoadHere(p) ==
  /\ pc[p] = "loading"
  /\ \/ OwnerOf(p) = NodeOf(p)
     \/ OwnerOf(p) \notin Grouped \cup Unreachable
  /\ Goto(p, "sourcing")
  /\ UNCHANGED <<want, res, flight, lru>>

\* load: http.Get to the owner, whose server starts a handler goroutine.
Forward(p) ==
  /\ pc[p] = "loading"
  /\ OwnerOf(p) # NodeOf(p) /\ OwnerOf(p) \in Grouped \ Unreachable
  /\ pc[want[p]] = "idle"
  /\ pc' = [pc EXCEPT ![p] = "asking", ![want[p]] = "looking"]
  /\ want' = [want EXCEPT ![want[p]] = <<OwnerOf(p), KeyOf(p)>>]
  /\ UNCHANGED <<res, flight, lru>>

\* The handler goroutine h has answered p, or is gone, and is free again.
FreeHandler(p, h, where) ==
  /\ pc' = [pc EXCEPT ![p] = where, ![h] = "idle"]
  /\ want' = [want EXCEPT ![h] = None]

\* http.Get fails: its response is nil and the deferred Body.Close panics.
\* net/http recovers, so the process lives; nothing after f() in Do runs.
TransportFails(p) ==
  /\ \/ /\ pc[p] = "loading"
        /\ OwnerOf(p) # NodeOf(p) /\ OwnerOf(p) \in Unreachable
        /\ Goto(p, "panicked") /\ UNCHANGED want
     \/ /\ pc[p] = "asking" /\ pc[want[p]] = "panicked"
        /\ FreeHandler(p, want[p], "panicked")
  /\ UNCHANGED <<res, flight, lru>>

\* The peer's answer: an error or an empty datum sends the load to the local
\* Getter, anything else is the result.
TakeReplyIf(p, rejected) ==
  LET h == want[p] IN
  /\ pc[p] = "asking" /\ pc[h] = "returning"
  /\ IF res[h] \in rejected
     THEN FreeHandler(p, h, "sourcing") /\ res' = [res EXCEPT ![h] = None]
     ELSE /\ FreeHandler(p, h, "done")
          /\ res' = [res EXCEPT ![p] = res[h], ![h] = None]
  /\ UNCHANGED <<flight, lru>>

TakeReplyAsIs(p) == TakeReplyIf(p, {0})
TakeReply(p) == TakeReplyIf(p, {Err, 0})

\* getLocally: the Getter fails or returns a datum.
Source(p) ==
  /\ pc[p] = "sourcing"
  /\ \/ Answer(p, Err) /\ Goto(p, "done")
     \/ \E l \in Lengths : Answer(p, l) /\ Goto(p, "storing")
  /\ UNCHANGED <<want, flight, lru>>

\* populateCache, under the lock of the cache.
Store(p) ==
  /\ pc[p] = "storing"
  /\ lru' = [lru EXCEPT ![NodeOf(p)] = Add(@, [key |-> KeyOf(p), len |-> res[p]])]
  /\ Goto(p, "done")
  /\ UNCHANGED <<want, res, flight>>

\* c.wg.Done(): every goroutine that waits on this call reads its result.
Waiters(p) == {q \in Procs : pc[q] = "waiting" /\ want[q] = want[p]}

Wake(p, woken) ==
  /\ pc[p] = "done"
  /\ pc' = [q \in Procs |-> IF q = p THEN "forget"
                            ELSE IF q \in woken THEN "returning" ELSE pc[q]]
  /\ res' = [q \in Procs |-> IF q \in woken THEN res[p] ELSE res[q]]
  /\ UNCHANGED <<want, flight, lru>>

DoneAlone(p) == Wake(p, {})
Done(p) == Wake(p, Waiters(p))

\* Do, second lock section.
Forget(p) ==
  /\ pc[p] = "forget"
  /\ flight' = [flight EXCEPT ![want[p]] = None]
  /\ Goto(p, "returning")
  /\ UNCHANGED <<want, res, lru>>

\* Get returns to a client; a handler's answer is taken by TakeReply.
Return(p) ==
  /\ pc[p] = "returning"
  /\ Goto(p, "idle")
  /\ want' = [want EXCEPT ![p] = None]
  /\ res' = [res EXCEPT ![p] = None]
  /\ UNCHANGED <<flight, lru>>

Step(p) ==
  \/ Hit(p) \/ Miss(p) \/ Lead(p) \/ Join(p) \/ LoadHere(p) \/ Forward(p)
  \/ TransportFails(p) \/ TakeReply(p) \/ Source(p) \/ Store(p)
  \/ Done(p) \/ Forget(p)

Next ==
  \/ \E p \in Clients, n \in Nodes, k \in Keys : Begin(p, n, k)
  \/ \E p \in Procs : Step(p)
  \/ \E p \in Clients : Return(p)

\* Every goroutine that can run is run; nothing makes a client call Get.
Fairness == /\ \A p \in Procs : WF_vars(Step(p))
            /\ \A p \in Clients : WF_vars(Return(p))

Spec == Init /\ [][Next]_vars
FairSpec == Spec /\ Fairness
-----------------------------------------------------------------------------
(* Properties.                                                             *)

\* On a node at most one goroutine loads a key, whatever the number of
\* concurrent Gets: what singleflight.Do is for.
OneLoadPerKey ==
  \A p, q \in Procs :
    pc[p] \in Loading /\ pc[q] \in Loading /\ want[p] = want[q] => p = q

\* The LRU's list, its map and its byte count describe the same entries, each
\* key once, and fit the bound, through replacements by late second loads.
CacheIsSound ==
  \A n \in Nodes :
    LET c == lru[n] IN
    /\ c.table = {c.ll[i].key : i \in DOMAIN c.ll}
    /\ \A i, j \in DOMAIN c.ll : c.ll[i].key = c.ll[j].key => i = j
    /\ c.nbytes = SizeOfAll(c.ll)
    /\ c.nbytes <= MaxBytes

\* The datum a load stores is still cached after the evictions its Add makes,
\* unless it alone exceeds the bound.
AddedIsKept ==
  [][\A p \in Procs :
       pc[p] = "storing" /\ pc'[p] = "done" /\ KeyLen + res[p] <= MaxBytes
         => KeyOf(p) \in lru'[NodeOf(p)].table]_vars

\* A load fails only because the local Getter failed: no answer of a peer, not
\* even an error, ends it with an error (load, gebcache.go).
ErrorsAreLocal ==
  [][\A p \in Procs :
       pc[p] \in Loading /\ res'[p] = Err => pc[p] = "sourcing"]_vars

\* The nodes that a request for k meets, from node n on.
Route(n, k) ==
  LET r[i \in 0..Cardinality(Nodes)] == IF i = 0 THEN n ELSE Ring[r[i-1]][k]
  IN  r

\* Following the rings from n, the request for k meets a node that owns k or a
\* peer that answers 404, and no failing transport before.
Routed(n, k) ==
  LET r == Route(n, k) IN
  \E i \in 0..(Cardinality(Nodes) - 1) :
    /\ r[i+1] = r[i] \/ r[i+1] \notin Grouped \cup Unreachable
    /\ \A j \in 1..i : r[j] \in Grouped \ Unreachable

RoutedCalls == {c \in Calls : Routed(c[1], c[2])}

\* A Get for a routed key returns, whatever other keys' loads are stuck on
\* rings that disagree or on a peer that is down.
RoutedGetsReturn == \A p \in Clients : want[p] \in RoutedCalls ~> pc[p] = "idle"

\* The inductive invariant behind OneLoadPerKey: the table of calls names the goroutine that leads.
Leading == Loading \cup {"done", "forget"}
LeaderIsRegistered ==
  \A p \in Procs : pc[p] \in Leading => want[p] \in Calls /\ flight[want[p]] = p

=============================================================================
