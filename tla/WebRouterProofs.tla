--------------------------- MODULE WebRouterProofs ---------------------------
(* Proofs about the router and its contexts: for every chain of handlers   *)
(* and every way they call Next and Fail; and for every set of patterns,   *)
(* paths, methods and handlers, in whatever order they are registered.     *)
EXTENDS WebRouter, FiniteSetTheorems, WellFoundedInduction, TLAPS

-----------------------------------------------------------------------------
(* The contexts.                                                           *)

(* A step leaves the contexts of other requests alone.                     *)
LEMMA OthersStay ==
    ASSUME TypeOK, NEW r \in Requests, NEW q \in Requests, q # r,
           Step(r) \/ \E chain \in Seq(Func) : Begin(r, chain)
    PROVE  /\ hs'[q] = hs[q] /\ i'[q] = i[q] /\ at'[q] = at[q] /\ depth'[q] = depth[q]
           /\ begun'[q] = begun[q] /\ failed'[q] = failed[q]
<1> USE DEF TypeOK, place
<1>1. CASE \E chain \in Seq(Func) : Begin(r, chain)
  BY <1>1 DEF Begin
<1>2. CASE NotFound(r)
  BY <1>2 DEF NotFound
<1>3. CASE RunStep(r)
  BY <1>3 DEF RunStep, CallHandler, RunReturns
<1>4. CASE CallNext(r) \/ Reply(r)
  BY <1>4 DEF CallNext, NextFrom, Reply
<1>5. CASE Fail(r) \/ Return(r)
  BY <1>5 DEF Fail, Return
<1> QED BY <1>1, <1>2, <1>3, <1>4, <1>5 DEF Step, HandlerStep

(* ServeHTTP.                                                              *)
LEMMA ServeKeeps ==
    ASSUME TypeOK, NEW r \in Requests, Counts(r),
           NotFound(r) \/ \E chain \in Seq(Func) : Begin(r, chain)
    PROVE  TypeOK' /\ Counts(r)'
<1> USE DEF TypeOK, Counts
<1>1. CASE NotFound(r)
  BY <1>1 DEF NotFound, Writes, None
<1>2. ASSUME NEW chain \in Seq(Func), Begin(r, chain) PROVE TypeOK' /\ Counts(r)'
  <2>1. Len(chain) # 0 /\ Len(chain) \in Nat
    BY <1>2 DEF Begin
  <2>2. TypeOK'
    BY <1>2 DEF Begin
  <2> QED BY <1>2, <2>1, <2>2 DEF Begin
<1> QED BY <1>1, <1>2

(* The loop of run.                                                        *)
LEMMA RunKeeps ==
    ASSUME TypeOK, NEW r \in Requests, Counts(r), RunStep(r)
    PROVE  TypeOK' /\ Counts(r)'
<1>1. CASE CallHandler(r)
  <2>1. /\ begun[r] \in Seq(Nat) /\ i[r] \in Nat /\ depth[r] \in Nat /\ hs[r] \in Seq(Func)
        /\ Len(begun[r]) \in Nat /\ Len(hs[r]) \in Nat
    BY DEF TypeOK
  <2>2. /\ Append(begun[r], i[r] + 1) \in Seq(Nat)
        /\ Len(Append(begun[r], i[r] + 1)) = Len(begun[r]) + 1
        /\ \A j \in 1..Len(begun[r]) : Append(begun[r], i[r] + 1)[j] = begun[r][j]
        /\ Append(begun[r], i[r] + 1)[Len(begun[r]) + 1] = i[r] + 1
    BY <2>1
  <2>3. TypeOK'
    BY <1>1, <2>1, <2>2 DEF CallHandler, TypeOK
  <2>4. /\ at'[r] = "handler" /\ begun'[r] = Append(begun[r], i[r] + 1)
        /\ depth'[r] = depth[r] + 1
        /\ UNCHANGED <<hs, i, failed>>
    BY <1>1 DEF CallHandler, TypeOK
  <2>5. i[r] = Len(begun[r]) /\ i[r] < Len(hs[r])
    BY <1>1 DEF CallHandler, Counts
  <2> HIDE DEF TypeOK
  <2>6. \A j \in 1..Len(begun'[r]) : begun'[r][j] = j
    <3>1. \A j \in 1..Len(begun[r]) : begun[r][j] = j
      BY DEF Counts
    <3>2. Len(begun'[r]) = Len(begun[r]) + 1
      BY <2>2, <2>4
    <3>3. ASSUME NEW j \in 1..Len(begun'[r]) PROVE begun'[r][j] = j
      <4>1. CASE j = Len(begun[r]) + 1
        BY <4>1, <2>2, <2>4, <2>5
      <4>2. CASE j # Len(begun[r]) + 1
        <5>1. j \in 1..Len(begun[r])
          BY <4>2, <3>2, <2>1
        <5> QED BY <5>1, <3>1, <2>2, <2>4
      <4> QED BY <4>1, <4>2
    <3> QED BY <3>3
  <2> QED BY <2>1, <2>2, <2>3, <2>4, <2>5, <2>6 DEF Counts
<1>2. CASE RunReturns(r)
  BY <1>2 DEF RunReturns, TypeOK, Counts
<1> QED BY <1>1, <1>2 DEF RunStep

(* What a handler does.                                                    *)
LEMMA HandlerKeeps ==
    ASSUME TypeOK, NEW r \in Requests, Counts(r), HandlerStep(r)
    PROVE  TypeOK' /\ Counts(r)'
<1> USE DEF TypeOK, Counts
<1>1. CASE CallNext(r)
  BY <1>1 DEF CallNext, NextFrom
<1>2. CASE Reply(r)
  BY <1>2 DEF Reply, Writes, place, None
<1>3. CASE Fail(r)
  BY <1>3 DEF Fail, Writes, None
<1>4. CASE Return(r)
  BY <1>4 DEF Return
<1> QED BY <1>1, <1>2, <1>3, <1>4 DEF HandlerStep

LEMMA InvInit == ContextInit => IInv
BY DEF ContextInit, IInv, TypeOK, Counts, None

LEMMA InvNext == IInv /\ [ContextNext]_ctx => IInv'
<1> SUFFICES ASSUME IInv, [ContextNext]_ctx PROVE IInv'
  OBVIOUS
<1>1. CASE UNCHANGED ctx
  BY <1>1 DEF IInv, TypeOK, Counts, ctx
<1>2. CASE ContextNext
  <2>1. PICK r \in Requests : Step(r) \/ \E chain \in Seq(Func) : Begin(r, chain)
    BY <1>2 DEF ContextNext
  <2>2. TypeOK' /\ Counts(r)'
    BY <2>1, ServeKeeps, RunKeeps, HandlerKeeps DEF Step, IInv
  <2>3. ASSUME NEW q \in Requests, q # r PROVE Counts(q)'
    <3>1. /\ hs'[q] = hs[q] /\ i'[q] = i[q] /\ at'[q] = at[q] /\ depth'[q] = depth[q]
          /\ begun'[q] = begun[q] /\ failed'[q] = failed[q]
      BY <2>1, <2>3, OthersStay DEF IInv
    <3> QED BY <3>1 DEF Counts, IInv
  <2> QED BY <2>2, <2>3 DEF IInv
<1> QED BY <1>1, <1>2

(* The inductive invariant holds in every reachable state.                 *)
THEOREM Invariant == ContextSpec => []IInv
BY InvInit, InvNext, PTL DEF ContextSpec

(* Whatever the chain, and however its handlers nest their calls of Next,  *)
(* they are called in order, each once, and none is left out without Fail. *)
THEOREM HandlersAreInOrder == ContextSpec => []InOrder
<1>1. IInv => InOrder
  BY DEF IInv, TypeOK, Counts, InOrder
<1> QED BY <1>1, Invariant, PTL

(* No step calls a handler of a chain that has failed.                     *)
THEOREM FailureIsFinal == ContextSpec => FailIsFinal
<1>1. IInv /\ [ContextNext]_ctx => [FailStops]_ctx
  <2> SUFFICES ASSUME IInv, ContextNext, NEW q \in Requests, failed[q]
               PROVE  begun'[q] = begun[q]
    BY DEF FailStops
  <2>1. PICK r \in Requests : Step(r) \/ \E chain \in Seq(Func) : Begin(r, chain)
    BY DEF ContextNext
  <2>2. CASE r # q
    BY <2>1, <2>2, OthersStay DEF IInv
  <2>3. CASE r = q
    <3>1. ~ CallHandler(q)
      BY DEF CallHandler, IInv, Counts, TypeOK
    <3> QED BY <2>1, <2>3, <3>1 DEF Step, NotFound, RunStep, HandlerStep, RunReturns,
          CallNext, NextFrom, Reply, Fail, Return, Begin, place
  <2> QED BY <2>2, <2>3
<1> QED BY <1>1, Invariant, PTL DEF ContextSpec, FailIsFinal

-----------------------------------------------------------------------------
(* Induction over the numbers, in the form the provers can use.            *)

(* Every non-empty set of numbers has a least element.                     *)
LEMMA LeastNumber ==
    ASSUME NEW T, T \subseteq Nat, T # {}
    PROVE  \E x \in T : \A y \in T : x <= y
<1>1. PICK x \in T : \A y \in T : ~(<<y, x>> \in OpToRel(<, Nat))
  BY NatLessThanWellFounded, WFMin
<1>2. \A y \in T : ~(y < x) BY <1>1 DEF OpToRel
<1> QED BY <1>2

(* A set that holds 0, and with a number the next one, holds them all.     *)
LEMMA AllNumbers ==
    ASSUME NEW S, 0 \in S, \A n \in Nat : n \in S => n + 1 \in S
    PROVE  \A n \in Nat : n \in S
<1> SUFFICES ASSUME NEW m \in Nat, m \notin S PROVE FALSE
  OBVIOUS
<1> DEFINE T == Nat \ S
<1>1. PICK x \in T : \A y \in T : x <= y
  <2>1. T \subseteq Nat /\ T # {} OBVIOUS
  <2> HIDE DEF T
  <2> QED BY <2>1, LeastNumber
<1>2. x # 0 /\ x - 1 \in Nat BY <1>1
<1>3. x - 1 \in S BY <1>1, <1>2
<1> QED BY <1>1, <1>2, <1>3

-----------------------------------------------------------------------------
(* What FlattenSeq makes of lists, and the lists that leave some of a      *)
(* list's members out.                                                     *)

(* f joins the lists of s one after the other.                             *)
Joins(f, s) ==
    /\ f[0] = <<>>
    /\ \A j \in 1..Len(s) : f[j] = f[j - 1] \o s[j]

LEMMA SameList ==
    ASSUME NEW S, NEW x \in Seq(S), NEW y \in Seq(S), Len(x) = Len(y),
           \A j \in 1..Len(x) : x[j] = y[j]
    PROVE  x = y
OBVIOUS

LEMMA NoneJoined == ASSUME NEW S, NEW x \in Seq(S) PROVE <<>> \o x = x /\ x \o <<>> = x
<1> DEFINE y == <<>> \o x
           z == x \o <<>>
<1>1. y \in Seq(S) /\ Len(y) = Len(x) /\ \A j \in 1..Len(x) : y[j] = x[j] OBVIOUS
<1>2. z \in Seq(S) /\ Len(z) = Len(x) /\ \A j \in 1..Len(x) : z[j] = x[j] OBVIOUS
<1> HIDE DEF y, z
<1>3. y = x BY <1>1
<1>4. z = x BY <1>2
<1> QED BY <1>3, <1>4 DEF y, z

LEMMA ConcatIs ==
    ASSUME NEW S, NEW x \in Seq(S), NEW y \in Seq(S)
    PROVE  /\ x \o y \in Seq(S) /\ Len(x \o y) = Len(x) + Len(y)
           /\ \A j \in 1..Len(x) : (x \o y)[j] = x[j]
           /\ \A j \in 1..Len(y) : (x \o y)[Len(x) + j] = y[j]
           /\ \A j \in 1..(Len(x) + Len(y)) :
                 (x \o y)[j] = IF j <= Len(x) THEN x[j] ELSE y[j - Len(x)]
OBVIOUS

LEMMA JoinedThrice ==
    ASSUME NEW S, NEW x \in Seq(S), NEW y \in Seq(S), NEW z \in Seq(S)
    PROVE  (x \o y) \o z = x \o (y \o z)
<1> DEFINE xy == x \o y
           yz == y \o z
           u == xy \o z
           v == x \o yz
<1>1. /\ xy \in Seq(S) /\ Len(xy) = Len(x) + Len(y)
      /\ \A j \in 1..(Len(x) + Len(y)) : xy[j] = IF j <= Len(x) THEN x[j] ELSE y[j - Len(x)]
  BY ConcatIs
<1>2. /\ yz \in Seq(S) /\ Len(yz) = Len(y) + Len(z)
      /\ \A j \in 1..(Len(y) + Len(z)) : yz[j] = IF j <= Len(y) THEN y[j] ELSE z[j - Len(y)]
  BY ConcatIs
<1> HIDE DEF xy, yz
<1>3. /\ u \in Seq(S) /\ Len(u) = Len(xy) + Len(z)
      /\ \A j \in 1..(Len(xy) + Len(z)) : u[j] = IF j <= Len(xy) THEN xy[j] ELSE z[j - Len(xy)]
  BY <1>1, ConcatIs
<1>4. /\ v \in Seq(S) /\ Len(v) = Len(x) + Len(yz)
      /\ \A j \in 1..(Len(x) + Len(yz)) : v[j] = IF j <= Len(x) THEN x[j] ELSE yz[j - Len(x)]
  <2>1. x \in Seq(S) /\ yz \in Seq(S) BY <1>2
  <2> QED BY <2>1, ConcatIs
<1> HIDE DEF u, v
<1>5. Len(x) \in Nat /\ Len(y) \in Nat /\ Len(z) \in Nat OBVIOUS
<1>6. Len(u) = Len(v) BY <1>1, <1>2, <1>3, <1>4, <1>5
<1>7. ASSUME NEW j \in 1..Len(u) PROVE u[j] = v[j]
  <2>1. j \in Nat /\ 1 <= j /\ j <= Len(x) + Len(y) + Len(z) BY <1>1, <1>3, <1>5
  <2>2. CASE j <= Len(x)
    <3>1. u[j] = xy[j] /\ xy[j] = x[j] BY <1>1, <1>3, <1>5, <2>1, <2>2
    <3>2. v[j] = x[j] BY <1>2, <1>4, <1>5, <2>1, <2>2
    <3> QED BY <3>1, <3>2
  <2>3. CASE j > Len(x) /\ j <= Len(x) + Len(y)
    <3>1. u[j] = xy[j] /\ xy[j] = y[j - Len(x)] BY <1>1, <1>3, <1>5, <2>1, <2>3
    <3>2. v[j] = yz[j - Len(x)] BY <1>2, <1>4, <1>5, <2>1, <2>3
    <3>3. j - Len(x) \in 1..(Len(y) + Len(z)) /\ j - Len(x) <= Len(y) BY <1>5, <2>1, <2>3
    <3>4. yz[j - Len(x)] = y[j - Len(x)] BY <1>2, <3>3
    <3> QED BY <3>1, <3>2, <3>4
  <2>4. CASE j > Len(x) + Len(y)
    <3>1. u[j] = z[j - (Len(x) + Len(y))] BY <1>1, <1>3, <1>5, <2>1, <2>4
    <3>2. v[j] = yz[j - Len(x)] BY <1>2, <1>4, <1>5, <2>1, <2>4
    <3>3. j - Len(x) \in 1..(Len(y) + Len(z)) /\ ~(j - Len(x) <= Len(y)) BY <1>5, <2>1, <2>4
    <3>4. yz[j - Len(x)] = z[(j - Len(x)) - Len(y)] BY <1>2, <3>3
    <3>5. (j - Len(x)) - Len(y) = j - (Len(x) + Len(y)) BY <1>5, <2>1
    <3> QED BY <3>1, <3>2, <3>4, <3>5
  <2> QED BY <1>5, <2>1, <2>2, <2>3, <2>4
<1>8. u = v BY <1>3, <1>4, <1>6, <1>7
<1> QED BY <1>8 DEF u, v, xy, yz

LEMMA JoinsExist ==
    ASSUME NEW S, NEW s \in Seq(Seq(S))
    PROVE  \E f \in [0..Len(s) -> Seq(S)] : Joins(f, s)
<1> DEFINE Upto(f, k) == f[0] = <<>> /\ \A j \in 1..k : f[j] = f[j - 1] \o s[j]
           Exists(k) == k <= Len(s) => \E f \in [0..k -> Seq(S)] : Upto(f, k)
           T == {k \in Nat : Exists(k)}
<1>1. Len(s) \in Nat /\ \A j \in 1..Len(s) : s[j] \in Seq(S) OBVIOUS
<1>2. 0 \in T
  <2> DEFINE f == [j \in 0..0 |-> <<>>]
  <2>1. f \in [0..0 -> Seq(S)] /\ Upto(f, 0) OBVIOUS
  <2> QED BY <2>1
<1>3. ASSUME NEW k \in Nat, Exists(k) PROVE Exists(k + 1)
  <2> SUFFICES ASSUME k + 1 <= Len(s) PROVE \E f \in [0..(k + 1) -> Seq(S)] : Upto(f, k + 1)
    OBVIOUS
  <2>1. PICK f \in [0..k -> Seq(S)] : Upto(f, k)
    <3>1. k <= Len(s) BY <1>1
    <3> QED BY <1>3, <3>1
  <2> DEFINE g == [j \in 0..(k + 1) |-> IF j = k + 1 THEN f[k] \o s[k + 1] ELSE f[j]]
  <2>2. s[k + 1] \in Seq(S) /\ f[k] \in Seq(S) BY <1>1
  <2>3. f[k] \o s[k + 1] \in Seq(S) BY <2>2
  <2>4. g \in [0..(k + 1) -> Seq(S)] BY <2>3
  <2>5. \A j \in 0..k : g[j] = f[j] OBVIOUS
  <2>6. g[k + 1] = f[k] \o s[k + 1] OBVIOUS
  <2> HIDE DEF g
  <2>7. Upto(g, k + 1)
    <3>1. g[0] = <<>> BY <2>1, <2>5
    <3>2. ASSUME NEW j \in 1..(k + 1) PROVE g[j] = g[j - 1] \o s[j]
      <4>1. CASE j = k + 1
        <5>1. j - 1 = k /\ k \in 0..k BY <4>1
        <5> QED BY <2>5, <2>6, <4>1, <5>1
      <4>2. CASE j # k + 1
        <5>1. j \in 1..k /\ j \in 0..k /\ j - 1 \in 0..k BY <4>2
        <5> QED BY <2>1, <2>5, <5>1
      <4> QED BY <4>1, <4>2
    <3> QED BY <3>1, <3>2
  <2> QED BY <2>4, <2>7
<1>4. Len(s) \in T
  <2>1. \A k \in Nat : k \in T => k + 1 \in T
    <3> HIDE DEF Exists
    <3> QED BY <1>3
  <2> HIDE DEF T
  <2> QED BY <1>1, <1>2, <2>1, AllNumbers
<1>5. PICK f \in [0..Len(s) -> Seq(S)] : Upto(f, Len(s))
  <2>1. Exists(Len(s))
    <3> HIDE DEF Exists
    <3> QED BY <1>4
  <2>2. Len(s) <= Len(s) BY <1>1
  <2> HIDE DEF Upto
  <2> QED BY <2>1, <2>2
<1> QED BY <1>5 DEF Joins

LEMMA FlatIs ==
    ASSUME NEW S, NEW s \in Seq(Seq(S)), NEW f, Joins(f, s)
    PROVE  FlattenSeq(s) = f[Len(s)]
<1>1. Len(s) \in Nat /\ \A j \in 1..Len(s) : s[j] \in Seq(S) OBVIOUS
<1>2. CASE Len(s) = 0
  <2>1. s = <<>> BY <1>2
  <2> QED BY <1>2, <2>1 DEF FlattenSeq, Joins
<1>3. CASE Len(s) # 0
  <2> DEFINE Eq(h) == h = [j \in 1..Len(s) |-> IF j = 1 THEN s[j] ELSE h[j - 1] \o s[j]]
             flat == CHOOSE h : Eq(h)
             g == [j \in 1..Len(s) |-> f[j]]
  <2>1. FlattenSeq(s) = flat[Len(s)] BY <1>3 DEF FlattenSeq
  <2>2. f[1] = s[1]
    <3>1. 1 \in 1..Len(s) BY <1>1, <1>3
    <3>2. f[0] = <<>> /\ f[1] = f[1 - 1] \o s[1] BY <3>1 DEF Joins
    <3>3. 1 - 1 = 0 OBVIOUS
    <3>4. f[1] = <<>> \o s[1] BY <3>2, <3>3
    <3>5. s[1] \in Seq(S) BY <1>1, <3>1
    <3> QED BY <3>4, <3>5, NoneJoined
  <2>3. Eq(g)
    <3>1. ASSUME NEW j \in 1..Len(s)
          PROVE  g[j] = IF j = 1 THEN s[j] ELSE g[j - 1] \o s[j]
      <4>1. CASE j = 1 BY <2>2, <4>1
      <4>2. CASE j # 1
        <5>1. j - 1 \in 1..Len(s) BY <1>1, <4>2
        <5>2. f[j] = f[j - 1] \o s[j] BY DEF Joins
        <5>3. g[j - 1] = f[j - 1] /\ g[j] = f[j] BY <5>1
        <5> QED BY <4>2, <5>2, <5>3
      <4> QED BY <4>1, <4>2
    <3>2. g = [j \in 1..Len(s) |-> g[j]] OBVIOUS
    <3> HIDE DEF g
    <3> QED BY <3>1, <3>2
  <2>4. Eq(flat)
    <3> HIDE DEF Eq, g
    <3> QED BY <2>3
  <2> HIDE DEF flat, g
  <2>5. \A j \in 1..Len(s) : flat[j] = IF j = 1 THEN s[j] ELSE flat[j - 1] \o s[j]
    BY <2>4
  <2> HIDE DEF Eq
  <2> DEFINE T == {k \in Nat : k + 1 <= Len(s) => flat[k + 1] = f[k + 1]}
  <2>6. 0 \in T BY <1>1, <1>3, <2>2, <2>5
  <2>7. ASSUME NEW k \in Nat, k \in T PROVE k + 1 \in T
    <3> SUFFICES ASSUME k + 1 + 1 <= Len(s) PROVE flat[k + 1 + 1] = f[k + 1 + 1]
      OBVIOUS
    <3>1. PICK l \in 1..Len(s) : l = k + 1 + 1 /\ l # 1 /\ l - 1 = k + 1 BY <1>1
    <3>2. flat[k + 1] = f[k + 1] BY <1>1, <2>7
    <3>3. flat[l] = flat[l - 1] \o s[l] BY <2>5, <3>1
    <3>4. f[l] = f[l - 1] \o s[l] BY DEF Joins
    <3>5. flat[l] = f[l] BY <3>1, <3>2, <3>3, <3>4
    <3> QED BY <3>1, <3>5
  <2>8. Len(s) - 1 \in T
    <3>1. Len(s) - 1 \in Nat BY <1>1, <1>3
    <3> HIDE DEF T
    <3> QED BY <2>6, <2>7, <3>1, AllNumbers
  <2>9. Len(s) - 1 + 1 = Len(s) BY <1>1
  <2> QED BY <1>1, <2>1, <2>8, <2>9
<1> QED BY <1>2, <1>3

LEMMA FlatOfBoth ==
    ASSUME NEW S, NEW s \in Seq(Seq(S)), NEW t \in Seq(Seq(S))
    PROVE  /\ FlattenSeq(s \o t) = FlattenSeq(s) \o FlattenSeq(t)
           /\ FlattenSeq(s) \in Seq(S)
<1> DEFINE n == Len(s)
           m == Len(t)
           st == s \o t
<1>1. /\ n \in Nat /\ m \in Nat /\ st \in Seq(Seq(S)) /\ Len(st) = n + m
      /\ \A j \in 1..n : st[j] = s[j]
      /\ \A j \in 1..m : st[n + j] = t[j]
      /\ \A j \in 1..m : t[j] \in Seq(S)
  OBVIOUS
<1>2. PICK f \in [0..n -> Seq(S)] : Joins(f, s) BY JoinsExist
<1>3. PICK g \in [0..m -> Seq(S)] : Joins(g, t) BY JoinsExist
<1>4. FlattenSeq(s) = f[n] /\ FlattenSeq(t) = g[m] BY <1>2, <1>3, FlatIs
<1>5. f[n] \in Seq(S) /\ \A j \in 0..m : g[j] \in Seq(S)
  <2>1. n \in 0..n OBVIOUS
  <2> QED BY <2>1
<1> DEFINE h == [j \in 0..(n + m) |-> IF j <= n THEN f[j] ELSE f[n] \o g[j - n]]
<1>6. \A j \in 0..n : h[j] = f[j] BY <1>1
<1>7. \A j \in 0..m : h[n + j] = f[n] \o g[j]
  <2> TAKE j \in 0..m
  <2>1. CASE j = 0
    <3>1. g[j] = <<>> /\ n + j = n BY <1>1, <1>3, <2>1 DEF Joins
    <3>2. f[n] \o <<>> = f[n] BY <1>5, NoneJoined
    <3>3. h[n] = f[n] BY <1>1
    <3> HIDE DEF h, n
    <3> QED BY <3>1, <3>2, <3>3
  <2>2. CASE j # 0
    <3>1. n + j \in 0..(n + m) /\ ~(n + j <= n) /\ (n + j) - n = j BY <1>1, <2>2
    <3> HIDE DEF n, m
    <3> QED BY <3>1
  <2> QED BY <2>1, <2>2
<1> HIDE DEF h, st, n, m
<1>8. Joins(h, st)
  <2>1. h[0] = <<>> BY <1>1, <1>2, <1>6 DEF Joins
  <2>2. ASSUME NEW j \in 1..(n + m) PROVE h[j] = h[j - 1] \o st[j]
    <3>1. CASE j <= n
      <4>1. j \in 1..n /\ j \in 0..n /\ j - 1 \in 0..n BY <1>1, <3>1
      <4>2. f[j] = f[j - 1] \o s[j] BY <1>2, <4>1 DEF Joins, n
      <4> QED BY <1>1, <1>6, <4>1, <4>2
    <3>2. CASE j > n
      <4> DEFINE l == j - n
      <4>1. l \in 1..m /\ l \in 0..m /\ l - 1 \in 0..m /\ n + l = j /\ n + (l - 1) = j - 1
        BY <1>1, <3>2
      <4> HIDE DEF l
      <4>2. g[l] = g[l - 1] \o t[l] BY <1>3, <4>1 DEF Joins, m
      <4>3. h[j] = f[n] \o g[l] /\ h[j - 1] = f[n] \o g[l - 1] /\ st[j] = t[l]
        BY <1>1, <1>7, <4>1
      <4>4. g[l - 1] \in Seq(S) /\ t[l] \in Seq(S) BY <1>1, <1>5, <4>1
      <4>5. f[n] \o (g[l - 1] \o t[l]) = (f[n] \o g[l - 1]) \o t[l]
        <5> DEFINE x == f[n]
                   y == g[l - 1]
                   z == t[l]
        <5>1. x \in Seq(S) /\ y \in Seq(S) /\ z \in Seq(S) BY <1>5, <4>4
        <5> HIDE DEF x, y, z
        <5>2. (x \o y) \o z = x \o (y \o z) BY <5>1, JoinedThrice, SMTT(30)
        <5> QED BY <5>2 DEF x, y, z
      <4> QED BY <4>2, <4>3, <4>5
    <3>3. j <= n \/ j > n
      <4>1. j \in Nat /\ n \in Nat BY <1>1
      <4> QED BY <4>1
    <3> QED BY <3>1, <3>2, <3>3
  <2> QED BY <1>1, <2>1, <2>2 DEF Joins
<1>9. FlattenSeq(st) = h[n + m]
  <2>1. FlattenSeq(st) = h[Len(st)] BY <1>1, <1>8, FlatIs
  <2> QED BY <1>1, <2>1
<1>10. h[n + m] = f[n] \o g[m]
  <2>1. m \in 0..m BY <1>1
  <2> QED BY <1>7, <2>1
<1> QED BY <1>4, <1>5, <1>9, <1>10 DEF st

LEMMA FlatOfOne ==
    ASSUME NEW S, NEW x \in Seq(S)
    PROVE  FlattenSeq(<<x>>) = x
<1> DEFINE s == <<x>>
           f == [j \in 0..1 |-> IF j = 0 THEN <<>> ELSE x]
<1>1. s \in Seq(Seq(S)) /\ Len(s) = 1 /\ s[1] = x OBVIOUS
<1>2. f[0] = <<>> /\ f[1] = x OBVIOUS
<1>3. <<>> \o x = x BY NoneJoined
<1> HIDE DEF s, f
<1>4. Joins(f, s)
  <2>1. \A j \in 1..Len(s) : j = 1 /\ j - 1 = 0 BY <1>1
  <2>2. f[1] = f[0] \o s[1] BY <1>1, <1>2, <1>3
  <2> QED BY <1>2, <2>1, <2>2 DEF Joins
<1>5. FlattenSeq(s) = f[Len(s)] BY <1>1, <1>4, FlatIs
<1> QED BY <1>1, <1>2, <1>5 DEF s

(* a is what is left of list when only the members at the places in kept   *)
(* stay; Kept says that there are such places.                             *)
Chosen(list, kept) ==
    [j \in DOMAIN list |-> IF j \in kept THEN <<list[j]>> ELSE <<>>]
Kept(a, list) ==
    \E kept \in SUBSET (1..Len(list)) : a = FlattenSeq(Chosen(list, kept))

LEMMA ChosenIs ==
    ASSUME NEW S, NEW list \in Seq(S), NEW kept
    PROVE  /\ Chosen(list, kept) \in Seq(Seq(S)) /\ Len(Chosen(list, kept)) = Len(list)
           /\ \A j \in 1..Len(list) :
                 Chosen(list, kept)[j] = IF j \in kept THEN <<list[j]>> ELSE <<>>
<1>1. DOMAIN list = 1..Len(list) /\ Len(list) \in Nat OBVIOUS
<1>2. \A j \in 1..Len(list) : <<list[j]>> \in Seq(S) /\ <<>> \in Seq(S) OBVIOUS
<1>3. Chosen(list, kept) \in [1..Len(list) -> Seq(S)] BY <1>1, <1>2 DEF Chosen
<1>4. \A j \in 1..Len(list) :
         Chosen(list, kept)[j] = IF j \in kept THEN <<list[j]>> ELSE <<>>
  BY <1>1 DEF Chosen
<1> QED BY <1>1, <1>3, <1>4

LEMMA NoneKept ==
    ASSUME NEW S, NEW list \in Seq(S)
    PROVE  Kept(<<>>, list)
<1> DEFINE none == {}
           c == Chosen(list, none)
           f == [j \in 0..Len(list) |-> <<>>]
<1>1. c \in Seq(Seq(S)) /\ Len(c) = Len(list) /\ \A j \in 1..Len(list) : c[j] = <<>>
  <2> HIDE DEF none
  <2>1. /\ c \in Seq(Seq(S)) /\ Len(c) = Len(list)
        /\ \A j \in 1..Len(list) : c[j] = IF j \in none THEN <<list[j]>> ELSE <<>>
    BY ChosenIs
  <2> HIDE DEF c
  <2> QED BY <2>1 DEF none
<1>2. Len(list) \in Nat OBVIOUS
<1>3. \A j \in 0..Len(list) : f[j] = <<>> OBVIOUS
<1>4. <<>> \o <<>> = <<>> OBVIOUS
<1> HIDE DEF c, f, none
<1>5. Joins(f, c)
  <2>1. ASSUME NEW j \in 1..Len(c) PROVE f[j] = f[j - 1] \o c[j]
    <3>1. j \in 0..Len(list) /\ j - 1 \in 0..Len(list) /\ j \in 1..Len(list) BY <1>1, <1>2
    <3> QED BY <1>1, <1>3, <1>4, <3>1
  <2>2. f[0] = <<>> BY <1>2, <1>3
  <2> QED BY <2>1, <2>2 DEF Joins
<1>6. FlattenSeq(c) = f[Len(c)] BY <1>1, <1>5, FlatIs
<1>7. FlattenSeq(c) = <<>> BY <1>1, <1>2, <1>3, <1>6
<1>8. none \in SUBSET (1..Len(list)) BY DEF none
<1> QED BY <1>7, <1>8 DEF Kept, c

LEMMA AllKept ==
    ASSUME NEW S, NEW list \in Seq(S)
    PROVE  Kept(list, list)
<1> DEFINE all == 1..Len(list)
           c == Chosen(list, all)
           f == [j \in 0..Len(list) |-> SubSeq(list, 1, j)]
<1>1. c \in Seq(Seq(S)) /\ Len(c) = Len(list) /\ \A j \in 1..Len(list) : c[j] = <<list[j]>>
  <2>1. /\ c \in Seq(Seq(S)) /\ Len(c) = Len(list)
        /\ \A j \in 1..Len(list) : c[j] = IF j \in all THEN <<list[j]>> ELSE <<>>
    BY ChosenIs
  <2> HIDE DEF c
  <2> QED BY <2>1
<1>2. Len(list) \in Nat OBVIOUS
<1>3. \A j \in 0..Len(list) : f[j] = SubSeq(list, 1, j) OBVIOUS
<1>4. ASSUME NEW j \in 1..Len(list)
      PROVE  SubSeq(list, 1, j) = SubSeq(list, 1, j - 1) \o <<list[j]>>
  <2> DEFINE u == SubSeq(list, 1, j)
             v == SubSeq(list, 1, j - 1)
             w == v \o <<list[j]>>
  <2>1. u \in Seq(S) /\ Len(u) = j /\ \A l \in 1..j : u[l] = list[l] OBVIOUS
  <2>2. v \in Seq(S) /\ Len(v) = j - 1 /\ \A l \in 1..(j - 1) : v[l] = list[l] OBVIOUS
  <2> HIDE DEF u, v
  <2>3. /\ w \in Seq(S) /\ Len(w) = j /\ w[j] = list[j]
        /\ \A l \in 1..(j - 1) : w[l] = list[l]
    <3>1. <<list[j]>> \in Seq(S) /\ Len(<<list[j]>>) = 1 /\ <<list[j]>>[1] = list[j]
      OBVIOUS
    <3> QED BY <2>2, <3>1
  <2> HIDE DEF w
  <2>4. \A l \in 1..j : u[l] = w[l] BY <2>1, <2>3
  <2>5. u = w BY <2>1, <2>3, <2>4
  <2> QED BY <2>5 DEF u, v, w
<1>5. SubSeq(list, 1, 0) = <<>> OBVIOUS
<1>6. SubSeq(list, 1, Len(list)) = list OBVIOUS
<1> HIDE DEF c, f
<1>7. Joins(f, c)
  <2>1. ASSUME NEW j \in 1..Len(c) PROVE f[j] = f[j - 1] \o c[j]
    <3>1. j \in 0..Len(list) /\ j - 1 \in 0..Len(list) /\ j \in 1..Len(list) BY <1>1, <1>2
    <3> QED BY <1>1, <1>3, <1>4, <3>1
  <2>2. f[0] = <<>> BY <1>2, <1>3, <1>5
  <2> QED BY <2>1, <2>2 DEF Joins
<1>8. FlattenSeq(c) = f[Len(c)] BY <1>1, <1>7, FlatIs
<1>9. FlattenSeq(c) = list BY <1>1, <1>2, <1>3, <1>6, <1>8
<1>10. all \in SUBSET (1..Len(list)) OBVIOUS
<1> QED BY <1>9, <1>10 DEF Kept, c

LEMMA BothKept ==
    ASSUME NEW S, NEW x \in Seq(S), NEW y \in Seq(S), NEW a, NEW b, Kept(a, x), Kept(b, y)
    PROVE  Kept(a \o b, x \o y)
<1>1. PICK k \in SUBSET (1..Len(x)) : a = FlattenSeq(Chosen(x, k)) BY DEF Kept
<1>2. PICK l \in SUBSET (1..Len(y)) : b = FlattenSeq(Chosen(y, l)) BY DEF Kept
<1> DEFINE n == Len(x)
           m == Len(y)
           xy == x \o y
           kl == k \cup {j \in (n + 1)..(n + m) : j - n \in l}
           u == Chosen(xy, kl)
           c == Chosen(x, k)
           d == Chosen(y, l)
           v == c \o d
<1>3. /\ n \in Nat /\ m \in Nat /\ xy \in Seq(S) /\ Len(xy) = n + m
      /\ \A j \in 1..(n + m) : xy[j] = IF j <= n THEN x[j] ELSE y[j - n]
  BY ConcatIs
<1>4. kl \in SUBSET (1..(n + m))
  <2>1. n \in Nat /\ m \in Nat /\ k \subseteq 1..n BY <1>3
  <2> HIDE DEF n, m
  <2>2. 1..n \subseteq 1..(n + m) /\ (n + 1)..(n + m) \subseteq 1..(n + m) BY <2>1
  <2> QED BY <2>1, <2>2
<1>5. \A j \in 1..(n + m) : j \in kl <=> IF j <= n THEN j \in k ELSE j - n \in l
  BY <1>3
<1> HIDE DEF xy, kl
<1>6. /\ u \in Seq(Seq(S)) /\ Len(u) = n + m
      /\ \A j \in 1..(n + m) : u[j] = IF j \in kl THEN <<xy[j]>> ELSE <<>>
  BY <1>3, ChosenIs
<1>7. /\ c \in Seq(Seq(S)) /\ Len(c) = n
      /\ \A j \in 1..n : c[j] = IF j \in k THEN <<x[j]>> ELSE <<>>
  BY ChosenIs
<1>8. /\ d \in Seq(Seq(S)) /\ Len(d) = m
      /\ \A j \in 1..m : d[j] = IF j \in l THEN <<y[j]>> ELSE <<>>
  BY ChosenIs
<1> HIDE DEF u, c, d
<1>9. /\ v \in Seq(Seq(S)) /\ Len(v) = n + m
      /\ \A j \in 1..(n + m) : v[j] = IF j <= n THEN c[j] ELSE d[j - n]
  <2>1. /\ v \in Seq(Seq(S)) /\ Len(v) = Len(c) + Len(d)
        /\ \A j \in 1..(Len(c) + Len(d)) : v[j] = IF j <= Len(c) THEN c[j] ELSE d[j - Len(c)]
    <3>1. c \in Seq(Seq(S)) /\ d \in Seq(Seq(S)) BY <1>7, <1>8
    <3> QED BY <3>1, ConcatIs
  <2> HIDE DEF n, m, v
  <2> QED BY <1>7, <1>8, <2>1
<1> HIDE DEF v, n, m
<1>10. ASSUME NEW j \in 1..(n + m) PROVE u[j] = v[j]
  <2>1. CASE j <= n
    <3>1. j \in 1..n BY <1>3, <2>1
    <3> QED BY <1>3, <1>5, <1>6, <1>7, <1>9, <2>1, <3>1
  <2>2. CASE ~(j <= n)
    <3>1. j - n \in 1..m BY <1>3, <2>2
    <3>2. u[j] = IF j - n \in l THEN <<y[j - n]>> ELSE <<>> BY <1>3, <1>5, <1>6, <2>2
    <3>3. v[j] = d[j - n] BY <1>9, <2>2
    <3> QED BY <1>8, <3>1, <3>2, <3>3
  <2> QED BY <2>1, <2>2
<1>11. u = v
  <2>1. Len(u) = Len(v) /\ \A j \in 1..Len(u) : u[j] = v[j] BY <1>6, <1>9, <1>10
  <2>2. u \in Seq(Seq(S)) /\ v \in Seq(Seq(S)) BY <1>6, <1>9
  <2> QED BY <2>1, <2>2, SameList
<1>12. FlattenSeq(v) = a \o b
  <2>1. FlattenSeq(v) = FlattenSeq(c) \o FlattenSeq(d) BY <1>7, <1>8, FlatOfBoth DEF v
  <2> QED BY <1>1, <1>2, <2>1 DEF c, d
<1>13. a \o b = FlattenSeq(Chosen(xy, kl)) BY <1>11, <1>12 DEF u
<1>14. kl \in SUBSET (1..Len(xy)) BY <1>3, <1>4
<1> QED BY <1>13, <1>14 DEF Kept, xy

-----------------------------------------------------------------------------
(* Patterns and the nodes they go through.                                 *)

Starts(p, n) == Len(n) <= Len(p) /\ \A j \in 1..Len(n) : p[j] = n[j]

LEMMA FirstPart ==
    ASSUME NEW p \in Seq(Segments), NEW k \in 0..Len(p)
    PROVE  /\ SubSeq(p, 1, k) \in Seq(Segments) /\ Len(SubSeq(p, 1, k)) = k
           /\ \A j \in 1..k : SubSeq(p, 1, k)[j] = p[j]
OBVIOUS

LEMMA StartIsPart ==
    ASSUME NEW p \in Seq(Segments), NEW n \in Seq(Segments), Starts(p, n)
    PROVE  SubSeq(p, 1, Len(n)) = n
<1> DEFINE a == SubSeq(p, 1, Len(n))
<1>1. a \in Seq(Segments) /\ Len(a) = Len(n) /\ \A j \in 1..Len(n) : a[j] = p[j]
  BY DEF Starts
<1>2. \A j \in 1..Len(n) : a[j] = n[j] BY <1>1 DEF Starts
<1> HIDE DEF a
<1>3. a = n BY <1>1, <1>2
<1> QED BY <1>3 DEF a

LEMMA StartsNext ==
    ASSUME NEW p \in Seq(Segments), NEW n \in Seq(Segments), NEW s \in Segments
    PROVE  Starts(p, Append(n, s)) <=>
              Starts(p, n) /\ Len(n) < Len(p) /\ p[Len(n) + 1] = s
<1> DEFINE c == Append(n, s)
<1>1. /\ Len(c) = Len(n) + 1 /\ c[Len(n) + 1] = s /\ \A j \in 1..Len(n) : c[j] = n[j]
      /\ Len(n) \in Nat /\ Len(p) \in Nat
  OBVIOUS
<1> HIDE DEF c
<1>2. Starts(p, c) <=> Starts(p, n) /\ Len(n) < Len(p) /\ p[Len(n) + 1] = s
  <2>1. ASSUME Starts(p, c) PROVE Starts(p, n) /\ Len(n) < Len(p) /\ p[Len(n) + 1] = s
    BY <1>1, <2>1 DEF Starts
  <2>2. ASSUME Starts(p, n), Len(n) < Len(p), p[Len(n) + 1] = s PROVE Starts(p, c)
    <3>1. ASSUME NEW j \in 1..Len(c) PROVE p[j] = c[j]
      <4>1. CASE j = Len(n) + 1 BY <1>1, <2>2, <4>1
      <4>2. CASE j # Len(n) + 1 BY <1>1, <2>2, <4>2 DEF Starts
      <4> QED BY <4>1, <4>2
    <3> QED BY <1>1, <2>2, <3>1 DEF Starts
  <2> QED BY <2>1, <2>2
<1> QED BY <1>2 DEF c

(* What isValidPatten leaves: "*" is last, "." is not, and either is       *)
(* alone.                                                                  *)
LEMMA ValidPattern ==
    ASSUME NEW p \in Seq(Segments), IsValidPatten(p)
    PROVE  /\ \A j \in 1..Len(p) : p[j] = Star => j = Len(p)
           /\ \A j \in 1..Len(p) : p[j] = Dot => j # Len(p)
           /\ \A j, k \in 1..Len(p) : p[j] = Dot => p[k] # Star
           /\ \A j, k \in 1..Len(p) : p[j] = Dot /\ p[k] = Dot => j = k
<1> DEFINE dots == {j \in DOMAIN p : p[j] = Dot}
           stars == {j \in DOMAIN p : p[j] = Star}
<1>1. /\ stars \subseteq {Len(p)} /\ Len(p) \notin dots
      /\ Cardinality(dots) <= 1 /\ (dots = {} \/ stars = {})
  BY DEF IsValidPatten
<1>2. DOMAIN p = 1..Len(p) /\ Len(p) \in Nat OBVIOUS
<1>3. ASSUME NEW j \in 1..Len(p), NEW k \in 1..Len(p), p[j] = Dot, p[k] = Dot, j # k
      PROVE  FALSE
  <2>1. IsFiniteSet(dots)
    <3>1. IsFiniteSet(1..Len(p)) BY <1>2, FS_Interval
    <3>2. dots \subseteq 1..Len(p) BY <1>2
    <3> QED BY <3>1, <3>2, FS_Subset
  <2>2. {j, k} \subseteq dots BY <1>2, <1>3
  <2> HIDE DEF dots
  <2>3. Cardinality({j, k}) <= Cardinality(dots) /\ Cardinality(dots) \in Nat
    BY <2>1, <2>2, FS_Subset, FS_CardinalityType
  <2>4. Cardinality({j, k}) = 2
    <3>1. IsFiniteSet({j}) /\ Cardinality({j}) = 1 BY FS_Singleton
    <3>2. Cardinality({j} \cup {k}) = Cardinality({j}) + 1 BY <1>3, <3>1, FS_AddElement
    <3>3. {j, k} = {j} \cup {k} OBVIOUS
    <3>4. Cardinality({j, k}) = Cardinality({j} \cup {k}) BY <3>3
    <3> HIDE DEF dots
    <3> QED BY <3>1, <3>2, <3>4
  <2> QED BY <1>1, <2>3, <2>4
<1>4. \A j \in 1..Len(p) : (p[j] = Star => j \in stars) /\ (p[j] = Dot => j \in dots)
  BY <1>2
<1> HIDE DEF dots, stars
<1> QED BY <1>1, <1>3, <1>4

-----------------------------------------------------------------------------
(* What the search owes to a node n: the registered patterns that go       *)
(* through n and match, below n, what is left of the path.                 *)

Registered(m) == {p \in Patterns : regs[<<m, p>>] # Nil}

Fits(p, path, k) ==
    IF p # <<>> /\ Last(p) = Star
    THEN Len(p) <= Len(path) /\ \A j \in (k + 1)..(Len(p) - 1) : p[j] = path[j]
    ELSE Len(p) = Len(path) /\ \A j \in (k + 1)..Len(p) : p[j] \in {Dot, path[j]}

Under(m, path, n) == {p \in Registered(m) : Starts(p, n) /\ Fits(p, path, Len(n))}

(* A result is right for a set of patterns if it has a chain exactly when  *)
(* there is one, and that ends with the handler of the closest.            *)
Best(m, U) == {p \in U : \A q \in U : q = p \/ Closer(p, q)}
Right(m, r, U) ==
    /\ r \in [list : Seq(Func), has : BOOLEAN]
    /\ r.has <=> U # {}
    /\ r.has => r.list # <<>> /\ \E p \in Best(m, U) : Last(r.list) = regs[<<m, p>>]

LEMMA FoundIsRight ==
    ASSUME NEW m \in Methods, NEW list \in Seq(Func), list # <<>>, NEW U,
           NEW p \in Best(m, U), Last(list) = regs[<<m, p>>]
    PROVE  Right(m, Found(list), U)
<1> DEFINE r == Found(list)
<1>1. r \in [list : Seq(Func), has : BOOLEAN] /\ r.has /\ r.list = list BY DEF Found
<1>2. U # {} BY DEF Best
<1> HIDE DEF r
<1>3. Right(m, r, U) BY <1>1, <1>2 DEF Right
<1> QED BY <1>3 DEF r

(* What the invariant says of a registered pattern.                        *)
LEMMA RegisteredThere ==
    ASSUME TreeInv, NEW m \in Methods, NEW p \in Registered(m)
    PROVE  /\ p \in Patterns /\ p \in Seq(Segments) /\ p \in DOMAIN tree /\ IsValidPatten(p)
           /\ regs[<<m, p>>] \in Func /\ tree[p].handlers[m] = regs[<<m, p>>]
<1>1. p \in Patterns /\ regs[<<m, p>>] # Nil BY DEF Registered
<1>2. p \in Seq(Segments) BY <1>1, PathConstants
<1>3. p \in DOMAIN tree /\ IsValidPatten(p) BY <1>1 DEF TreeInv, HoldsRegs
<1>4. tree[p].handlers[m] = regs[<<m, p>>] BY <1>1, <1>3 DEF TreeInv, HoldsRegs
<1>5. regs[<<m, p>>] \in Funcs \cup {Nil} BY <1>1 DEF TreeInv, TreeType
<1> QED BY <1>1, <1>2, <1>3, <1>4, <1>5, RouterConstants

(* Patterns are only found through nodes that are there.                   *)
LEMMA NodesOnTheWay ==
    ASSUME TreeInv, NEW m \in Methods, NEW path, NEW n \in Seq(Segments),
           n \notin DOMAIN tree
    PROVE  Under(m, path, n) = {}
<1> SUFFICES ASSUME NEW p \in Under(m, path, n) PROVE FALSE
  OBVIOUS
<1>1. p \in Registered(m) /\ Starts(p, n) BY DEF Under
<1>2. p \in Seq(Segments) /\ p \in DOMAIN tree BY <1>1, RegisteredThere
<1>3. SubSeq(p, 1, Len(n)) = n BY <1>1, <1>2, StartIsPart
<1>4. Len(n) \in 0..Len(p) BY <1>1, <1>2 DEF Starts
<1> QED BY <1>2, <1>3, <1>4 DEF TreeInv, WayIsThere

(* A node that has nothing below it for the path: its own handler.         *)
LEMMA OwnIsRight ==
    ASSUME TreeInv, NEW m \in Methods, NEW path \in Seq(Segments), NEW n \in DOMAIN tree,
           NEW list \in Seq(Func),
           \A p \in Registered(m) : p \in Under(m, path, n) <=> p = n
    PROVE  Right(m, Own(m, n, list), Under(m, path, n))
<1>1. /\ n \in Seq(Segments) /\ tree[n].handlers[m] \in Funcs \cup {Nil}
      /\ tree[n].handlers[m] = IF n \in Patterns THEN regs[<<m, n>>] ELSE Nil
  BY DEF TreeInv, TreeType, HoldsRegs
<1>2. \A p \in Under(m, path, n) : p \in Registered(m) BY DEF Under
<1>3. CASE tree[n].handlers[m] = Nil
  <2>1. n \notin Registered(m) BY <1>1, <1>3 DEF Registered
  <2>2. Under(m, path, n) = {} BY <1>2, <2>1
  <2>3. Own(m, n, list) = [list |-> list, has |-> FALSE] BY <1>3 DEF Own, Missing
  <2> QED BY <2>2, <2>3 DEF Right
<1>4. CASE tree[n].handlers[m] # Nil
  <2> DEFINE f == tree[n].handlers[m]
             l == Append(list, f)
  <2>1. f \in Func /\ n \in Registered(m) /\ regs[<<m, n>>] = f
    BY <1>1, <1>4, RouterConstants DEF Registered
  <2>2. Own(m, n, list) = Found(l) BY <1>4 DEF Own
  <2> HIDE DEF f
  <2>3. l \in Seq(Func) /\ l # <<>> /\ Last(l) = f
    <3>1. l \in Seq(Func) /\ Len(l) = Len(list) + 1 /\ l[Len(list) + 1] = f
          /\ Len(list) \in Nat
      BY <2>1
    <3> HIDE DEF l
    <3>2. l # <<>> BY <3>1
    <3> QED BY <3>1, <3>2 DEF Last
  <2>4. Under(m, path, n) = {n} BY <1>2, <2>1
  <2>5. n \in Best(m, Under(m, path, n)) BY <2>4 DEF Best
  <2> HIDE DEF l
  <2> QED BY <2>1, <2>2, <2>3, <2>5, FoundIsRight
<1> QED BY <1>3, <1>4

(* Concatenation keeps what the second list ends with.                     *)
LEMMA LastOfBoth ==
    ASSUME NEW a \in Seq(Func), NEW b \in Seq(Func), b # <<>>
    PROVE  a \o b \in Seq(Func) /\ a \o b # <<>> /\ Last(a \o b) = Last(b)
<1> DEFINE c == a \o b
<1>1. c \in Seq(Func) /\ Len(c) = Len(a) + Len(b) BY DEF c
<1>2. Len(a) \in Nat /\ Len(b) \in Nat /\ Len(b) # 0 OBVIOUS
<1>3. c[Len(a) + Len(b)] = b[Len(b)] BY <1>2
<1> HIDE DEF c
<1>4. c # <<>> BY <1>1, <1>2
<1> QED BY <1>1, <1>3, <1>4 DEF Last, c

(* The preference among the children is that of the closest pattern.       *)
LEMMA PreferIsRight ==
    ASSUME NEW m \in Methods, NEW w \in Seq(Func), NEW e, NEW d, NEW s,
           NEW E, NEW D, NEW S,
           Right(m, e, E), Right(m, d, D), Right(m, s, S),
           \A p \in E, q \in D \cup S : Closer(p, q),
           \A p \in D, q \in S : Closer(p, q)
    PROVE  Right(m, Prefer(w, s, d, e), E \cup D \cup S)
<1> DEFINE U == E \cup D \cup S
<1>0. \A r \in {e, d, s} : r \in [list : Seq(Func), has : BOOLEAN] BY DEF Right
<1>1. CASE e.has
  <2> DEFINE l == w \o e.list
  <2>1. Prefer(w, s, d, e) = Found(l)
    BY <1>1 DEF Prefer
  <2>2. E # {} /\ e.list # <<>> /\ e.list \in Seq(Func) BY <1>0, <1>1 DEF Right
  <2>3. PICK p \in Best(m, E) : Last(e.list) = regs[<<m, p>>] BY <1>1 DEF Right
  <2>4. p \in Best(m, U) BY DEF Best
  <2>5. l \in Seq(Func) /\ l # <<>> /\ Last(l) = Last(e.list) BY <2>2, LastOfBoth
  <2> HIDE DEF l, U
  <2>6. Right(m, Found(l), U) BY <2>3, <2>4, <2>5, FoundIsRight
  <2> QED BY <2>1, <2>6 DEF U
<1>2. CASE ~e.has /\ d.has
  <2> DEFINE l == w \o d.list
  <2>1. Prefer(w, s, d, e) = Found(l)
    BY <1>2 DEF Prefer
  <2>2. D # {} /\ E = {} /\ d.list # <<>> /\ d.list \in Seq(Func) BY <1>0, <1>2 DEF Right
  <2>3. PICK p \in Best(m, D) : Last(d.list) = regs[<<m, p>>] BY <1>2 DEF Right
  <2>4. p \in Best(m, U) BY <2>2 DEF Best
  <2>5. l \in Seq(Func) /\ l # <<>> /\ Last(l) = Last(d.list) BY <2>2, LastOfBoth
  <2> HIDE DEF l, U
  <2>6. Right(m, Found(l), U) BY <2>3, <2>4, <2>5, FoundIsRight
  <2> QED BY <2>1, <2>6 DEF U
<1>3. CASE ~e.has /\ ~d.has /\ s.has
  <2> DEFINE v == w \o e.list
             l == v \o s.list
  <2>1. Prefer(w, s, d, e) = Found(l)
    BY <1>3 DEF Prefer
  <2>2. S # {} /\ E = {} /\ D = {} /\ s.list # <<>> /\ s.list \in Seq(Func)
    BY <1>0, <1>3 DEF Right
  <2>3. PICK p \in Best(m, S) : Last(s.list) = regs[<<m, p>>] BY <1>3 DEF Right
  <2>4. p \in Best(m, U) BY <2>2 DEF Best
  <2>5. v \in Seq(Func) BY <1>0
  <2> HIDE DEF v
  <2>6. l \in Seq(Func) /\ l # <<>> /\ Last(l) = Last(s.list) BY <2>2, <2>5, LastOfBoth
  <2> HIDE DEF l, U
  <2>7. Right(m, Found(l), U) BY <2>3, <2>4, <2>6, FoundIsRight
  <2> QED BY <2>1, <2>7 DEF U
<1>4. CASE ~e.has /\ ~d.has /\ ~s.has
  <2>1. Prefer(w, s, d, e) = [list |-> e.list, has |-> FALSE]
    BY <1>4 DEF Prefer, Missing
  <2>2. U = {} /\ e.list \in Seq(Func) BY <1>0, <1>4 DEF Right
  <2> QED BY <2>1, <2>2 DEF Right
<1>5. e.has \in BOOLEAN /\ d.has \in BOOLEAN /\ s.has \in BOOLEAN BY <1>0
<1> QED BY <1>1, <1>2, <1>3, <1>4, <1>5

-----------------------------------------------------------------------------
(* One node of the search, given that its children are right.              *)

LEMMA SameNode ==
    ASSUME NEW p \in Seq(Segments), NEW n \in Seq(Segments), Starts(p, n), Len(p) = Len(n)
    PROVE  p = n
BY DEF Starts

LEMMA FitsBelow ==
    ASSUME NEW p \in Seq(Segments), NEW path \in Seq(Segments), NEW k \in Nat, k < Len(p)
    PROVE  /\ Fits(p, path, k) => Fits(p, path, k + 1)
           /\ Fits(p, path, k + 1) /\ p[k + 1] = path[k + 1] => Fits(p, path, k)
           /\ Fits(p, path, k + 1) /\ p[k + 1] = Dot /\ Last(p) # Star => Fits(p, path, k)
           /\ Fits(p, path, k + 1) /\ p[k + 1] = Star /\ k + 1 = Len(p) => Fits(p, path, k)
<1>1. /\ \A j \in (k + 1)..Len(p) : j = k + 1 \/ j \in (k + 1 + 1)..Len(p)
      /\ \A j \in (k + 1)..(Len(p) - 1) : j = k + 1 \/ j \in (k + 1 + 1)..(Len(p) - 1)
      /\ \A j \in (k + 1 + 1)..Len(p) : j \in (k + 1)..Len(p)
      /\ \A j \in (k + 1 + 1)..(Len(p) - 1) : j \in (k + 1)..(Len(p) - 1)
  OBVIOUS
<1>2. CASE p # <<>> /\ Last(p) = Star BY <1>1, <1>2 DEF Fits, Last
<1>3. CASE ~(p # <<>> /\ Last(p) = Star)
  <2>1. p # <<>> OBVIOUS
  <2> QED BY <1>1, <1>3, <2>1 DEF Fits, Last
<1> QED BY <1>2, <1>3

LEMMA CloserAt ==
    ASSUME NEW p \in Seq(Segments), NEW q \in Seq(Segments), NEW n \in Seq(Segments),
           Starts(p, n), Starts(q, n), Len(n) < Len(p), Len(n) < Len(q),
           Rank(p[Len(n) + 1]) > Rank(q[Len(n) + 1])
    PROVE  Closer(p, q)
<1>1. SubSeq(p, 1, Len(n)) = n /\ SubSeq(q, 1, Len(n)) = n BY StartIsPart
<1> DEFINE j == Len(n) + 1
<1>2. j \in DOMAIN p \cap DOMAIN q /\ j - 1 = Len(n) OBVIOUS
<1>3. SubSeq(p, 1, j - 1) = SubSeq(q, 1, j - 1) /\ Rank(p[j]) > Rank(q[j]) BY <1>1, <1>2
<1> HIDE DEF j
<1> QED BY <1>2, <1>3 DEF Closer

(* The patterns through n and on through the child s.                      *)
LEMMA UnderChild ==
    ASSUME TreeInv, NEW m \in Methods, NEW path \in Seq(Segments), NEW n \in Seq(Segments),
           NEW s \in Segments, NEW p
    PROVE  p \in Under(m, path, Append(n, s)) <=>
              /\ p \in Registered(m) /\ Starts(p, n) /\ Len(n) < Len(p)
              /\ p[Len(n) + 1] = s /\ Fits(p, path, Len(n) + 1)
<1>1. Len(Append(n, s)) = Len(n) + 1 OBVIOUS
<1>2. p \in Registered(m) => p \in Seq(Segments) BY RegisteredThere
<1> QED BY <1>1, <1>2, StartsNext DEF Under

(* They are those through n, when n is an ordinary node above the path's   *)
(* end: through the path's own segment, "." and "*".                       *)
LEMMA Branches ==
    ASSUME TreeInv, NEW m \in Methods, NEW path \in Seq(Segments), NEW n \in Seq(Segments),
           Len(n) < Len(path), n = <<>> \/ Last(n) \notin {Star, Dot},
           NEW p \in Registered(m)
    PROVE  p \in Under(m, path, n) <=>
             \/ /\ path[Len(n) + 1] \notin {Star, Dot}
                /\ p \in Under(m, path, Append(n, path[Len(n) + 1]))
             \/ p \in Under(m, path, Append(n, Dot))
             \/ p \in Under(m, path, Append(n, Star))
<1> DEFINE k == Len(n)
<1>0. k \in Nat /\ p \in Seq(Segments) /\ Len(p) \in Nat /\ path[k + 1] \in Segments
  <2>1. p \in Seq(Segments) BY RegisteredThere
  <2>2. k + 1 \in 1..Len(path) OBVIOUS
  <2> QED BY <2>1, <2>2
<1>1. /\ \A j \in 1..Len(p) : p[j] = Star => j = Len(p)
      /\ \A j, h \in 1..Len(p) : p[j] = Dot => p[h] # Star
  BY <1>0, RegisteredThere, ValidPattern
<1>2. ASSUME p \in Under(m, path, n), Len(p) = k PROVE FALSE
  <2>1. Starts(p, n) /\ Fits(p, path, k) BY <1>2 DEF Under
  <2>2. p = n BY <1>0, <1>2, <2>1, SameNode
  <2> QED BY <1>0, <2>1, <2>2 DEF Fits
<1>3. ASSUME p \in Under(m, path, n)
      PROVE  \/ path[k + 1] \notin {Star, Dot} /\ p[k + 1] = path[k + 1]
             \/ p[k + 1] \in {Star, Dot}
  <2>1. Fits(p, path, k) BY <1>3 DEF Under
  <2>2. k < Len(p) BY <1>0, <1>2, <1>3 DEF Under, Starts
  <2>3. k + 1 \in 1..Len(p) /\ Len(p) \in 1..Len(p) /\ p # <<>> BY <1>0, <2>2
  <2>4. CASE Last(p) = Star
    <3>1. CASE k + 1 = Len(p) BY <2>4, <3>1 DEF Last
    <3>2. CASE k + 1 # Len(p)
      <4>1. k + 1 \in (k + 1)..(Len(p) - 1) BY <1>0, <2>3, <3>2
      <4> QED BY <2>1, <2>3, <2>4, <4>1 DEF Fits
    <3> QED BY <3>1, <3>2
  <2>5. CASE Last(p) # Star
    <3>1. k + 1 \in (k + 1)..Len(p) BY <1>0, <2>3
    <3> QED BY <2>1, <2>3, <2>5, <3>1 DEF Fits
  <2> QED BY <2>4, <2>5
<1>4. ASSUME p \in Under(m, path, n)
      PROVE  Starts(p, n) /\ k < Len(p) /\ Fits(p, path, k + 1)
  <2>1. k < Len(p) BY <1>0, <1>2, <1>4 DEF Under, Starts
  <2> QED BY <1>0, <1>4, <2>1, FitsBelow DEF Under
<1>5. ASSUME Starts(p, n), k < Len(p), Fits(p, path, k + 1),
             \/ p[k + 1] = path[k + 1]
             \/ p[k + 1] \in {Star, Dot}
      PROVE  p \in Under(m, path, n)
  <2>1. k + 1 \in 1..Len(p) /\ Len(p) \in 1..Len(p) BY <1>0, <1>5
  <2>2. CASE p[k + 1] = path[k + 1]
    <3>1. Fits(p, path, k) BY <1>0, <1>5, <2>2, FitsBelow
    <3> QED BY <1>5, <3>1 DEF Under
  <2>3. CASE p[k + 1] = Dot
    <3>1. Last(p) # Star BY <1>1, <2>1, <2>3 DEF Last
    <3>2. Fits(p, path, k) BY <1>0, <1>5, <2>3, <3>1, FitsBelow
    <3> QED BY <1>5, <3>2 DEF Under
  <2>4. CASE p[k + 1] = Star
    <3>1. k + 1 = Len(p) BY <1>1, <2>1, <2>4
    <3>2. Fits(p, path, k) BY <1>0, <1>5, <2>4, <3>1, FitsBelow
    <3> QED BY <1>5, <3>2 DEF Under
  <2> QED BY <1>5, <2>2, <2>3, <2>4
<1>6. /\ p \in Under(m, path, Append(n, path[k + 1])) <=>
           Starts(p, n) /\ k < Len(p) /\ p[k + 1] = path[k + 1] /\ Fits(p, path, k + 1)
      /\ p \in Under(m, path, Append(n, Dot)) <=>
           Starts(p, n) /\ k < Len(p) /\ p[k + 1] = Dot /\ Fits(p, path, k + 1)
      /\ p \in Under(m, path, Append(n, Star)) <=>
           Starts(p, n) /\ k < Len(p) /\ p[k + 1] = Star /\ Fits(p, path, k + 1)
  BY <1>0, UnderChild, RouterConstants
<1> HIDE DEF k
<1>7. p \in Under(m, path, n) <=>
        \/ path[k + 1] \notin {Star, Dot} /\ p \in Under(m, path, Append(n, path[k + 1]))
        \/ p \in Under(m, path, Append(n, Dot))
        \/ p \in Under(m, path, Append(n, Star))
  BY <1>3, <1>4, <1>5, <1>6
<1> QED BY <1>7 DEF k

(* Below a "." only the path's own segment leads on.                       *)
LEMMA BelowDot ==
    ASSUME TreeInv, NEW m \in Methods, NEW path \in Seq(Segments), NEW n \in Seq(Segments),
           Len(n) <= Len(path), n # <<>>, Last(n) = Dot,
           NEW p \in Registered(m)
    PROVE  p \in Under(m, path, n) <=>
             /\ Len(n) < Len(path) /\ path[Len(n) + 1] \notin {Star, Dot}
             /\ p \in Under(m, path, Append(n, path[Len(n) + 1]))
<1> DEFINE k == Len(n)
<1>0. k \in Nat \ {0} /\ p \in Seq(Segments) /\ Len(p) \in Nat /\ Len(path) \in Nat
  <2>1. p \in Seq(Segments) BY RegisteredThere
  <2>2. k # 0 OBVIOUS
  <2> QED BY <2>1, <2>2
<1>1. /\ \A j \in 1..Len(p) : p[j] = Star => j = Len(p)
      /\ \A j \in 1..Len(p) : p[j] = Dot => j # Len(p)
      /\ \A j, h \in 1..Len(p) : p[j] = Dot => p[h] # Star
      /\ \A j, h \in 1..Len(p) : p[j] = Dot /\ p[h] = Dot => j = h
  BY <1>0, RegisteredThere, ValidPattern
<1>2. ASSUME p \in Under(m, path, n)
      PROVE  /\ k < Len(path) /\ path[k + 1] \notin {Star, Dot}
             /\ p \in Under(m, path, Append(n, path[k + 1]))
  <2>1. Starts(p, n) /\ Fits(p, path, k) BY <1>2 DEF Under
  <2>2. k \in 1..Len(p) /\ p[k] = Dot BY <1>0, <2>1 DEF Starts, Last
  <2>3. k + 1 \in 1..Len(p) /\ Len(p) \in 1..Len(p) /\ p # <<>> BY <1>0, <1>1, <2>2
  <2>4. p[k + 1] \notin {Star, Dot} /\ Last(p) # Star
    <3>1. p[k + 1] # Star /\ p[Len(p)] # Star BY <1>1, <2>2, <2>3
    <3>2. p[k + 1] # Dot BY <1>0, <1>1, <2>2, <2>3
    <3> QED BY <3>1, <3>2 DEF Last
  <2>5. Len(p) = Len(path) /\ k + 1 \in (k + 1)..Len(p) BY <1>0, <2>1, <2>3, <2>4 DEF Fits
  <2>6. p[k + 1] = path[k + 1] BY <2>1, <2>3, <2>4, <2>5 DEF Fits
  <2>7. k < Len(p) /\ Fits(p, path, k + 1) BY <1>0, <2>1, <2>3, FitsBelow
  <2>8. path[k + 1] \in Segments BY <1>0, <2>3, <2>5
  <2> QED BY <2>1, <2>4, <2>5, <2>6, <2>7, <2>8, <1>0, UnderChild
<1>3. ASSUME k < Len(path), p \in Under(m, path, Append(n, path[k + 1]))
      PROVE  p \in Under(m, path, n)
  <2>1. path[k + 1] \in Segments BY <1>0, <1>3
  <2>2. Starts(p, n) /\ k < Len(p) /\ p[k + 1] = path[k + 1] /\ Fits(p, path, k + 1)
    BY <1>3, <2>1, UnderChild
  <2>3. Fits(p, path, k) BY <1>0, <2>2, FitsBelow
  <2> QED BY <2>2, <2>3 DEF Under
<1> QED BY <1>2, <1>3

LEMMA NoneIsRight ==
    ASSUME NEW m \in Methods, NEW list \in Seq(Func), NEW U, U = {}
    PROVE  Right(m, Missing(list), U)
BY DEF Right, Missing

LEMMA VisitIsRight ==
    ASSUME TreeInv, NEW m \in Methods, NEW path \in Seq(Segments), NEW n \in DOMAIN tree,
           Len(n) <= Len(path), NEW got,
           \A s : Append(n, s) \in DOMAIN tree /\ Len(n) < Len(path)
                    => Right(m, got[Append(n, s)], Under(m, path, Append(n, s)))
    PROVE  Right(m, Visit(m, path, n, got), Under(m, path, n))
<1>r. \A p \in Registered(m) : p \in Seq(Segments) /\ Len(p) \in Nat /\ IsValidPatten(p)
  <2> TAKE p \in Registered(m)
  <2>1. p \in Seq(Segments) /\ IsValidPatten(p) BY RegisteredThere
  <2> QED BY <2>1
<1> DEFINE k == Len(n)
           U(s) == Under(m, path, Append(n, s))
           child(s) == IF Append(n, s) \in DOMAIN tree THEN got[Append(n, s)]
                       ELSE Missing(<<>>)
           here == k = Len(path)
           wild == here \/ path[k + 1] \in {Star, Dot}
           exact == IF wild THEN Missing(<<>>) ELSE child(path[k + 1])
           E == IF wild THEN {} ELSE U(path[k + 1])
           V == Visit(m, path, n, got)
<1>0. n \in Seq(Segments) /\ k \in Nat /\ Len(path) \in Nat /\ <<>> \in Seq(Func)
  BY DEF TreeInv, TreeType
<1>1. V = IF n # <<>> /\ Last(n) = Dot THEN IF exact.has THEN exact ELSE Missing(<<>>)
          ELSE IF n # <<>> /\ Last(n) = Star THEN Own(m, n, <<>>)
          ELSE IF here THEN Own(m, n, tree[n].midwirs)
          ELSE Prefer(tree[n].midwirs, child(Star), child(Dot), exact)
  BY DEF Visit
<1>2. ASSUME ~here, NEW s \in Segments PROVE Right(m, child(s), U(s))
  <2>1. CASE Append(n, s) \in DOMAIN tree
    <3>1. k < Len(path) BY <1>0, <1>2
    <3> QED BY <2>1, <3>1
  <2>2. CASE Append(n, s) \notin DOMAIN tree
    <3>1. Append(n, s) \in Seq(Segments) BY <1>0
    <3>2. U(s) = {} BY <2>2, <3>1, NodesOnTheWay
    <3>3. child(s) = Missing(<<>>) BY <2>2
    <3> HIDE DEF child, U
    <3> QED BY <1>0, <3>2, <3>3, NoneIsRight
  <2> QED BY <2>1, <2>2
<1>3. Right(m, exact, E)
  <2>1. CASE wild
    <3>1. exact = Missing(<<>>) /\ E = {} BY <2>1
    <3> HIDE DEF exact, E
    <3> QED BY <1>0, <3>1, NoneIsRight
  <2>2. CASE ~wild
    <3>1. path[k + 1] \in Segments
      <4>1. k + 1 \in 1..Len(path) BY <1>0, <2>2
      <4> QED BY <4>1
    <3>2. exact = child(path[k + 1]) /\ E = U(path[k + 1]) BY <2>2
    <3> HIDE DEF exact, E, child, U
    <3> QED BY <1>2, <2>2, <3>1, <3>2
  <2> QED BY <2>1, <2>2
<1>4. tree[n].midwirs \in Seq(Func)
  <2>1. tree[n].midwirs \in Seq(Mids) BY DEF TreeInv, TreeType
  <2> QED BY <2>1, RouterConstants
<1>5. \A p \in Under(m, path, n) : p \in Registered(m) BY DEF Under
<1>6. \A s, p : p \in U(s) => p \in Registered(m) BY DEF Under
<1>7. CASE n # <<>> /\ Last(n) = Dot
  <2>1. V = IF exact.has THEN exact ELSE Missing(<<>>)
    <3> HIDE DEF V, exact, child, here
    <3>1. Last(n) # Star BY <1>7, RouterConstants
    <3> QED BY <1>1, <1>7, <3>1
  <2>2. Under(m, path, n) = E
    <3>1. ASSUME NEW p \in Registered(m) PROVE p \in Under(m, path, n) <=> p \in E
      <4>1. p \in Under(m, path, n) <=> k < Len(path) /\ path[k + 1] \notin {Star, Dot} /\ p \in U(path[k + 1])
        BY <1>0, <1>7, BelowDot
      <4>2. here <=> ~(k < Len(path)) BY <1>0
      <4> HIDE DEF U
      <4> QED BY <4>1, <4>2
    <3>2. \A p \in E : p \in Registered(m) BY <1>6
    <3> HIDE DEF E
    <3> QED BY <1>5, <3>1, <3>2
  <2> HIDE DEF exact, E, V
  <2>3. exact.has \/ E = {} BY <1>3 DEF Right
  <2>4. Right(m, Missing(<<>>), {}) BY <1>0, NoneIsRight
  <2>5. Right(m, V, E)
    <3>1. CASE exact.has BY <1>3, <2>1, <3>1
    <3>2. CASE ~exact.has
      <4>1. E = {} /\ V = Missing(<<>>) BY <2>1, <2>3, <3>2
      <4> QED BY <2>4, <4>1
    <3> QED BY <3>1, <3>2
  <2> QED BY <2>2, <2>5 DEF V
<1>8. CASE n # <<>> /\ Last(n) = Star
  <2>1. V = Own(m, n, <<>>)
    <3> HIDE DEF V, exact, child, here
    <3>1. Last(n) # Dot BY <1>8, RouterConstants
    <3> QED BY <1>1, <1>8, <3>1
  <2>2. ASSUME NEW p \in Registered(m) PROVE p \in Under(m, path, n) <=> p = n
    <3>1. p \in Seq(Segments) /\ Len(p) \in Nat /\ IsValidPatten(p) BY <1>r
    <3>2. ASSUME p \in Under(m, path, n) PROVE p = n
      <4>1. Starts(p, n) /\ k \in 1..Len(p) /\ p[k] = Star
        <5>1. Starts(p, n) BY <3>2 DEF Under
        <5>2. k # 0 BY <1>0, <1>8
        <5> QED BY <1>0, <1>8, <3>1, <5>1, <5>2 DEF Starts, Last
      <4>2. k = Len(p) BY <3>1, <4>1, ValidPattern
      <4> QED BY <1>0, <3>1, <4>1, <4>2, SameNode
    <3>3. ASSUME p = n PROVE p \in Under(m, path, n)
      BY <1>0, <1>8, <3>3 DEF Under, Starts, Fits
    <3> QED BY <3>2, <3>3
  <2> QED BY <1>0, <2>1, <2>2, OwnIsRight
<1>9. CASE (n = <<>> \/ Last(n) \notin {Star, Dot}) /\ here
  <2>1. V = Own(m, n, tree[n].midwirs) BY <1>1, <1>9
  <2>2. ASSUME NEW p \in Registered(m) PROVE p \in Under(m, path, n) <=> p = n
    <3>1. p \in Seq(Segments) /\ Len(p) \in Nat BY <1>r
    <3>2. ASSUME p \in Under(m, path, n) PROVE p = n
      <4>1. Starts(p, n) /\ Fits(p, path, k) BY <3>2 DEF Under
      <4>2. Len(p) <= Len(path) BY <1>0, <3>1, <4>1 DEF Fits
      <4>3. Len(p) = Len(n) BY <1>0, <1>9, <3>1, <4>1, <4>2 DEF Starts
      <4> QED BY <1>0, <3>1, <4>1, <4>3, SameNode
    <3>3. ASSUME p = n PROVE p \in Under(m, path, n)
      BY <1>0, <1>9, <3>3 DEF Under, Starts, Fits
    <3> QED BY <3>2, <3>3
  <2> QED BY <1>4, <2>1, <2>2, OwnIsRight
<1>10. CASE (n = <<>> \/ Last(n) \notin {Star, Dot}) /\ ~here
  <2> DEFINE w == tree[n].midwirs
             e == exact
             d == child(Dot)
             s == child(Star)
  <2>1. V = Prefer(w, s, d, e) BY <1>1, <1>10
  <2>2. k < Len(path) BY <1>0, <1>10
  <2>3. Right(m, e, E) /\ Right(m, d, U(Dot)) /\ Right(m, s, U(Star))
    <3>1. Star \in Segments /\ Dot \in Segments BY RouterConstants
    <3> HIDE DEF exact, child, E, U
    <3> QED BY <1>2, <1>3, <1>10, <3>1
  <2>4. Under(m, path, n) = E \cup U(Dot) \cup U(Star)
    <3>1. ASSUME NEW p \in Registered(m)
          PROVE  p \in Under(m, path, n) <=> p \in E \cup U(Dot) \cup U(Star)
      <4>1. p \in Under(m, path, n) <=>
             \/ path[k + 1] \notin {Star, Dot} /\ p \in U(path[k + 1])
             \/ p \in U(Dot)
             \/ p \in U(Star)
        BY <1>0, <1>10, <2>2, Branches
      <4> HIDE DEF U
      <4> QED BY <1>10, <4>1
    <3>2. \A p \in E \cup U(Dot) \cup U(Star) : p \in Registered(m)
      BY <1>6
    <3> HIDE DEF E, U
    <3> QED BY <1>5, <3>1, <3>2
  <2>5. ASSUME NEW c \in Segments, NEW p \in U(c)
        PROVE  /\ p \in Seq(Segments) /\ Starts(p, n) /\ k < Len(p) /\ p[k + 1] = c
    <3>1. p \in Registered(m) /\ Starts(p, n) /\ k < Len(p) /\ p[k + 1] = c
      BY <1>0, <2>5, UnderChild
    <3> QED BY <3>1, RegisteredThere
  <2>6. ASSUME NEW p \in E
        PROVE  p \in Seq(Segments) /\ Starts(p, n) /\ k < Len(p) /\ Rank(p[k + 1]) = 2
    <3>1. path[k + 1] \notin {Star, Dot} /\ p \in U(path[k + 1]) BY <2>6
    <3>2. path[k + 1] \in Segments
      <4>1. k + 1 \in 1..Len(path) BY <1>0, <2>2
      <4> QED BY <4>1
    <3> HIDE DEF U
    <3>3. p \in Seq(Segments) /\ Starts(p, n) /\ k < Len(p) /\ p[k + 1] = path[k + 1]
      BY <2>5, <3>1, <3>2
    <3> QED BY <3>1, <3>3 DEF Rank
  <2>7. Rank(Dot) = 1 /\ Rank(Star) = 0 BY RouterConstants DEF Rank
  <2> HIDE DEF U, E
  <2>8. \A p \in E, q \in U(Dot) \cup U(Star) : Closer(p, q)
    <3> TAKE p \in E, q \in U(Dot) \cup U(Star)
    <3>1. q \in Seq(Segments) /\ Starts(q, n) /\ k < Len(q) /\ Rank(q[k + 1]) \in {0, 1}
      BY <2>5, <2>7, RouterConstants
    <3> QED BY <1>0, <2>6, <3>1, CloserAt
  <2>9. \A p \in U(Dot), q \in U(Star) : Closer(p, q)
    <3> TAKE p \in U(Dot), q \in U(Star)
    <3>1. q \in Seq(Segments) /\ Starts(q, n) /\ k < Len(q) /\ Rank(q[k + 1]) = 0
      BY <2>5, <2>7, RouterConstants
    <3>2. p \in Seq(Segments) /\ Starts(p, n) /\ k < Len(p) /\ Rank(p[k + 1]) = 1
      BY <2>5, <2>7, RouterConstants
    <3> QED BY <1>0, <3>1, <3>2, CloserAt
  <2>10. w \in Seq(Func) BY <1>4
  <2> HIDE DEF w, e, d, s, V
  <2>11. Right(m, Prefer(w, s, d, e), E \cup U(Dot) \cup U(Star))
    BY <2>3, <2>8, <2>9, <2>10, PreferIsRight
  <2> QED BY <2>1, <2>4, <2>11 DEF V
<1> QED BY <1>7, <1>8, <1>9, <1>10

-----------------------------------------------------------------------------
(* The search as a whole.                                                  *)

(* A node only looks at its children.                                      *)
LEMMA VisitIsLocal ==
    ASSUME NEW m, NEW path \in Seq(Segments), NEW n \in Seq(Segments),
           Len(n) <= Len(path), NEW g, NEW h,
           \A s : Append(n, s) \in DOMAIN tree /\ Len(n) < Len(path)
                    => g[Append(n, s)] = h[Append(n, s)]
    PROVE  Visit(m, path, n, g) = Visit(m, path, n, h)
<1>1. CASE Len(n) = Len(path) BY <1>1 DEF Visit
<1>2. CASE Len(n) # Len(path)
  <2>1. Len(n) < Len(path) BY <1>2
  <2>2. \A s : (IF Append(n, s) \in DOMAIN tree THEN g[Append(n, s)] ELSE Missing(<<>>))
             = (IF Append(n, s) \in DOMAIN tree THEN h[Append(n, s)] ELSE Missing(<<>>))
    BY <2>1
  <2> QED BY <2>2 DEF Visit
<1> QED BY <1>1, <1>2

(* It is the recursion it was written as.                                  *)
Searched(path) == {n \in DOMAIN tree : Len(n) <= Len(path)}

LEMMA SearchUnfolds ==
    ASSUME TreeInv, NEW m \in Methods, NEW path \in Seq(Segments)
    PROVE  \E get : /\ Search(m, path) = get[<<>>]
                    /\ \A n \in Searched(path) : get[n] = Visit(m, path, n, get)
<1> DEFINE N == {n \in DOMAIN tree : Len(n) <= Len(path)}
           IsGet(t) == t = [n \in N |-> Visit(m, path, n, t)]
           Deep(j) == {n \in N : Len(n) + j > Len(path)}
           Good(j, t) == t = [n \in Deep(j) |-> Visit(m, path, n, t)]
           get[n \in N] == Visit(m, path, n, get)
           Below(n, g, h) == \A s : Append(n, s) \in DOMAIN tree /\ Len(n) < Len(path)
                                      => g[Append(n, s)] = h[Append(n, s)]
<1>1. Search(m, path) = get[<<>>] BY DEF Search
<1>2. get = CHOOSE t : IsGet(t) OBVIOUS
<1> HIDE DEF get
<1>3. \A n \in DOMAIN tree : n \in Seq(Segments) /\ Len(n) \in Nat
  BY DEF TreeInv, TreeType
<1>4. ASSUME NEW j \in Nat, NEW n \in Deep(j + 1), NEW s, Append(n, s) \in DOMAIN tree,
             Len(n) < Len(path)
      PROVE  Append(n, s) \in Deep(j) /\ Append(n, s) \in Deep(j + 1)
  <2>1. Len(Append(n, s)) = Len(n) + 1 BY <1>3
  <2> QED BY <1>3, <1>4, <2>1
<1>5. \A n \in N : n \in Seq(Segments) /\ n \in DOMAIN tree /\ Len(n) <= Len(path)
  BY <1>3
<1>6. N = Deep(Len(path) + 1) /\ Deep(0) = {} BY <1>3
<1>7. \A j \in Nat : \A n \in Deep(j) : n \in N OBVIOUS
<1>8. ASSUME NEW n \in N, NEW g, NEW h, Below(n, g, h)
      PROVE  Visit(m, path, n, g) = Visit(m, path, n, h)
  BY <1>5, <1>8, VisitIsLocal
<1>9. ASSUME NEW j \in Nat, NEW t, Good(j, t) PROVE \E u : Good(j + 1, u)
  <2> DEFINE u == [n \in Deep(j + 1) |-> Visit(m, path, n, t)]
  <2>1. ASSUME NEW n \in Deep(j + 1) PROVE Visit(m, path, n, t) = Visit(m, path, n, u)
    <3>1. Below(n, t, u)
      <4> SUFFICES ASSUME NEW s, Append(n, s) \in DOMAIN tree, Len(n) < Len(path)
                   PROVE  t[Append(n, s)] = u[Append(n, s)]
        OBVIOUS
      <4> DEFINE c == Append(n, s)
      <4>1. c \in Deep(j) /\ c \in Deep(j + 1) BY <1>4
      <4>2. t = [l \in Deep(j) |-> Visit(m, path, l, t)] BY <1>9
      <4> HIDE DEF c, Deep
      <4>3. t[c] = Visit(m, path, c, t) BY <4>1, <4>2
      <4>4. u[c] = Visit(m, path, c, t) BY <4>1
      <4> QED BY <4>3, <4>4 DEF c
    <3>2. n \in N BY <1>7
    <3> HIDE DEF u, Below, N
    <3> QED BY <1>8, <3>1, <3>2
  <2>2. u = [n \in Deep(j + 1) |-> Visit(m, path, n, u)] BY <2>1
  <2> HIDE DEF u
  <2>3. Good(j + 1, u) BY <2>2
  <2> QED BY <2>3
<1>10. \E t : IsGet(t)
  <2> DEFINE T == {j \in Nat : \E t : Good(j, t)}
  <2>1. 0 \in T
    <3> DEFINE t == [n \in Deep(0) |-> Visit(m, path, n, <<>>)]
    <3>1. t = [n \in Deep(0) |-> Visit(m, path, n, t)] BY <1>6
    <3> HIDE DEF t
    <3>2. Good(0, t) BY <3>1
    <3> QED BY <3>2
  <2>2. \A j \in Nat : j \in T => j + 1 \in T
    <3> HIDE DEF Good
    <3> QED BY <1>9
  <2>3. Len(path) + 1 \in T
    <3> HIDE DEF T
    <3> QED BY <2>1, <2>2, AllNumbers
  <2>4. PICK t : Good(Len(path) + 1, t)
    <3> HIDE DEF Good
    <3> QED BY <2>3
  <2>5. t = [n \in Deep(Len(path) + 1) |-> Visit(m, path, n, t)] BY <2>4
  <2>6. IsGet(t)
    <3> HIDE DEF Deep, N
    <3> QED BY <1>6, <2>5
  <2> HIDE DEF IsGet
  <2> QED BY <2>6
<1>11. IsGet(get)
  <2> HIDE DEF IsGet
  <2> QED BY <1>2, <1>10
<1>12. ASSUME NEW n \in N PROVE get[n] = Visit(m, path, n, get)
  <2> HIDE DEF N
  <2> QED BY <1>11
<1> QED BY <1>1, <1>12 DEF Searched

(* So it is by the length of what is left of the path that facts about it  *)
(* are proved: they hold at a node if they do at its children.             *)
Deep(path, j) == {n \in Searched(path) : Len(n) + j > Len(path)}

LEMMA DeeperFirst ==
    ASSUME TreeInv, NEW path \in Seq(Segments), NEW Holds,
           \A n \in Searched(path) :
              (\A s : Append(n, s) \in Searched(path) => Append(n, s) \in Holds) => n \in Holds
    PROVE  Searched(path) \subseteq Holds
<1> DEFINE T == {j \in Nat : Deep(path, j) \subseteq Holds}
<1>1. \A n \in Searched(path) : n \in Seq(Segments) /\ Len(n) \in Nat /\ Len(n) <= Len(path)
  BY DEF TreeInv, TreeType, Searched
<1>2. Len(path) \in Nat OBVIOUS
<1>3. 0 \in T BY <1>1, <1>2 DEF Deep
<1>4. ASSUME NEW j \in Nat, Deep(path, j) \subseteq Holds
      PROVE  Deep(path, j + 1) \subseteq Holds
  <2> SUFFICES ASSUME NEW n \in Deep(path, j + 1) PROVE n \in Holds
    OBVIOUS
  <2>1. n \in Searched(path) /\ Len(n) + j + 1 > Len(path) BY <1>1, <1>2 DEF Deep
  <2>2. ASSUME NEW s, Append(n, s) \in Searched(path) PROVE Append(n, s) \in Holds
    <3>1. Len(Append(n, s)) = Len(n) + 1 BY <1>1, <2>1
    <3>2. Append(n, s) \in Deep(path, j) BY <1>1, <1>2, <2>1, <2>2, <3>1 DEF Deep
    <3> QED BY <1>4, <3>2
  <2> QED BY <2>1, <2>2
<1>5. Len(path) + 1 \in T
  <2>1. \A j \in Nat : j \in T => j + 1 \in T BY <1>4
  <2>2. Len(path) + 1 \in Nat BY <1>2
  <2> HIDE DEF T
  <2> QED BY <1>3, <2>1, <2>2, AllNumbers
<1>6. Searched(path) \subseteq Deep(path, Len(path) + 1) BY <1>1, <1>2 DEF Deep
<1> QED BY <1>5, <1>6

LEMMA SearchIsRight ==
    ASSUME TreeInv, NEW m \in Methods, NEW path \in Seq(Segments), NEW get,
           \A n \in Searched(path) : get[n] = Visit(m, path, n, get)
    PROVE  \A n \in Searched(path) : Right(m, get[n], Under(m, path, n))
<1> DEFINE Holds == {n \in Searched(path) : Right(m, get[n], Under(m, path, n))}
<1>1. ASSUME NEW n \in Searched(path),
             \A s : Append(n, s) \in Searched(path) => Append(n, s) \in Holds
      PROVE  n \in Holds
  <2>1. n \in DOMAIN tree /\ Len(n) <= Len(path) /\ n \in Seq(Segments)
    BY DEF Searched, TreeInv, TreeType
  <2>2. ASSUME NEW s, Append(n, s) \in DOMAIN tree, Len(n) < Len(path)
        PROVE  Right(m, get[Append(n, s)], Under(m, path, Append(n, s)))
    <3>1. Len(Append(n, s)) = Len(n) + 1 /\ Len(n) \in Nat BY <2>1
    <3>2. Append(n, s) \in Searched(path) BY <2>2, <3>1 DEF Searched
    <3> QED BY <1>1, <3>2
  <2>3. Right(m, Visit(m, path, n, get), Under(m, path, n))
    <3> HIDE DEF Holds
    <3> QED BY <2>1, <2>2, VisitIsRight
  <2> QED BY <2>3
<1>2. Searched(path) \subseteq Holds
  <2> HIDE DEF Holds
  <2> QED BY <1>1, DeeperFirst
<1> QED BY <1>2

(* A pattern that matches is one the search owes to the root.              *)
LEMMA MatchesAtRoot ==
    ASSUME NEW p \in Seq(Segments), NEW path \in Seq(Segments)
    PROVE  Matches(p, path) <=> Fits(p, path, 0)
<1>1. CASE p # <<>> /\ Last(p) = Star
  <2> DEFINE f == Front(p)
  <2>1. /\ f \in Seq(Segments) /\ Len(f) = Len(p) - 1 /\ Len(p) \in Nat \ {0}
        /\ \A j \in 1..(Len(p) - 1) : f[j] = p[j]
    <3>1. Len(p) \in Nat \ {0} BY <1>1
    <3>2. f = SubSeq(p, 1, Len(p) - 1) BY DEF Front
    <3>3. Len(p) - 1 \in 0..Len(p) BY <3>1
    <3> HIDE DEF f
    <3> QED BY <3>1, <3>2, <3>3, FirstPart
  <2> HIDE DEF f
  <2>2. ASSUME Len(p) <= Len(path)
        PROVE  IsPrefix(f, path) <=> \A j \in 1..(Len(p) - 1) : p[j] = path[j]
    <3> DEFINE b == SubSeq(path, 1, Len(f))
    <3>1. Len(f) <= Len(path) /\ SubSeq(f, 1, Len(f)) = f BY <2>1, <2>2
    <3>2. b \in Seq(Segments) /\ Len(b) = Len(f) /\ \A j \in 1..Len(f) : b[j] = path[j]
      BY <2>1, <3>1
    <3>3. IsPrefix(f, path) <=> f = b BY <3>1 DEF IsPrefix
    <3> HIDE DEF b
    <3>4. f = b <=> \A j \in 1..Len(f) : f[j] = b[j] BY <2>1, <3>2
    <3> QED BY <2>1, <3>2, <3>3, <3>4
  <2> QED BY <1>1, <2>1, <2>2 DEF Matches, Fits, f
<1>2. CASE ~(p # <<>> /\ Last(p) = Star)
  <2>1. DOMAIN p = 1..Len(p) OBVIOUS
  <2> QED BY <1>2, <2>1 DEF Matches, Fits
<1> QED BY <1>1, <1>2

LEMMA BestIsBestFor ==
    ASSUME TreeInv, NEW m \in Methods, NEW path \in Seq(Segments)
    PROVE  Best(m, Under(m, path, <<>>)) = BestFor(m, path)
<1> DEFINE U == Under(m, path, <<>>)
<1>1. ASSUME NEW p PROVE p \in U <=> p \in Patterns /\ regs[<<m, p>>] # Nil /\ Matches(p, path)
  <2>1. Len(<<>>) = 0 OBVIOUS
  <2>2. p \in Registered(m) => p \in Seq(Segments) /\ Len(p) \in Nat
    <3> SUFFICES ASSUME p \in Registered(m) PROVE p \in Seq(Segments) /\ Len(p) \in Nat
      OBVIOUS
    <3>1. p \in Seq(Segments) BY RegisteredThere
    <3> QED BY <3>1
  <2>3. p \in Seq(Segments) => (Matches(p, path) <=> Fits(p, path, 0)) BY MatchesAtRoot
  <2>4. p \in Seq(Segments) => Starts(p, <<>>) BY <2>1 DEF Starts
  <2> QED BY <2>1, <2>2, <2>3, <2>4 DEF Under, Registered
<1> HIDE DEF U
<1>2. Best(m, U) = BestFor(m, path) BY <1>1 DEF Best, BestFor
<1> QED BY <1>2 DEF U

LEMMA HandlersAreRight ==
    ASSUME TreeInv, NEW m \in Methods, NEW path \in Seq(Segments)
    PROVE  /\ Handlers(m, path) \in Seq(Func)
           /\ IF BestFor(m, path) = {} THEN Handlers(m, path) = <<>>
              ELSE /\ Handlers(m, path) # <<>>
                   /\ \E p \in BestFor(m, path) : Last(Handlers(m, path)) = regs[<<m, p>>]
<1> DEFINE U == Under(m, path, <<>>)
           r == Search(m, path)
<1>1. <<>> \in Seq(Func) /\ <<>> \in Seq(Segments) OBVIOUS
<1>2. Best(m, U) = BestFor(m, path) BY BestIsBestFor
<1>3. Best(m, U) \subseteq U BY DEF Best
<1>4. CASE <<>> \notin DOMAIN tree
  <2>1. U = {} BY <1>1, <1>4, NodesOnTheWay
  <2>2. Handlers(m, path) = <<>> BY <1>4 DEF Handlers
  <2> HIDE DEF U
  <2> QED BY <1>1, <1>2, <1>3, <2>1, <2>2
<1>5. CASE <<>> \in DOMAIN tree
  <2>1. Right(m, r, U)
    <3>1. PICK get : /\ r = get[<<>>]
                     /\ \A n \in Searched(path) : get[n] = Visit(m, path, n, get)
      BY SearchUnfolds
    <3>2. <<>> \in Searched(path) BY <1>5 DEF Searched
    <3> QED BY <3>1, <3>2, SearchIsRight
  <2>2. Handlers(m, path) = IF ~r.has THEN <<>> ELSE r.list BY <1>5 DEF Handlers
  <2> HIDE DEF U, r
  <2>3. CASE r.has
    <3>1. r.list \in Seq(Func) /\ r.list # <<>> BY <2>1, <2>3 DEF Right
    <3>2. \E p \in Best(m, U) : Last(r.list) = regs[<<m, p>>] BY <2>1, <2>3 DEF Right
    <3> QED BY <1>2, <2>2, <2>3, <3>1, <3>2
  <2>4. CASE ~r.has
    <3>1. U = {} BY <2>1, <2>4 DEF Right
    <3> QED BY <1>1, <1>2, <1>3, <2>2, <2>4, <3>1
  <2> QED BY <2>3, <2>4
<1> QED BY <1>4, <1>5

-----------------------------------------------------------------------------
(* Registration keeps the tree and the registrations together.             *)

LEMMA UpdatedTree ==
    ASSUME TreeInv, NEW p \in Seq(Segments)
    PROVE  LET T == UpdateTree(p) IN
           /\ DOMAIN T \subseteq Seq(Segments) /\ p \in DOMAIN T
           /\ DOMAIN tree \subseteq DOMAIN T
           /\ T \in [DOMAIN T -> [midwirs : Seq(Mids),
                                  handlers : [Methods -> Funcs \cup {Nil}]]]
           /\ \A n \in DOMAIN T : \A k \in 0..Len(n) : SubSeq(n, 1, k) \in DOMAIN T
           /\ \A m \in Methods, n \in DOMAIN T :
                 T[n].handlers[m] = IF n \in Patterns THEN regs[<<m, n>>] ELSE Nil
<1> DEFINE T == UpdateTree(p)
           way == {SubSeq(p, 1, k) : k \in 0..Len(p)}
<1>1. DOMAIN T = DOMAIN tree \cup way BY DEF UpdateTree
<1>2. \A n \in DOMAIN T : T[n] = IF n \in DOMAIN tree THEN tree[n] ELSE NewNode
  BY DEF UpdateTree
<1>3. T = [n \in DOMAIN T |-> T[n]] BY DEF UpdateTree
<1>4. \A k \in 0..Len(p) : SubSeq(p, 1, k) \in Seq(Segments) /\ Len(SubSeq(p, 1, k)) = k
  BY FirstPart
<1>5. way \subseteq Seq(Segments) BY <1>4
<1>6. p \in way
  <2>1. Len(p) \in 0..Len(p) OBVIOUS
  <2>2. SubSeq(p, 1, Len(p)) = p OBVIOUS
  <2> QED BY <2>1, <2>2
<1>7. ASSUME NEW n \in way, NEW k \in 0..Len(n) PROVE SubSeq(n, 1, k) \in way
  <2>1. PICK h \in 0..Len(p) : n = SubSeq(p, 1, h) OBVIOUS
  <2>2. Len(n) = h /\ k \in 0..Len(p) /\ k \in 0..h BY <1>4, <2>1
  <2>3. SubSeq(SubSeq(p, 1, h), 1, k) = SubSeq(p, 1, k)
    <3> DEFINE a == SubSeq(p, 1, h)
               b == SubSeq(a, 1, k)
               c == SubSeq(p, 1, k)
    <3>1. a \in Seq(Segments) /\ Len(a) = h /\ \A j \in 1..h : a[j] = p[j]
      BY FirstPart
    <3>2. c \in Seq(Segments) /\ Len(c) = k /\ \A j \in 1..k : c[j] = p[j]
      BY <2>2, FirstPart
    <3> HIDE DEF a, c
    <3>3. b \in Seq(Segments) /\ Len(b) = k /\ \A j \in 1..k : b[j] = a[j]
      BY <2>2, <3>1, FirstPart
    <3> HIDE DEF b
    <3>4. \A j \in 1..k : b[j] = c[j] BY <2>2, <3>1, <3>2, <3>3
    <3>5. b = c BY <3>2, <3>3, <3>4
    <3> QED BY <3>5 DEF a, b, c
  <2> QED BY <2>1, <2>2, <2>3
<1>8. \A m \in Methods : NewNode.handlers[m] = Nil BY DEF NewNode
<1>9. NewNode \in [midwirs : Seq(Mids), handlers : [Methods -> Funcs \cup {Nil}]]
  BY DEF NewNode
<1> HIDE DEF T, way
<1>10. DOMAIN T \subseteq Seq(Segments) /\ p \in DOMAIN T /\ DOMAIN tree \subseteq DOMAIN T
  BY <1>1, <1>5, <1>6 DEF TreeInv, TreeType
<1>11. T \in [DOMAIN T -> [midwirs : Seq(Mids), handlers : [Methods -> Funcs \cup {Nil}]]]
  <2>1. \A n \in DOMAIN T : T[n] \in [midwirs : Seq(Mids),
                                       handlers : [Methods -> Funcs \cup {Nil}]]
    BY <1>2, <1>9 DEF TreeInv, TreeType
  <2> QED BY <1>3, <2>1
<1>12. \A n \in DOMAIN T : \A k \in 0..Len(n) : SubSeq(n, 1, k) \in DOMAIN T
  BY <1>1, <1>7 DEF TreeInv, WayIsThere
<1>13. \A m \in Methods, n \in DOMAIN T :
          T[n].handlers[m] = IF n \in Patterns THEN regs[<<m, n>>] ELSE Nil
  <2> TAKE m \in Methods, n \in DOMAIN T
  <2>1. CASE n \in DOMAIN tree
    <3>1. T[n] = tree[n] BY <1>2, <2>1
    <3> QED BY <2>1, <3>1 DEF TreeInv, HoldsRegs
  <2>2. CASE n \notin DOMAIN tree
    <3>1. T[n] = NewNode BY <1>2, <2>2
    <3>2. n \in Patterns => regs[<<m, n>>] = Nil BY <2>2 DEF TreeInv, HoldsRegs
    <3> QED BY <1>8, <3>1, <3>2
  <2> QED BY <2>1, <2>2
<1> QED BY <1>10, <1>11, <1>12, <1>13 DEF T

LEMMA AddHandlerKeeps ==
    ASSUME TreeInv, NEW m \in Methods, NEW p \in Patterns, NEW f \in Funcs, AddHandler(m, p, f)
    PROVE  TreeInv'
<1>1. CASE ~IsValidPatten(p)
  <2>1. UNCHANGED <<tree, regs>> BY <1>1 DEF AddHandler
  <2> QED BY <2>1 DEF TreeInv, TreeType, WayIsThere, HoldsRegs, IsValidPatten
<1>2. CASE IsValidPatten(p)
  <2> DEFINE T == UpdateTree(p)
  <2>1. p \in Seq(Segments) BY PathConstants
  <2>2. /\ DOMAIN T \subseteq Seq(Segments) /\ p \in DOMAIN T
        /\ DOMAIN tree \subseteq DOMAIN T
        /\ T \in [DOMAIN T -> [midwirs : Seq(Mids),
                               handlers : [Methods -> Funcs \cup {Nil}]]]
        /\ \A n \in DOMAIN T : \A k \in 0..Len(n) : SubSeq(n, 1, k) \in DOMAIN T
        /\ \A l \in Methods, n \in DOMAIN T :
              T[n].handlers[l] = IF n \in Patterns THEN regs[<<l, n>>] ELSE Nil
    BY <2>1, UpdatedTree
  <2>3. tree' = [T EXCEPT ![p].handlers[m] = f] /\ regs' = [regs EXCEPT ![<<m, p>>] = f]
    BY <1>2 DEF AddHandler
  <2> HIDE DEF T
  <2>4. DOMAIN tree' = DOMAIN T BY <2>3
  <2>5. regs \in [Methods \X Patterns -> Funcs \cup {Nil}] BY DEF TreeInv, TreeType
  <2>6. TreeType'
    <3> DEFINE Node == [midwirs : Seq(Mids), handlers : [Methods -> Funcs \cup {Nil}]]
               new == [T[p] EXCEPT !.handlers[m] = f]
    <3>1. T[p] \in Node BY <2>2
    <3>2. new \in Node BY <3>1
    <3>3. tree' = [T EXCEPT ![p] = new] BY <2>3
    <3> HIDE DEF new
    <3>4. T \in [DOMAIN T -> Node] BY <2>2
    <3> HIDE DEF Node
    <3>5. tree' \in [DOMAIN T -> Node] BY <3>2, <3>3, <3>4
    <3>6. regs' \in [Methods \X Patterns -> Funcs \cup {Nil}] BY <2>3, <2>5
    <3> QED BY <2>2, <2>4, <3>5, <3>6 DEF TreeType, Node
  <2>7. WayIsThere' BY <2>2, <2>4 DEF WayIsThere
  <2>8. ASSUME NEW l \in Methods, NEW n \in DOMAIN T
        PROVE  tree'[n].handlers[l] = IF n \in Patterns THEN regs'[<<l, n>>] ELSE Nil
    <3>1. CASE n = p /\ l = m
      <4>1. tree'[p].handlers[m] = f BY <2>2, <2>3
      <4>2. regs'[<<m, p>>] = f BY <2>3, <2>5
      <4> QED BY <3>1, <4>1, <4>2
    <3>2. CASE ~(n = p /\ l = m)
      <4>1. tree'[n].handlers[l] = T[n].handlers[l]
        <5>1. T[n] \in [midwirs : Seq(Mids), handlers : [Methods -> Funcs \cup {Nil}]]
          BY <2>2
        <5> QED BY <2>2, <2>3, <3>2, <5>1
      <4>2. n \in Patterns => regs'[<<l, n>>] = regs[<<l, n>>] BY <2>3, <2>5, <3>2
      <4> QED BY <2>2, <4>1, <4>2
    <3> QED BY <3>1, <3>2
  <2>9. ASSUME NEW l \in Methods, NEW q \in Patterns, regs'[<<l, q>>] # Nil
        PROVE  q \in DOMAIN T /\ IsValidPatten(q)
    <3>1. CASE q = p BY <1>2, <2>2, <3>1
    <3>2. CASE q # p
      <4>1. regs'[<<l, q>>] = regs[<<l, q>>] BY <2>3, <2>5, <3>2
      <4> QED BY <2>2, <2>9, <4>1 DEF TreeInv, HoldsRegs
    <3> QED BY <3>1, <3>2
  <2>10. HoldsRegs' BY <2>4, <2>8, <2>9 DEF HoldsRegs, IsValidPatten
  <2> QED BY <2>6, <2>7, <2>10 DEF TreeInv
<1> QED BY <1>1, <1>2

LEMMA AddMiddlewireKeeps ==
    ASSUME TreeInv, NEW p \in MidPaths, NEW f \in Mids, AddMiddlewire(p, f)
    PROVE  TreeInv'
<1>1. CASE UNCHANGED tree
  <2>1. UNCHANGED regs BY DEF AddMiddlewire
  <2> QED BY <1>1, <2>1 DEF TreeInv, TreeType, WayIsThere, HoldsRegs, IsValidPatten
<1>2. CASE tree' = [UpdateTree(p) EXCEPT ![p].midwirs = Append(@, f)]
  <2> DEFINE T == UpdateTree(p)
             Node == [midwirs : Seq(Mids), handlers : [Methods -> Funcs \cup {Nil}]]
  <2>1. p \in Seq(Segments) BY PathConstants
  <2>2. /\ DOMAIN T \subseteq Seq(Segments) /\ p \in DOMAIN T
        /\ DOMAIN tree \subseteq DOMAIN T
        /\ T \in [DOMAIN T -> Node]
        /\ \A n \in DOMAIN T : \A k \in 0..Len(n) : SubSeq(n, 1, k) \in DOMAIN T
        /\ \A l \in Methods, n \in DOMAIN T :
              T[n].handlers[l] = IF n \in Patterns THEN regs[<<l, n>>] ELSE Nil
    BY <2>1, UpdatedTree
  <2>3. tree' = [T EXCEPT ![p] = [T[p] EXCEPT !.midwirs = Append(T[p].midwirs, f)]]
    BY <1>2
  <2>4. UNCHANGED regs BY DEF AddMiddlewire
  <2> HIDE DEF T
  <2>5. T[p] \in Node /\ Append(T[p].midwirs, f) \in Seq(Mids)
    <3>1. T[p] \in Node BY <2>2
    <3>2. T[p].midwirs \in Seq(Mids) BY <3>1
    <3> QED BY <3>1, <3>2
  <2> DEFINE new == [T[p] EXCEPT !.midwirs = Append(T[p].midwirs, f)]
  <2>6. new \in Node /\ new.handlers = T[p].handlers BY <2>5
  <2> HIDE DEF new
  <2>7. DOMAIN tree' = DOMAIN T /\ tree' \in [DOMAIN T -> Node]
        /\ \A n \in DOMAIN T : tree'[n] = IF n = p THEN new ELSE T[n]
    <3>1. tree' = [T EXCEPT ![p] = new] BY <2>3 DEF new
    <3> HIDE DEF Node
    <3> QED BY <2>2, <2>6, <3>1
  <2>8. TreeType' BY <2>2, <2>4, <2>7 DEF TreeType, TreeInv
  <2>9. WayIsThere' BY <2>2, <2>7 DEF WayIsThere
  <2>10. \A l \in Methods, n \in DOMAIN T :
           tree'[n].handlers[l] = IF n \in Patterns THEN regs[<<l, n>>] ELSE Nil
    BY <2>2, <2>6, <2>7
  <2>11. HoldsRegs'
    <3>1. \A l \in Methods, q \in Patterns :
             regs[<<l, q>>] # Nil => q \in DOMAIN tree' /\ IsValidPatten(q)
      BY <2>2, <2>7 DEF TreeInv, HoldsRegs
    <3> QED BY <2>4, <2>7, <2>10, <3>1 DEF HoldsRegs, IsValidPatten
  <2> QED BY <2>8, <2>9, <2>11 DEF TreeInv
<1> QED BY <1>1, <1>2 DEF AddMiddlewire

(* The tree holds the accepted registrations, in whatever order they came. *)
THEOREM TreeInvariant == Spec => []TreeInv
<1>1. Init => TreeInv
  BY DEF Init, TreeInv, TreeType, WayIsThere, HoldsRegs
<1>2. TreeInv /\ [Next]_vars => TreeInv'
  <2> SUFFICES ASSUME TreeInv, [Next]_vars PROVE TreeInv'
    OBVIOUS
  <2>1. ASSUME UNCHANGED <<tree, regs>> PROVE TreeInv'
    BY <2>1 DEF TreeInv, TreeType, WayIsThere, HoldsRegs, IsValidPatten
  <2>2. ASSUME NEW r \in Requests, NEW m \in Methods, NEW path \in Paths, ServeHTTP(r, m, path)
        PROVE  TreeInv'
    BY <2>1, <2>2 DEF ServeHTTP
  <2>3. ASSUME NEW r \in Requests, Run(r) PROVE TreeInv'
    BY <2>1, <2>3 DEF Run
  <2>4. CASE UNCHANGED vars BY <2>1, <2>4 DEF vars
  <2> QED BY <2>2, <2>3, <2>4, AddHandlerKeeps, AddMiddlewireKeeps DEF Next
<1> QED BY <1>1, <1>2, PTL DEF Spec

(* A request is given to the handler of the pattern that matches its path  *)
(* best, and to none exactly when no pattern matches: the backtracking     *)
(* search never loses a match to a branch that looked closer.              *)
THEOREM BestPatternAlwaysWins == Spec => []BestPatternWins
<1>1. TreeInv => BestPatternWins
  <2> SUFFICES ASSUME TreeInv, NEW m \in Methods, NEW path \in Paths
               PROVE  LET chain == Handlers(m, path) best == BestFor(m, path) IN
                      IF best = {} THEN chain = <<>>
                      ELSE chain # <<>> /\ \E p \in best : Last(chain) = regs[<<m, p>>]
    BY DEF BestPatternWins
  <2>1. path \in Seq(Segments) BY PathConstants
  <2> QED BY <2>1, HandlersAreRight
<1> QED BY <1>1, TreeInvariant, PTL

(* The router gives the contexts chains of handlers and nothing else: what *)
(* holds of the contexts for all chains holds of them in the router.       *)
THEOREM ImplementsContext == Spec => ContextSpec
<1>1. Init => ContextInit BY DEF Init
<1>2. TreeInv /\ [Next]_vars => [ContextNext]_ctx
  <2> SUFFICES ASSUME TreeInv, [Next]_vars PROVE [ContextNext]_ctx
    OBVIOUS
  <2>1. ASSUME NEW m \in Methods, NEW p \in Patterns, NEW f \in Funcs, AddHandler(m, p, f)
        PROVE  UNCHANGED ctx
    BY <2>1 DEF AddHandler
  <2>2. ASSUME NEW p \in MidPaths, NEW f \in Mids, AddMiddlewire(p, f)
        PROVE  UNCHANGED ctx
    BY <2>2 DEF AddMiddlewire
  <2>3. ASSUME NEW r \in Requests, NEW m \in Methods, NEW path \in Paths, ServeHTTP(r, m, path)
        PROVE  ContextNext
    <3>1. CASE NotFound(r) BY <3>1 DEF ContextNext, Step
    <3>2. CASE Begin(r, Handlers(m, path))
      <4>1. path \in Seq(Segments) BY PathConstants
      <4>2. Handlers(m, path) \in Seq(Func) BY <4>1, HandlersAreRight
      <4> QED BY <3>2, <4>2 DEF ContextNext
    <3> QED BY <2>3, <3>1, <3>2 DEF ServeHTTP
  <2>4. ASSUME NEW r \in Requests, Run(r) PROVE ContextNext
    BY <2>4 DEF Run, ContextNext, Step
  <2>5. CASE UNCHANGED vars BY <2>5 DEF vars
  <2> QED BY <2>1, <2>2, <2>3, <2>4, <2>5 DEF Next
<1> QED BY <1>1, <1>2, TreeInvariant, PTL DEF Spec, ContextSpec

(* So the chains that the router finds are called in order.                *)
THEOREM RoutedInOrder == Spec => []InOrder
BY ImplementsContext, HandlersAreInOrder, PTL

-----------------------------------------------------------------------------
(* The middlewires that the search collects.                               *)

(* Up to its "." or "*" a pattern is literal; so is a node above them.     *)
Wild(p) == {j \in DOMAIN p : p[j] \in {Dot, Star}}
Literal(p) == IF Wild(p) = {} THEN Len(p) ELSE (CHOOSE j \in Wild(p) : TRUE) - 1
Plain(n) == \A j \in 1..Len(n) : n[j] \notin {Star, Dot}

LEMMA LiteralPart ==
    ASSUME NEW p \in Seq(Segments), IsValidPatten(p)
    PROVE  /\ Literal(p) \in 0..Len(p)
           /\ \A j \in 1..Literal(p) : p[j] \notin {Star, Dot}
           /\ Literal(p) < Len(p) => p[Literal(p) + 1] \in {Star, Dot}
<1>1. DOMAIN p = 1..Len(p) /\ Len(p) \in Nat OBVIOUS
<1>2. \A j, k \in Wild(p) : j = k
  <2> SUFFICES ASSUME NEW j \in Wild(p), NEW k \in Wild(p) PROVE j = k
    OBVIOUS
  <2>1. j \in 1..Len(p) /\ k \in 1..Len(p) /\ p[j] \in {Dot, Star} /\ p[k] \in {Dot, Star}
    BY <1>1 DEF Wild
  <2> QED BY <2>1, ValidPattern
<1>3. CASE Wild(p) = {}
  <2>1. Literal(p) = Len(p) BY <1>3 DEF Literal
  <2> QED BY <1>1, <1>3, <2>1 DEF Wild
<1>4. CASE Wild(p) # {}
  <2>1. PICK w \in Wild(p) : w = CHOOSE j \in Wild(p) : TRUE BY <1>4
  <2>2. Literal(p) = w - 1 BY <1>4, <2>1 DEF Literal
  <2>3. w \in 1..Len(p) /\ p[w] \in {Star, Dot} BY <1>1 DEF Wild
  <2>4. \A j \in 1..(w - 1) : j \in 1..Len(p) /\ j # w BY <1>1, <2>3
  <2>5. \A j \in 1..(w - 1) : p[j] \notin {Star, Dot} BY <1>1, <1>2, <2>4 DEF Wild
  <2> QED BY <1>1, <2>2, <2>3, <2>5
<1> QED BY <1>3, <1>4

(* A pattern through a literal node is literal at least so far.            *)
LEMMA LiteralAbove ==
    ASSUME TreeInv, NEW m \in Methods, NEW path, NEW n \in Seq(Segments), Plain(n),
           NEW p \in Under(m, path, n)
    PROVE  /\ Literal(p) \in Nat /\ Len(n) <= Literal(p) /\ Literal(p) <= Len(p)
           /\ Literal(p) = Len(n) <=> Len(p) = Len(n) \/ p[Len(n) + 1] \in {Star, Dot}
<1>1. p \in Seq(Segments) /\ IsValidPatten(p) /\ Starts(p, n)
  BY RegisteredThere DEF Under
<1>2. /\ Literal(p) \in 0..Len(p)
      /\ \A j \in 1..Literal(p) : p[j] \notin {Star, Dot}
      /\ Literal(p) < Len(p) => p[Literal(p) + 1] \in {Star, Dot}
  BY <1>1, LiteralPart
<1>3. Len(p) \in Nat /\ Len(n) \in Nat /\ Len(n) <= Len(p) BY <1>1 DEF Starts
<1>4. \A j \in 1..Len(n) : p[j] \notin {Star, Dot} BY <1>1 DEF Starts, Plain
<1> DEFINE k == Len(n)
           l == Literal(p)
<1> HIDE DEF k, l
<1>5. k <= l
  <2> SUFFICES ASSUME l < k PROVE FALSE BY <1>2, <1>3 DEF k, l
  <2>1. l + 1 \in 1..k /\ l < Len(p) BY <1>2, <1>3 DEF k, l
  <2> QED BY <1>2, <1>4, <2>1 DEF k, l
<1>6. ASSUME l = k, Len(p) # k PROVE p[k + 1] \in {Star, Dot}
  <2>1. l < Len(p) BY <1>2, <1>3, <1>6 DEF k, l
  <2> QED BY <1>2, <1>6, <2>1 DEF l
<1>7. ASSUME Len(p) = k \/ p[k + 1] \in {Star, Dot} PROVE l = k
  <2> SUFFICES ASSUME l # k PROVE FALSE OBVIOUS
  <2>1. k + 1 \in 1..l /\ Len(p) # k BY <1>2, <1>3, <1>5 DEF k, l
  <2> QED BY <1>2, <1>7, <2>1 DEF l
<1> QED BY <1>2, <1>3, <1>5, <1>6, <1>7 DEF k, l

(* The middlewires of the path's nodes from the i-th to the k-th.          *)
MidsAt(path, k) ==
    IF SubSeq(path, 1, k) \in DOMAIN tree THEN tree[SubSeq(path, 1, k)].midwirs ELSE <<>>
From(path, l, k) == FlattenSeq([j \in 1..(k - l + 1) |-> MidsAt(path, l + j - 1)])

LEMMA MidsAreFuncs ==
    ASSUME TreeInv
    PROVE  /\ \A n \in DOMAIN tree : tree[n].midwirs \in Seq(Func)
           /\ \A path, k : MidsAt(path, k) \in Seq(Func)
<1>1. Seq(Mids) \subseteq Seq(Func)
  <2>1. Mids \subseteq Func BY RouterConstants
  <2> QED BY <2>1
<1>2. \A n \in DOMAIN tree : tree[n].midwirs \in Seq(Mids) BY DEF TreeInv, TreeType
<1>3. <<>> \in Seq(Func) OBVIOUS
<1> QED BY <1>1, <1>2, <1>3 DEF MidsAt

LEMMA FromStep ==
    ASSUME TreeInv, NEW path \in Seq(Segments), NEW l \in Nat, NEW k \in Nat, l <= k + 1
    PROVE  /\ From(path, l, k) \in Seq(Func)
           /\ l = k + 1 => From(path, l, k) = <<>>
           /\ l <= k => From(path, l, k) = MidsAt(path, l) \o From(path, l + 1, k)
           /\ l = k => From(path, l, k) = MidsAt(path, l)
<1> DEFINE S(a) == [j \in 1..(k - a + 1) |-> MidsAt(path, a + j - 1)]
<1>1. ASSUME NEW a \in Nat, a <= k + 1
      PROVE  /\ S(a) \in Seq(Seq(Func)) /\ Len(S(a)) = k - a + 1
             /\ From(path, a, k) \in Seq(Func)
             /\ a = k + 1 => From(path, a, k) = <<>>
  <2>1. k - a + 1 \in Nat BY <1>1
  <2>2. S(a) \in [1..(k - a + 1) -> Seq(Func)] BY MidsAreFuncs
  <2>3. S(a) \in Seq(Seq(Func)) /\ Len(S(a)) = k - a + 1
    <3> DEFINE n == k - a + 1
               sa == S(a)
    <3>1. n \in Nat /\ sa \in [1..n -> Seq(Func)] BY <2>1, <2>2
    <3> HIDE DEF n, sa
    <3>2. sa \in Seq(Seq(Func)) /\ Len(sa) = n BY <3>1
    <3> QED BY <3>2 DEF n, sa
  <2>4. From(path, a, k) = FlattenSeq(S(a)) BY DEF From
  <2> HIDE DEF S
  <2>5. From(path, a, k) \in Seq(Func) BY <2>3, <2>4, FlatOfBoth
  <2>6. ASSUME a = k + 1 PROVE From(path, a, k) = <<>>
    <3>1. Len(S(a)) = 0 BY <1>1, <2>3, <2>6
    <3>2. S(a) = <<>> BY <2>3, <3>1
    <3> QED BY <2>4, <3>1, <3>2 DEF FlattenSeq
  <2> QED BY <2>3, <2>5, <2>6
<1>2. ASSUME l <= k PROVE From(path, l, k) = MidsAt(path, l) \o From(path, l + 1, k)
  <2> DEFINE x == MidsAt(path, l)
             one == <<x>>
             s == S(l)
             t == S(l + 1)
             v == one \o t
  <2>1. /\ s \in Seq(Seq(Func)) /\ Len(s) = k - l + 1
        /\ t \in Seq(Seq(Func)) /\ Len(t) = k - l
    <3>1. l + 1 \in Nat /\ l + 1 <= k + 1 /\ k - (l + 1) + 1 = k - l BY <1>2
    <3> HIDE DEF S
    <3> QED BY <1>1, <3>1
  <2>2. \A j \in 1..(k - l + 1) : s[j] = MidsAt(path, l + j - 1) BY <2>1
  <2>3. \A j \in 1..(k - l) : t[j] = MidsAt(path, l + j)
    <3> TAKE j \in 1..(k - l)
    <3>1. l + 1 + j - 1 = l + j /\ k - (l + 1) + 1 = k - l BY <1>2
    <3> QED BY <3>1
  <2>4. x \in Seq(Func) BY MidsAreFuncs
  <2> HIDE DEF s, t, x, S
  <2>5. one \in Seq(Seq(Func)) /\ Len(one) = 1 /\ one[1] = x BY <2>4
  <2> HIDE DEF one
  <2>6. /\ v \in Seq(Seq(Func)) /\ Len(v) = k - l + 1
        /\ \A j \in 1..(k - l + 1) : v[j] = IF j <= 1 THEN one[j] ELSE t[j - 1]
    <3>1. /\ v \in Seq(Seq(Func)) /\ Len(v) = Len(one) + Len(t)
          /\ \A j \in 1..(Len(one) + Len(t)) :
               v[j] = IF j <= Len(one) THEN one[j] ELSE t[j - Len(one)]
      <4>1. one \in Seq(Seq(Func)) /\ t \in Seq(Seq(Func)) BY <2>1, <2>5
      <4> QED BY <4>1, ConcatIs
    <3>2. Len(one) + Len(t) = k - l + 1 BY <1>2, <2>1, <2>5
    <3> HIDE DEF v
    <3> QED BY <2>5, <3>1, <3>2
  <2> HIDE DEF v
  <2>7. ASSUME NEW j \in 1..(k - l + 1) PROVE v[j] = s[j]
    <3>1. CASE j = 1
      <4>1. l + j - 1 = l /\ j <= 1 BY <3>1
      <4> QED BY <2>2, <2>5, <2>6, <3>1, <4>1 DEF x
    <3>2. CASE j # 1
      <4>1. PICK h \in 1..(k - l) : j = h + 1 BY <1>2, <3>2
      <4>2. j - 1 = h /\ l + j - 1 = l + h /\ ~(j <= 1) BY <4>1
      <4> QED BY <2>2, <2>3, <2>6, <4>1, <4>2
    <3> QED BY <3>1, <3>2
  <2>8. v = s BY <2>1, <2>6, <2>7, SameList
  <2>9. FlattenSeq(v) = FlattenSeq(one) \o FlattenSeq(t) BY <2>1, <2>5, FlatOfBoth DEF v
  <2>10. FlattenSeq(one) = x BY <2>4, FlatOfOne DEF one
  <2>11. From(path, l, k) = FlattenSeq(s) /\ From(path, l + 1, k) = FlattenSeq(t)
    BY DEF From, s, t, S
  <2> QED BY <2>8, <2>9, <2>10, <2>11 DEF x
<1>3. ASSUME l = k PROVE From(path, l, k) = MidsAt(path, l)
  <2>1. l <= k /\ l + 1 = k + 1 /\ l + 1 \in Nat /\ l + 1 <= k + 1 BY <1>3
  <2> HIDE DEF S
  <2>2. From(path, l + 1, k) = <<>> BY <1>1, <2>1
  <2>3. MidsAt(path, l) \in Seq(Func) BY MidsAreFuncs
  <2>4. MidsAt(path, l) \o <<>> = MidsAt(path, l) BY <2>3, NoneJoined
  <2>5. From(path, l, k) = MidsAt(path, l) \o From(path, l + 1, k) BY <1>2, <2>1
  <2> QED BY <2>2, <2>4, <2>5
<1> QED BY <1>1, <1>2, <1>3

(* The beginning of a list.                                                *)
LEMMA PrefixIs ==
    ASSUME NEW S, NEW x \in Seq(S), NEW y \in Seq(S)
    PROVE  IsPrefix(x, y) <=> Len(x) <= Len(y) /\ \A j \in 1..Len(x) : x[j] = y[j]
<1>1. Len(x) \in Nat /\ Len(y) \in Nat OBVIOUS
<1>2. SubSeq(x, 1, Len(x)) = x OBVIOUS
<1>3. CASE Len(x) <= Len(y)
  <2> DEFINE b == SubSeq(y, 1, Len(x))
  <2>1. b \in Seq(S) /\ Len(b) = Len(x) /\ \A j \in 1..Len(x) : b[j] = y[j]
    BY <1>1, <1>3
  <2>2. IsPrefix(x, y) <=> x = b BY <1>2, <1>3 DEF IsPrefix
  <2> HIDE DEF b
  <2>3. x = b <=> \A j \in 1..Len(x) : x[j] = b[j] BY <2>1, SameList
  <2> QED BY <1>3, <2>1, <2>2, <2>3
<1>4. CASE ~(Len(x) <= Len(y)) BY <1>4 DEF IsPrefix
<1> QED BY <1>3, <1>4

LEMMA PrefixOfJoined ==
    ASSUME NEW S, NEW x \in Seq(S), NEW y \in Seq(S), NEW z \in Seq(S)
    PROVE  /\ IsPrefix(x, x \o y) /\ IsPrefix(x, x)
           /\ IsPrefix(y, z) => IsPrefix(x \o y, x \o z)
<1> DEFINE xy == x \o y
           xz == x \o z
<1>1. /\ xy \in Seq(S) /\ Len(xy) = Len(x) + Len(y)
      /\ \A j \in 1..(Len(x) + Len(y)) : xy[j] = IF j <= Len(x) THEN x[j] ELSE y[j - Len(x)]
  BY ConcatIs
<1>2. /\ xz \in Seq(S) /\ Len(xz) = Len(x) + Len(z)
      /\ \A j \in 1..(Len(x) + Len(z)) : xz[j] = IF j <= Len(x) THEN x[j] ELSE z[j - Len(x)]
  BY ConcatIs
<1>3. Len(x) \in Nat /\ Len(y) \in Nat /\ Len(z) \in Nat OBVIOUS
<1> HIDE DEF xy, xz
<1>4. IsPrefix(x, x) BY <1>3, PrefixIs
<1>5. IsPrefix(x, xy)
  <2>1. Len(x) <= Len(xy) /\ \A j \in 1..Len(x) : x[j] = xy[j] BY <1>1, <1>3
  <2> QED BY <1>1, <2>1, PrefixIs
<1>6. ASSUME IsPrefix(y, z) PROVE IsPrefix(xy, xz)
  <2>1. Len(y) <= Len(z) /\ \A j \in 1..Len(y) : y[j] = z[j] BY <1>6, PrefixIs
  <2>2. Len(xy) <= Len(xz) BY <1>1, <1>2, <1>3, <2>1
  <2>3. ASSUME NEW j \in 1..Len(xy) PROVE xy[j] = xz[j]
    <3>1. j \in 1..(Len(x) + Len(y)) /\ j \in 1..(Len(x) + Len(z))
      BY <1>1, <1>3, <2>1
    <3>2. CASE j <= Len(x) BY <1>1, <1>2, <3>1, <3>2
    <3>3. CASE ~(j <= Len(x))
      <4>1. j - Len(x) \in 1..Len(y) BY <1>3, <3>1, <3>3
      <4> QED BY <1>1, <1>2, <2>1, <3>1, <3>3, <4>1
    <3> QED BY <3>2, <3>3
  <2> QED BY <1>1, <1>2, <2>2, <2>3, PrefixIs
<1> QED BY <1>4, <1>5, <1>6 DEF xy, xz

(* A list without its last member.                                         *)
LEMMA FirstMembers ==
    ASSUME NEW S, NEW x \in Seq(S), NEW k \in 0..Len(x)
    PROVE  /\ SubSeq(x, 1, k) \in Seq(S) /\ Len(SubSeq(x, 1, k)) = k
           /\ \A j \in 1..k : SubSeq(x, 1, k)[j] = x[j]
OBVIOUS

LEMMA FrontOfAppend ==
    ASSUME NEW S, NEW x \in Seq(S), NEW h \in S
    PROVE  Front(Append(x, h)) = x
<1> DEFINE a == Append(x, h)
           b == SubSeq(a, 1, Len(x))
<1>1. /\ a \in Seq(S) /\ Len(a) = Len(x) + 1 /\ Len(x) \in Nat
      /\ \A j \in 1..Len(x) : a[j] = x[j]
  OBVIOUS
<1> HIDE DEF a
<1>2. b \in Seq(S) /\ Len(b) = Len(x) /\ \A j \in 1..Len(x) : b[j] = a[j] BY <1>1
<1>3. Front(a) = b
  <2>1. Len(a) - 1 = Len(x) BY <1>1
  <2> QED BY <2>1 DEF Front
<1> HIDE DEF b
<1>4. b = x
  <2>1. \A j \in 1..Len(b) : b[j] = x[j] BY <1>1, <1>2
  <2> QED BY <1>2, <2>1, SameList
<1> QED BY <1>3, <1>4 DEF a

LEMMA FrontOfJoined ==
    ASSUME NEW S, NEW x \in Seq(S), NEW y \in Seq(S), y # <<>>
    PROVE  Front(x \o y) = x \o Front(y) /\ Front(y) \in Seq(S)
<1> DEFINE xy == x \o y
           f == SubSeq(y, 1, Len(y) - 1)
           u == SubSeq(xy, 1, Len(xy) - 1)
           v == x \o f
<1>1. Len(x) \in Nat /\ Len(y) \in Nat /\ Len(y) > 0 OBVIOUS
<1>2. /\ xy \in Seq(S) /\ Len(xy) = Len(x) + Len(y)
      /\ \A j \in 1..(Len(x) + Len(y)) : xy[j] = IF j <= Len(x) THEN x[j] ELSE y[j - Len(x)]
  BY ConcatIs
<1>3. f \in Seq(S) /\ Len(f) = Len(y) - 1 /\ \A j \in 1..(Len(y) - 1) : f[j] = y[j]
  <2>1. Len(y) - 1 \in 0..Len(y) BY <1>1
  <2> QED BY <2>1, FirstMembers
<1> HIDE DEF xy, f
<1>4. /\ u \in Seq(S) /\ Len(u) = Len(x) + Len(y) - 1
      /\ \A j \in 1..(Len(x) + Len(y) - 1) : u[j] = xy[j]
  <2>1. Len(xy) - 1 = Len(x) + Len(y) - 1 /\ Len(xy) - 1 \in 0..Len(xy) BY <1>1, <1>2
  <2>2. /\ u \in Seq(S) /\ Len(u) = Len(xy) - 1
        /\ \A j \in 1..(Len(xy) - 1) : u[j] = xy[j]
    BY <1>2, <2>1
  <2> HIDE DEF u
  <2> QED BY <2>1, <2>2
<1>5. /\ v \in Seq(S) /\ Len(v) = Len(x) + Len(f)
      /\ \A j \in 1..(Len(x) + Len(f)) : v[j] = IF j <= Len(x) THEN x[j] ELSE f[j - Len(x)]
  <2>1. f \in Seq(S) BY <1>3
  <2> QED BY <2>1, ConcatIs
<1> HIDE DEF u, v
<1>6. ASSUME NEW j \in 1..Len(u) PROVE u[j] = v[j]
  <2>1. j \in 1..(Len(x) + Len(y) - 1) /\ j \in 1..(Len(x) + Len(y))
        /\ j \in 1..(Len(x) + Len(f))
    BY <1>1, <1>3, <1>4
  <2>2. CASE j <= Len(x) BY <1>2, <1>4, <1>5, <2>1, <2>2
  <2>3. CASE ~(j <= Len(x))
    <3>1. j - Len(x) \in 1..(Len(y) - 1) BY <1>1, <2>1, <2>3
    <3>2. u[j] = y[j - Len(x)] BY <1>2, <1>4, <2>1, <2>3
    <3>3. v[j] = f[j - Len(x)] BY <1>5, <2>1, <2>3
    <3> QED BY <1>3, <3>1, <3>2, <3>3
  <2> QED BY <2>2, <2>3
<1>7. Len(u) = Len(v) BY <1>1, <1>3, <1>4, <1>5
<1>8. u = v BY <1>4, <1>5, <1>6, <1>7, SameList
<1> QED BY <1>3, <1>8 DEF Front, u, v, f, xy

(* What a result holds of middlewires.                                     *)
Taken(r) == IF r.has THEN Front(r.list) ELSE r.list

(* It has none of nodes below a "." or "*"; of the others it has some, in  *)
(* order, among them all those above the wildcard of the pattern found.    *)
Collects(m, path, n, r) ==
    /\ ~Plain(n) => Taken(r) = <<>>
    /\ Plain(n) /\ Starts(path, n) =>
         /\ Taken(r) \in Seq(Func)
         /\ Kept(Taken(r), From(path, Len(n), Len(path)))
         /\ \A p \in Best(m, Under(m, path, n)) :
               IsPrefix(From(path, Len(n), Literal(p)), Taken(r))

LEMMA TakenOfOwn ==
    ASSUME TreeInv, NEW m \in Methods, NEW n \in DOMAIN tree, NEW list \in Seq(Func)
    PROVE  Taken(Own(m, n, list)) = list
<1>1. tree[n].handlers[m] \in Funcs \cup {Nil} BY DEF TreeInv, TreeType
<1>2. CASE tree[n].handlers[m] = Nil BY <1>2 DEF Own, Taken, Missing
<1>3. CASE tree[n].handlers[m] # Nil
  <2> DEFINE h == tree[n].handlers[m]
  <2>1. h \in Func BY <1>1, <1>3, RouterConstants
  <2>2. Taken(Own(m, n, list)) = Front(Append(list, h)) BY <1>3 DEF Own, Taken, Found
  <2> HIDE DEF h
  <2> QED BY <2>1, <2>2, FrontOfAppend
<1> QED BY <1>2, <1>3

(* It is a list, and what a node makes of its children's is known.         *)
LEMMA TakenIsList ==
    ASSUME NEW r, r.list \in Seq(Func), r.has => r.list # <<>>
    PROVE  Taken(r) \in Seq(Func)
<1> DEFINE y == r.list
<1>1. CASE ~r.has BY <1>1 DEF Taken
<1>2. CASE r.has
  <2>1. y \in Seq(Func) /\ y # <<>> /\ Taken(r) = Front(y) BY <1>2 DEF Taken
  <2>2. <<>> \in Seq(Func) OBVIOUS
  <2> HIDE DEF y
  <2> QED BY <2>1, <2>2, FrontOfJoined
<1> QED BY <1>1, <1>2

LEMMA TakenOfPrefer ==
    ASSUME NEW own \in Seq(Func), NEW star, NEW dot, NEW exact,
           \A r \in {star, dot, exact} :
              r.list \in Seq(Func) /\ (r.has => r.list # <<>>)
    PROVE  LET V == Prefer(own, star, dot, exact) IN
           /\ V.has <=> exact.has \/ dot.has \/ star.has
           /\ Taken(V) = IF exact.has THEN own \o Taken(exact)
                         ELSE IF dot.has THEN own \o Taken(dot)
                         ELSE IF star.has THEN (own \o Taken(exact)) \o Taken(star)
                         ELSE Taken(exact)
<1> DEFINE V == Prefer(own, star, dot, exact)
           es == own \o exact.list
<1>1. \A r \in {star, dot, exact} :
         /\ r.list \in Seq(Func)
         /\ r.has => Taken(r) = Front(r.list) /\ r.list # <<>>
         /\ ~r.has => Taken(r) = r.list
  BY DEF Taken
<1>2. ASSUME NEW r \in {star, dot, exact}, r.has
      PROVE  /\ Taken(r) \in Seq(Func)
             /\ \A x \in Seq(Func) : Front(x \o r.list) = x \o Taken(r)
  <2> DEFINE y == r.list
  <2>1. y \in Seq(Func) /\ y # <<>> /\ Taken(r) = Front(y) BY <1>1, <1>2
  <2> HIDE DEF y
  <2>2. \A x \in Seq(Func) : Front(x \o y) = x \o Front(y) /\ Front(y) \in Seq(Func)
    BY <2>1, FrontOfJoined
  <2>3. <<>> \in Seq(Func) OBVIOUS
  <2> QED BY <2>1, <2>2, <2>3 DEF y
<1>3. \A r \in {star, dot, exact} : Taken(r) \in Seq(Func) BY <1>1, <1>2
<1>4. es \in Seq(Func) BY <1>1
<1> DEFINE Is(x) == /\ V.has <=> exact.has \/ dot.has \/ star.has
                    /\ Taken(V) = x
<1>5. ASSUME exact.has PROVE Is(own \o Taken(exact))
  <2>1. V = Found(es) BY <1>5 DEF Prefer
  <2>2. Taken(V) = Front(es) /\ V.has BY <2>1 DEF Found, Taken
  <2>3. Front(es) = own \o Taken(exact) BY <1>2, <1>5
  <2> HIDE DEF V, es
  <2>4. Is(own \o Taken(exact)) BY <1>5, <2>2, <2>3
  <2> QED BY <2>4
<1>6. ASSUME ~exact.has /\ dot.has PROVE Is(own \o Taken(dot))
  <2>1. V = Found(own \o dot.list) BY <1>6 DEF Prefer
  <2>2. Taken(V) = Front(own \o dot.list) /\ V.has BY <2>1 DEF Found, Taken
  <2>3. Front(own \o dot.list) = own \o Taken(dot) BY <1>2, <1>6
  <2> HIDE DEF V, es
  <2>4. Is(own \o Taken(dot)) BY <1>6, <2>2, <2>3
  <2> QED BY <2>4
<1>7. ASSUME ~exact.has /\ ~dot.has /\ star.has PROVE Is((own \o Taken(exact)) \o Taken(star))
  <2>1. V = Found(es \o star.list) BY <1>7 DEF Prefer
  <2>2. Taken(V) = Front(es \o star.list) /\ V.has BY <2>1 DEF Found, Taken
  <2>3. es = own \o Taken(exact) BY <1>1, <1>7
  <2> HIDE DEF es, V
  <2>4. Front(es \o star.list) = es \o Taken(star) BY <1>2, <1>4, <1>7
  <2>5. Taken(V) = (own \o Taken(exact)) \o Taken(star) BY <2>2, <2>3, <2>4
  <2>6. Is((own \o Taken(exact)) \o Taken(star)) BY <1>7, <2>2, <2>5
  <2> QED BY <2>6
<1>8. ASSUME ~exact.has /\ ~dot.has /\ ~star.has PROVE Is(Taken(exact))
  <2>1. V = Missing(exact.list) BY <1>8 DEF Prefer
  <2>2. Taken(V) = exact.list /\ ~V.has BY <2>1 DEF Missing, Taken
  <2>3. exact.list = Taken(exact) BY <1>1, <1>8
  <2> HIDE DEF V, es
  <2>4. Is(Taken(exact)) BY <1>8, <2>2, <2>3
  <2> QED BY <2>4
<1> HIDE DEF V, es
<1>9. /\ V.has <=> exact.has \/ dot.has \/ star.has
      /\ Taken(V) = IF exact.has THEN own \o Taken(exact)
                    ELSE IF dot.has THEN own \o Taken(dot)
                    ELSE IF star.has THEN (own \o Taken(exact)) \o Taken(star)
                    ELSE Taken(exact)
  <2>1. CASE exact.has
    <3>1. Is(own \o Taken(exact)) BY <1>5, <2>1
    <3> QED BY <1>3, <2>1, <3>1
  <2>2. CASE ~exact.has /\ dot.has
    <3>1. Is(own \o Taken(dot)) BY <1>6, <2>2
    <3> QED BY <1>3, <2>2, <3>1
  <2>3. CASE ~exact.has /\ ~dot.has /\ star.has
    <3>1. Is((own \o Taken(exact)) \o Taken(star)) BY <1>7, <2>3
    <3> QED BY <1>3, <2>3, <3>1
  <2>4. CASE ~exact.has /\ ~dot.has /\ ~star.has
    <3>1. Is(Taken(exact)) BY <1>8, <2>4
    <3> QED BY <1>3, <2>4, <3>1
  <2> QED BY <2>1, <2>2, <2>3, <2>4
<1> QED BY <1>9 DEF V

(* Of two patterns through a node only the one that goes on literally can  *)
(* be the closer.                                                          *)
LEMMA NotCloser ==
    ASSUME NEW p \in Seq(Segments), NEW q \in Seq(Segments), NEW n \in Seq(Segments),
           Starts(p, n), Starts(q, n), Len(n) < Len(p), Len(n) < Len(q),
           p[Len(n) + 1] \in {Star, Dot}, q[Len(n) + 1] \notin {Star, Dot}
    PROVE  ~Closer(p, q)
<1> DEFINE k == Len(n)
<1> SUFFICES ASSUME NEW j \in DOMAIN p \cap DOMAIN q,
                    SubSeq(p, 1, j - 1) = SubSeq(q, 1, j - 1), Rank(p[j]) > Rank(q[j])
             PROVE  FALSE
  BY DEF Closer
<1>1. k \in Nat /\ j \in 1..Len(p) /\ j \in 1..Len(q) /\ j \in Nat OBVIOUS
<1>2. /\ \A l \in 1..(j - 1) : SubSeq(p, 1, j - 1)[l] = p[l]
      /\ \A l \in 1..(j - 1) : SubSeq(q, 1, j - 1)[l] = q[l]
  <2>1. j - 1 \in 0..Len(p) /\ j - 1 \in 0..Len(q) BY <1>1
  <2> QED BY <2>1, FirstMembers
<1>3. \A l \in 1..(j - 1) : p[l] = q[l] BY <1>2
<1>4. CASE j <= k
  <2>1. p[j] = q[j] BY <1>1, <1>4 DEF Starts
  <2>2. Rank(p[j]) \in Int BY DEF Rank
  <2> QED BY <2>1, <2>2
<1>5. CASE j = k + 1
  <2>1. p[j] \in {Star, Dot} /\ q[j] \notin {Star, Dot} BY <1>5
  <2>2. Rank(q[j]) = 2 BY <2>1 DEF Rank
  <2>3. Rank(p[j]) \in {0, 1} BY <2>1 DEF Rank
  <2> QED BY <2>2, <2>3
<1>6. CASE j > k + 1
  <2>1. k + 1 \in 1..(j - 1) BY <1>1, <1>6
  <2> QED BY <1>3, <2>1
<1> QED BY <1>1, <1>4, <1>5, <1>6

(* The literal nodes are those without a wildcard on the way.              *)
LEMMA PlainChild ==
    ASSUME NEW n \in Seq(Segments), NEW s \in Segments
    PROVE  /\ Plain(Append(n, s)) <=> Plain(n) /\ s \notin {Star, Dot}
           /\ n # <<>> /\ Last(n) \in {Star, Dot} => ~Plain(n)
<1> DEFINE c == Append(n, s)
<1>1. /\ Len(n) \in Nat /\ Len(c) = Len(n) + 1 /\ c[Len(n) + 1] = s
      /\ \A j \in 1..Len(n) : c[j] = n[j]
  OBVIOUS
<1> HIDE DEF c
<1>2. \A j \in 1..Len(c) : j \in 1..Len(n) \/ j = Len(n) + 1 BY <1>1
<1>3. Len(n) + 1 \in 1..Len(c) /\ \A j \in 1..Len(n) : j \in 1..Len(c) BY <1>1
<1>4. Plain(c) <=> Plain(n) /\ s \notin {Star, Dot} BY <1>1, <1>2, <1>3 DEF Plain
<1>5. ASSUME n # <<>>, Last(n) \in {Star, Dot} PROVE ~Plain(n)
  <2>1. Len(n) \in 1..Len(n) BY <1>5
  <2> QED BY <1>5, <2>1 DEF Plain, Last
<1> QED BY <1>4, <1>5 DEF c

(* Where there is no pattern to find there is nothing to be collected.     *)
LEMMA NothingCollected ==
    ASSUME TreeInv, NEW m \in Methods, NEW path \in Seq(Segments), NEW n \in Seq(Segments),
           Under(m, path, n) = {}
    PROVE  Collects(m, path, n, Missing(<<>>))
<1>1. Taken(Missing(<<>>)) = <<>> BY DEF Taken, Missing
<1>2. <<>> \in Seq(Func) OBVIOUS
<1>3. Best(m, Under(m, path, n)) = {} BY DEF Best
<1>4. ASSUME Starts(path, n) PROVE Kept(<<>>, From(path, Len(n), Len(path)))
  <2>1. Len(n) \in Nat /\ Len(path) \in Nat /\ Len(n) <= Len(path) + 1 BY <1>4 DEF Starts
  <2>2. From(path, Len(n), Len(path)) \in Seq(Func) BY <2>1, FromStep
  <2> QED BY <2>2, NoneKept
<1> QED BY <1>1, <1>2, <1>3, <1>4 DEF Collects

(* The node at which the path ends.                                        *)
LEMMA EndCollects ==
    ASSUME TreeInv, NEW m \in Methods, NEW path \in Seq(Segments), NEW n \in DOMAIN tree,
           Plain(n), Starts(path, n), Len(n) = Len(path)
    PROVE  Collects(m, path, n, Own(m, n, tree[n].midwirs))
<1> DEFINE own == tree[n].midwirs
           k == Len(n)
<1>1. n \in Seq(Segments) /\ k \in Nat /\ Len(path) \in Nat BY DEF TreeInv, TreeType
<1>2. own \in Seq(Func) BY MidsAreFuncs
<1>3. Taken(Own(m, n, own)) = own BY <1>2, TakenOfOwn
<1>4. From(path, k, k) = own
  <2>1. SubSeq(path, 1, k) = n BY <1>1, StartIsPart
  <2>2. MidsAt(path, k) = own BY <2>1 DEF MidsAt
  <2>3. k <= k + 1 /\ k = k BY <1>1
  <2> QED BY <1>1, <2>2, <2>3, FromStep
<1>5. Kept(own, own) BY <1>2, AllKept
<1>6. ASSUME NEW p \in Under(m, path, n) PROVE Literal(p) = k
  <2>1. p \in Registered(m) /\ Starts(p, n) /\ Fits(p, path, k) BY DEF Under
  <2>2. p \in Seq(Segments) BY <2>1, RegisteredThere
  <2>3. Len(p) \in Nat /\ Len(p) <= Len(path) BY <2>1, <2>2 DEF Fits
  <2>4. Len(p) = k BY <1>1, <2>1, <2>3 DEF Starts
  <2> QED BY <1>1, <1>6, <2>4, LiteralAbove
<1>7. IsPrefix(own, own) BY <1>2, PrefixOfJoined
<1>8. \A p \in Best(m, Under(m, path, n)) : p \in Under(m, path, n) BY DEF Best
<1> HIDE DEF own
<1>9. Collects(m, path, n, Own(m, n, own))
  BY <1>2, <1>3, <1>4, <1>5, <1>6, <1>7, <1>8 DEF Collects
<1> QED BY <1>9 DEF own

(* A node of the path above its end, when its children have collected what *)
(* they should.                                                            *)
LEMMA InnerCollects ==
    ASSUME TreeInv, NEW m \in Methods, NEW path \in Seq(Segments), NEW n \in DOMAIN tree,
           Plain(n), Starts(path, n), Len(n) < Len(path),
           NEW e, NEW d, NEW s, NEW E,
           E = IF path[Len(n) + 1] \in {Star, Dot} THEN {}
               ELSE Under(m, path, Append(n, path[Len(n) + 1])),
           Right(m, e, E),
           Right(m, d, Under(m, path, Append(n, Dot))),
           Right(m, s, Under(m, path, Append(n, Star))),
           Taken(d) = <<>>, Taken(s) = <<>>,
           path[Len(n) + 1] \in {Star, Dot} => Taken(e) = <<>>,
           path[Len(n) + 1] \notin {Star, Dot} =>
              Collects(m, path, Append(n, path[Len(n) + 1]), e)
    PROVE  Collects(m, path, n, Prefer(tree[n].midwirs, s, d, e))
<1> DEFINE own == tree[n].midwirs
           k == Len(n)
           x == path[k + 1]
           c == Append(n, x)
           rest == From(path, k + 1, Len(path))
           V == Prefer(own, s, d, e)
           U == Under(m, path, n)
           X == Taken(e)
<1>1. /\ n \in Seq(Segments) /\ k \in Nat /\ Len(path) \in Nat /\ k + 1 <= Len(path)
      /\ x \in Segments /\ k + 1 \in Nat
  <2>1. n \in Seq(Segments) BY DEF TreeInv, TreeType
  <2>2. k + 1 \in 1..Len(path) BY <2>1
  <2> QED BY <2>1, <2>2
<1>2. own \in Seq(Func) BY MidsAreFuncs
<1>3. /\ c \in Seq(Segments) /\ Len(c) = k + 1
      /\ x \notin {Star, Dot} => Plain(c) /\ Starts(path, c)
  <2>1. c \in Seq(Segments) /\ Len(c) = k + 1 BY <1>1
  <2>2. Starts(path, c) BY <1>1, StartsNext
  <2> QED BY <1>1, <2>1, <2>2, PlainChild
<1>4. n = <<>> \/ Last(n) \notin {Star, Dot} BY <1>1, PlainChild
<1>5. MidsAt(path, k) = own
  <2>1. SubSeq(path, 1, k) = n BY <1>1, StartIsPart
  <2> QED BY <2>1 DEF MidsAt
<1>6. rest \in Seq(Func) /\ From(path, k, Len(path)) = own \o rest
  <2>1. k + 1 <= Len(path) + 1 /\ k <= Len(path) + 1 /\ k <= Len(path) BY <1>1
  <2>2. rest \in Seq(Func) BY <1>1, <2>1, FromStep
  <2>3. From(path, k, Len(path)) = MidsAt(path, k) \o rest BY <1>1, <2>1, FromStep
  <2> QED BY <1>5, <2>2, <2>3
<1>7. \A r \in {s, d, e} : r.list \in Seq(Func) /\ (r.has => r.list # <<>>)
  BY DEF Right
<1>8. /\ X \in Seq(Func)
      /\ V.has <=> e.has \/ d.has \/ s.has
      /\ Taken(V) = IF e.has THEN own \o X
                    ELSE IF d.has THEN own \o Taken(d)
                    ELSE IF s.has THEN (own \o X) \o Taken(s)
                    ELSE X
  <2> HIDE DEF own
  <2>1. V.has <=> e.has \/ d.has \/ s.has BY <1>2, <1>7, TakenOfPrefer
  <2>2. Taken(V) = IF e.has THEN own \o Taken(e)
                   ELSE IF d.has THEN own \o Taken(d)
                   ELSE IF s.has THEN (own \o Taken(e)) \o Taken(s)
                   ELSE Taken(e)
    BY <1>2, <1>7, TakenOfPrefer
  <2>3. Taken(e) \in Seq(Func) BY <1>7, TakenIsList
  <2> HIDE DEF V
  <2> QED BY <2>1, <2>2, <2>3
<1>9. Kept(X, rest)
  <2>1. CASE x \in {Star, Dot} BY <1>6, <2>1, NoneKept
  <2>2. CASE x \notin {Star, Dot}
    <3>1. Collects(m, path, c, e) BY <2>2
    <3>2. Kept(X, From(path, Len(c), Len(path)))
      <4> HIDE DEF c
      <4> QED BY <1>3, <2>2, <3>1 DEF Collects
    <3> QED BY <1>3, <3>2
  <2> QED BY <2>1, <2>2
<1>10. <<>> \in Seq(Func) OBVIOUS
<1> HIDE DEF own, X, rest
<1>11. own \o X \in Seq(Func) BY <1>2, <1>8, ConcatIs
<1>12. Taken(V) = IF e.has THEN own \o X
                  ELSE IF d.has THEN own
                  ELSE IF s.has THEN own \o X
                  ELSE X
  <2>1. own \o <<>> = own BY <1>2, NoneJoined
  <2>2. (own \o X) \o <<>> = own \o X BY <1>11, NoneJoined
  <2> HIDE DEF V
  <2> QED BY <1>8, <2>1, <2>2
<1>13. Kept(own \o X, own \o rest) /\ Kept(own, own \o rest) /\ Kept(X, own \o rest)
  <2>1. Kept(own, own) /\ Kept(<<>>, rest) /\ Kept(<<>>, own) BY <1>2, <1>6, AllKept, NoneKept
  <2>2. Kept(own \o X, own \o rest) BY <1>2, <1>6, <1>9, <2>1, BothKept
  <2>3. Kept(own \o <<>>, own \o rest) BY <1>2, <1>6, <2>1, BothKept
  <2>4. Kept(<<>> \o X, own \o rest) BY <1>2, <1>6, <1>9, <2>1, BothKept
  <2>5. own \o <<>> = own /\ <<>> \o X = X BY <1>2, <1>8, NoneJoined
  <2> QED BY <2>2, <2>3, <2>4, <2>5
<1>14. Taken(V) \in Seq(Func) /\ Kept(Taken(V), From(path, k, Len(path)))
  <2> HIDE DEF V
  <2> QED BY <1>2, <1>6, <1>8, <1>11, <1>12, <1>13
<1>15. ASSUME NEW p \in Registered(m)
       PROVE  p \in U <=> \/ p \in E
                          \/ p \in Under(m, path, Append(n, Dot))
                          \/ p \in Under(m, path, Append(n, Star))
  <2>1. p \in U <=> \/ x \notin {Star, Dot} /\ p \in Under(m, path, c)
                    \/ p \in Under(m, path, Append(n, Dot))
                    \/ p \in Under(m, path, Append(n, Star))
    BY <1>1, <1>4, Branches
  <2> HIDE DEF U
  <2> QED BY <2>1
<1>16. \A p \in U : p \in Registered(m) /\ p \in Seq(Segments) /\ Starts(p, n)
  <2>1. \A p \in U : p \in Registered(m) /\ Starts(p, n) BY DEF Under
  <2>2. \A p \in Registered(m) : p \in Seq(Segments) BY RegisteredThere
  <2> QED BY <2>1, <2>2
<1>17. ASSUME NEW p, p \in Under(m, path, Append(n, Dot)) \/ p \in Under(m, path, Append(n, Star))
       PROVE  k < Len(p) /\ p[k + 1] \in {Star, Dot}
  BY <1>1, <1>17, UnderChild, RouterConstants
<1>18. ASSUME NEW q \in E
       PROVE  /\ x \notin {Star, Dot} /\ q \in Under(m, path, c) /\ q \in U
              /\ k < Len(q) /\ q[k + 1] \notin {Star, Dot}
  <2>1. x \notin {Star, Dot} /\ q \in Under(m, path, c) BY <1>18
  <2>2. q \in Registered(m) BY <2>1 DEF Under
  <2>3. q \in U
    <3> HIDE DEF U
    <3> QED BY <1>15, <1>18, <2>2
  <2>4. k < Len(q) /\ q[k + 1] = x BY <1>1, <2>1, UnderChild
  <2> QED BY <2>1, <2>3, <2>4
<1>19. ASSUME NEW p \in Best(m, U) PROVE IsPrefix(From(path, k, Literal(p)), Taken(V))
  <2>1. p \in U /\ \A q \in U : q = p \/ Closer(p, q) BY DEF Best
  <2>2. p \in Registered(m) /\ p \in Seq(Segments) /\ Starts(p, n) BY <1>16, <2>1
  <2>3. CASE e.has
    <3>1. PICK q \in E : TRUE BY <2>3 DEF Right
    <3>2. /\ q \in U /\ q \in Seq(Segments) /\ Starts(q, n) /\ k < Len(q)
          /\ q[k + 1] \notin {Star, Dot}
      <4> HIDE DEF U, x
      <4> QED BY <1>16, <1>18, <3>1
    <3>3. p \in E
      <4> SUFFICES ASSUME p \notin E PROVE FALSE OBVIOUS
      <4>1. p \in Under(m, path, Append(n, Dot)) \/ p \in Under(m, path, Append(n, Star))
        <5> HIDE DEF U
        <5> QED BY <1>15, <2>1, <2>2
      <4>2. k < Len(p) /\ p[k + 1] \in {Star, Dot} BY <1>17, <4>1
      <4>3. ~Closer(p, q) BY <1>1, <2>2, <3>2, <4>2, NotCloser
      <4>4. p # q BY <3>2, <4>2
      <4> QED BY <2>1, <3>2, <4>3, <4>4
    <3>4. x \notin {Star, Dot} /\ p \in Under(m, path, c) BY <1>18, <3>3
    <3>5. p \in Best(m, Under(m, path, c))
      <4>1. E = Under(m, path, c) BY <3>4
      <4>2. \A r \in E : r \in U BY <1>18
      <4> HIDE DEF U, c
      <4> QED BY <2>1, <3>3, <4>1, <4>2 DEF Best
    <3>6. IsPrefix(From(path, k + 1, Literal(p)), X)
      <4>1. Collects(m, path, c, e) BY <3>4
      <4>2. Plain(c) /\ Starts(path, c) /\ Len(c) = k + 1 BY <1>3, <3>4
      <4> HIDE DEF c
      <4> QED BY <3>5, <4>1, <4>2 DEF Collects, X
    <3>7. Literal(p) \in Nat /\ k + 1 <= Literal(p)
      <4>1. Plain(c) /\ Len(c) = k + 1 /\ c \in Seq(Segments) BY <1>3, <3>4
      <4>2. p \in Under(m, path, c) BY <3>4
      <4> HIDE DEF c
      <4>3. Literal(p) \in Nat /\ Len(c) <= Literal(p) BY <4>1, <4>2, LiteralAbove
      <4> QED BY <4>1, <4>3
    <3>8. /\ From(path, k + 1, Literal(p)) \in Seq(Func)
          /\ From(path, k, Literal(p)) = own \o From(path, k + 1, Literal(p))
      <4> DEFINE l == Literal(p)
      <4> HIDE DEF l
      <4>1. l \in Nat /\ k + 1 <= l + 1 /\ k <= l + 1 /\ k <= l BY <1>1, <3>7 DEF l
      <4>2. From(path, k + 1, l) \in Seq(Func) BY <1>1, <4>1, FromStep
      <4>3. From(path, k, l) = MidsAt(path, k) \o From(path, k + 1, l) BY <1>1, <4>1, FromStep
      <4> QED BY <1>5, <4>2, <4>3 DEF l
    <3>9. IsPrefix(own \o From(path, k + 1, Literal(p)), own \o X)
      BY <1>2, <1>8, <3>6, <3>8, PrefixOfJoined
    <3>10. Taken(V) = own \o X BY <1>12, <2>3
    <3> QED BY <3>8, <3>9, <3>10
  <2>4. CASE ~e.has
    <3>1. E = {} BY <2>4 DEF Right
    <3>2. p \in Under(m, path, Append(n, Dot)) \/ p \in Under(m, path, Append(n, Star))
      <4> HIDE DEF U
      <4> QED BY <1>15, <2>1, <2>2, <3>1
    <3>3. d.has \/ s.has
      <4>1. p \in Under(m, path, Append(n, Dot)) => d.has BY DEF Right
      <4>2. p \in Under(m, path, Append(n, Star)) => s.has BY DEF Right
      <4> QED BY <3>2, <4>1, <4>2
    <3>4. p[k + 1] \in {Star, Dot} BY <1>17, <3>2
    <3>5. Literal(p) = k BY <1>1, <2>1, <3>4, LiteralAbove
    <3>6. From(path, k, k) = own
      <4>1. k <= k + 1 /\ k = k BY <1>1
      <4>2. From(path, k, k) = MidsAt(path, k) BY <1>1, <4>1, FromStep
      <4> QED BY <1>5, <4>2
    <3>7. Taken(V) = own \/ Taken(V) = own \o X
      <4> HIDE DEF V
      <4> QED BY <1>12, <2>4, <3>3
    <3>8. IsPrefix(own, own) /\ IsPrefix(own, own \o X) BY <1>2, <1>8, PrefixOfJoined
    <3> QED BY <3>5, <3>6, <3>7, <3>8
  <2> QED BY <2>3, <2>4
<1> HIDE DEF V, U
<1>20. Collects(m, path, n, V) BY <1>14, <1>19 DEF Collects, U
<1> QED BY <1>20 DEF V, own

(* Every node collects what it should, given that its children do.         *)
LEMMA VisitCollects ==
    ASSUME TreeInv, WildsAreBare, NEW m \in Methods, NEW path \in Seq(Segments),
           NEW n \in DOMAIN tree, Len(n) <= Len(path), NEW got,
           \A s : Append(n, s) \in DOMAIN tree /\ Len(n) < Len(path) =>
              /\ Right(m, got[Append(n, s)], Under(m, path, Append(n, s)))
              /\ Collects(m, path, Append(n, s), got[Append(n, s)])
    PROVE  Collects(m, path, n, Visit(m, path, n, got))
<1> DEFINE k == Len(n)
           c(s) == Append(n, s)
           child(s) == IF c(s) \in DOMAIN tree THEN got[c(s)] ELSE Missing(<<>>)
           here == k = Len(path)
           wild == here \/ path[k + 1] \in {Star, Dot}
           exact == IF wild THEN Missing(<<>>) ELSE child(path[k + 1])
           V == Visit(m, path, n, got)
<1>0. n \in Seq(Segments) /\ k \in Nat /\ Len(path) \in Nat /\ <<>> \in Seq(Func)
  BY DEF TreeInv, TreeType
<1>1. V = IF n # <<>> /\ Last(n) = Dot THEN IF exact.has THEN exact ELSE Missing(<<>>)
          ELSE IF n # <<>> /\ Last(n) = Star THEN Own(m, n, <<>>)
          ELSE IF here THEN Own(m, n, tree[n].midwirs)
          ELSE Prefer(tree[n].midwirs, child(Star), child(Dot), exact)
  BY DEF Visit
<1>2. ASSUME ~here, NEW s \in Segments
      PROVE  Right(m, child(s), Under(m, path, c(s))) /\ Collects(m, path, c(s), child(s))
  <2>1. CASE c(s) \in DOMAIN tree
    <3>1. k < Len(path) BY <1>0, <1>2
    <3> QED BY <2>1, <3>1
  <2>2. CASE c(s) \notin DOMAIN tree
    <3>1. c(s) \in Seq(Segments) BY <1>0
    <3>2. child(s) = Missing(<<>>) BY <2>2
    <3> HIDE DEF child, c
    <3>3. Under(m, path, c(s)) = {} BY <2>2, <3>1, NodesOnTheWay
    <3> QED BY <1>0, <3>1, <3>2, <3>3, NoneIsRight, NothingCollected
  <2> QED BY <2>1, <2>2
<1>3. ~here => path[k + 1] \in Segments
  <2> SUFFICES ASSUME ~here PROVE path[k + 1] \in Segments
    OBVIOUS
  <2>1. k + 1 \in 1..Len(path) BY <1>0
  <2> QED BY <2>1
<1>4. Taken(Missing(<<>>)) = <<>> BY DEF Taken, Missing
<1>5. ASSUME ~here, NEW s \in Segments, s \in {Star, Dot} \/ ~Plain(n)
      PROVE  Taken(child(s)) = <<>>
  <2>1. ~Plain(c(s)) BY <1>0, <1>5, PlainChild
  <2>2. Collects(m, path, c(s), child(s)) BY <1>2, <1>5
  <2> HIDE DEF child, c
  <2> QED BY <2>1, <2>2 DEF Collects
<1>6. Star \in Segments /\ Dot \in Segments BY RouterConstants
<1>7. CASE ~Plain(n)
  <2>1. tree[n].midwirs = <<>>
    <3>1. PICK j \in 1..Len(n) : n[j] \in {Star, Dot} BY <1>7 DEF Plain
    <3>2. j \in DOMAIN n BY <1>0
    <3> QED BY <3>1, <3>2 DEF WildsAreBare
  <2>2. Taken(Own(m, n, <<>>)) = <<>> BY <1>0, TakenOfOwn
  <2>3. Taken(exact) = <<>>
    <3>1. CASE wild
      <4>1. exact = Missing(<<>>) BY <3>1
      <4> QED BY <1>4, <4>1
    <3>2. CASE ~wild
      <4>1. exact = child(path[k + 1]) /\ ~here BY <3>2
      <4> HIDE DEF exact, child, here
      <4> QED BY <1>3, <1>5, <1>7, <4>1
    <3> QED BY <3>1, <3>2
  <2>4. ASSUME ~here PROVE Taken(Prefer(<<>>, child(Star), child(Dot), exact)) = <<>>
    <3> DEFINE s == child(Star)
               d == child(Dot)
               e == exact
    <3>1. Taken(s) = <<>> /\ Taken(d) = <<>>
      <4> HIDE DEF child, here
      <4> QED BY <1>5, <1>6, <2>4
    <3>2. \A r \in {s, d, e} : r.list \in Seq(Func) /\ (r.has => r.list # <<>>)
      <4>1. Right(m, s, Under(m, path, c(Star))) /\ Right(m, d, Under(m, path, c(Dot)))
        <5> HIDE DEF child, here, c
        <5> QED BY <1>2, <1>6, <2>4
      <4>2. e.list \in Seq(Func) /\ (e.has => e.list # <<>>)
        <5>1. CASE wild
          <6>1. e = Missing(<<>>) BY <5>1
          <6> HIDE DEF e, exact, child, wild
          <6> QED BY <1>0, <6>1 DEF Missing
        <5>2. CASE ~wild
          <6>1. e = child(path[k + 1]) BY <5>2
          <6>2. Right(m, e, Under(m, path, c(path[k + 1])))
            <7> HIDE DEF child, here, c, exact
            <7> QED BY <1>2, <1>3, <2>4, <6>1
          <6> HIDE DEF exact
          <6> QED BY <6>2 DEF Right
        <5> QED BY <5>1, <5>2
      <4> HIDE DEF s, d, e
      <4> QED BY <4>1, <4>2 DEF Right
    <3> HIDE DEF s, d
    <3>3. Taken(e) = <<>> BY <2>3
    <3> HIDE DEF e
    <3> DEFINE W == Prefer(<<>>, s, d, e)
    <3>4. Taken(W) = IF e.has THEN <<>> \o Taken(e)
                     ELSE IF d.has THEN <<>> \o Taken(d)
                     ELSE IF s.has THEN (<<>> \o Taken(e)) \o Taken(s)
                     ELSE Taken(e)
      BY <1>0, <3>2, TakenOfPrefer
    <3>5. <<>> \o <<>> = <<>> OBVIOUS
    <3> HIDE DEF W
    <3>6. Taken(W) = <<>> BY <3>1, <3>3, <3>4, <3>5
    <3> QED BY <3>6 DEF W, s, d, e
  <2>5. Taken(V) = <<>>
    <3> HIDE DEF V, exact, child, here
    <3> QED BY <1>1, <1>4, <2>1, <2>2, <2>3, <2>4
  <2> QED BY <1>7, <2>5 DEF Collects
<1>8. CASE Plain(n) /\ ~Starts(path, n) BY <1>8 DEF Collects
<1>9. CASE Plain(n) /\ Starts(path, n)
  <2>1. n = <<>> \/ Last(n) \notin {Star, Dot} BY <1>0, <1>6, <1>9, PlainChild
  <2>2. V = IF here THEN Own(m, n, tree[n].midwirs)
            ELSE Prefer(tree[n].midwirs, child(Star), child(Dot), exact)
    <3> HIDE DEF V, exact, child, here
    <3> QED BY <1>1, <2>1
  <2>3. CASE here
    <3>1. V = Own(m, n, tree[n].midwirs) BY <2>2, <2>3
    <3>2. Collects(m, path, n, Own(m, n, tree[n].midwirs)) BY <1>9, <2>3, EndCollects
    <3> HIDE DEF V
    <3>3. Collects(m, path, n, V) BY <3>1, <3>2
    <3> QED BY <3>3 DEF V
  <2>4. CASE ~here
    <3> DEFINE x == path[k + 1]
               E == IF x \in {Star, Dot} THEN {} ELSE Under(m, path, c(x))
               s == child(Star)
               d == child(Dot)
               e == exact
    <3>1. /\ Right(m, s, Under(m, path, c(Star))) /\ Right(m, d, Under(m, path, c(Dot)))
          /\ Taken(s) = <<>> /\ Taken(d) = <<>>
      <4> HIDE DEF child, here, c
      <4> QED BY <1>2, <1>5, <1>6, <2>4
    <3>2. Right(m, e, E) /\ (x \in {Star, Dot} => Taken(e) = <<>>)
          /\ (x \notin {Star, Dot} => Collects(m, path, c(x), e))
      <4>1. CASE x \in {Star, Dot}
        <5>1. e = Missing(<<>>) /\ E = {} BY <4>1
        <5> HIDE DEF e, E, exact
        <5> QED BY <1>0, <1>4, <4>1, <5>1, NoneIsRight
      <4>2. CASE x \notin {Star, Dot}
        <5>1. e = child(x) /\ E = Under(m, path, c(x)) BY <2>4, <4>2
        <5> HIDE DEF e, E, exact, child, c, here
        <5>2. Right(m, child(x), Under(m, path, c(x))) /\ Collects(m, path, c(x), child(x))
          BY <1>2, <1>3, <2>4
        <5> QED BY <4>2, <5>1, <5>2
      <4> QED BY <4>1, <4>2
    <3>3. V = Prefer(tree[n].midwirs, s, d, e) BY <2>2, <2>4
    <3>4. Len(n) < Len(path) BY <1>0, <2>4
    <3>5. E = IF path[Len(n) + 1] \in {Star, Dot} THEN {}
              ELSE Under(m, path, Append(n, path[Len(n) + 1]))
      OBVIOUS
    <3> HIDE DEF V, s, d, e, E, exact, child, here
    <3>6. Collects(m, path, n, Prefer(tree[n].midwirs, s, d, e))
      BY <1>9, <3>1, <3>2, <3>4, <3>5, InnerCollects
    <3>7. Collects(m, path, n, V) BY <3>3, <3>6
    <3> QED BY <3>7 DEF V
  <2> QED BY <2>3, <2>4
<1> QED BY <1>7, <1>8, <1>9

LEMMA SearchCollects ==
    ASSUME TreeInv, WildsAreBare, NEW m \in Methods, NEW path \in Seq(Segments), NEW get,
           \A n \in Searched(path) : get[n] = Visit(m, path, n, get)
    PROVE  \A n \in Searched(path) : Collects(m, path, n, get[n])
<1> DEFINE Holds == {n \in Searched(path) : Collects(m, path, n, get[n])}
<1>1. ASSUME NEW n \in Searched(path),
             \A s : Append(n, s) \in Searched(path) => Append(n, s) \in Holds
      PROVE  n \in Holds
  <2>1. n \in DOMAIN tree /\ Len(n) <= Len(path) /\ n \in Seq(Segments)
    BY DEF Searched, TreeInv, TreeType
  <2>2. ASSUME NEW s, Append(n, s) \in DOMAIN tree, Len(n) < Len(path)
        PROVE  /\ Right(m, get[Append(n, s)], Under(m, path, Append(n, s)))
               /\ Collects(m, path, Append(n, s), get[Append(n, s)])
    <3>1. Len(Append(n, s)) = Len(n) + 1 /\ Len(n) \in Nat BY <2>1
    <3>2. Append(n, s) \in Searched(path) BY <2>2, <3>1 DEF Searched
    <3>3. Right(m, get[Append(n, s)], Under(m, path, Append(n, s))) BY <3>2, SearchIsRight
    <3> QED BY <1>1, <3>2, <3>3
  <2>3. Collects(m, path, n, Visit(m, path, n, get))
    <3> HIDE DEF Holds
    <3> QED BY <2>1, <2>2, VisitCollects
  <2> QED BY <2>3
<1>2. Searched(path) \subseteq Holds
  <2> HIDE DEF Holds
  <2> QED BY <1>1, DeeperFirst
<1> QED BY <1>2

(* What the chain of a request shows of it: the definitions of the         *)
(* property in the terms above.                                            *)
LEMMA MidwirsAreFrom ==
    ASSUME NEW path \in Seq(Segments), NEW k \in Nat
    PROVE  MidwirsTo(path, k) = From(path, 0, k)
<1> DEFINE s == [j \in 1..k + 1 |-> LET n == SubSeq(path, 1, j - 1) IN
                                    IF n \in DOMAIN tree THEN tree[n].midwirs ELSE <<>>]
           t == [j \in 1..(k - 0 + 1) |-> MidsAt(path, 0 + j - 1)]
<1>1. k - 0 + 1 = k + 1 /\ \A j \in 1..k + 1 : 0 + j - 1 = j - 1 OBVIOUS
<1>2. \A j \in 1..k + 1 : s[j] = MidsAt(path, j - 1) BY DEF MidsAt
<1>3. \A j \in 1..k + 1 : t[j] = MidsAt(path, j - 1) BY <1>1
<1>4. s = [j \in 1..k + 1 |-> s[j]] /\ t = [j \in 1..k + 1 |-> t[j]] BY <1>1
<1>5. MidwirsTo(path, k) = FlattenSeq(s) BY DEF MidwirsTo
<1>6. From(path, 0, k) = FlattenSeq(t) BY DEF From
<1> HIDE DEF s, t
<1>7. s = t BY <1>2, <1>3, <1>4
<1> QED BY <1>5, <1>6, <1>7

LEMMA MidwirsAreRight ==
    ASSUME TreeInv, WildsAreBare, NEW m \in Methods, NEW path \in Seq(Segments),
           NEW p \in BestFor(m, path)
    PROVE  /\ IsPrefix(MidwirsTo(path, Literal(p)), Front(Handlers(m, path)))
           /\ Kept(Front(Handlers(m, path)), MidwirsTo(path, Len(path)))
<1> DEFINE root == <<>>
           U == Under(m, path, root)
           r == Search(m, path)
<1>1. root \in Seq(Segments) /\ Len(root) = 0 /\ Len(path) \in Nat OBVIOUS
<1>2. Best(m, U) = BestFor(m, path) BY BestIsBestFor
<1>3. p \in Best(m, U) BY <1>2
<1>4. p \in U BY <1>3 DEF Best
<1>5. root \in DOMAIN tree
  <2> HIDE DEF root
  <2> QED BY <1>1, <1>4, NodesOnTheWay
<1> HIDE DEF U, r
<1>6. PICK get : r = get[root] /\ \A n \in Searched(path) : get[n] = Visit(m, path, n, get)
  BY SearchUnfolds DEF r
<1>7. root \in Searched(path) BY <1>1, <1>5 DEF Searched
<1>8. Right(m, r, Under(m, path, root)) BY <1>6, <1>7, SearchIsRight
<1>9. Collects(m, path, root, r) BY <1>6, <1>7, SearchCollects
<1>10. r.has BY <1>4, <1>8 DEF Right, U
<1>11. Front(Handlers(m, path)) = Taken(r)
  <2>1. Handlers(m, path) = r.list BY <1>5, <1>10 DEF Handlers, r
  <2> QED BY <1>10, <2>1 DEF Taken
<1>12. Plain(root) /\ Starts(path, root) BY <1>1 DEF Plain, Starts
<1>13. Literal(p) \in Nat
  <2>1. p \in Under(m, path, root) BY <1>4 DEF U
  <2> HIDE DEF root
  <2> QED BY <1>1, <1>12, <2>1, LiteralAbove
<1>14. /\ Kept(Taken(r), From(path, 0, Len(path)))
       /\ IsPrefix(From(path, 0, Literal(p)), Taken(r))
  <2>1. p \in Best(m, Under(m, path, root)) BY <1>3 DEF U
  <2> HIDE DEF root
  <2> QED BY <1>1, <1>9, <1>12, <2>1 DEF Collects
<1> QED BY <1>1, <1>11, <1>13, <1>14, MidwirsAreFrom

(* A middlewire is never registered below a "." or "*".                    *)
LEMMA UpdatedIsBare ==
    ASSUME WildsAreBare, NEW p, NEW n \in DOMAIN UpdateTree(p), NEW j \in DOMAIN n,
           n[j] \in {Star, Dot}
    PROVE  UpdateTree(p)[n].midwirs = <<>>
<1>1. UpdateTree(p)[n] = IF n \in DOMAIN tree THEN tree[n] ELSE NewNode BY DEF UpdateTree
<1>2. NewNode.midwirs = <<>> BY DEF NewNode
<1>3. CASE n \in DOMAIN tree BY <1>1, <1>3 DEF WildsAreBare
<1>4. CASE n \notin DOMAIN tree BY <1>1, <1>2, <1>4
<1> QED BY <1>3, <1>4

(* Registration leaves the nodes at and below a wildcard without any: the  *)
(* second half of the inductive invariant, on top of TreeInv.              *)
THEOREM WildsStayBare == Spec => []WildsAreBare
<1>1. Init => WildsAreBare BY DEF Init, WildsAreBare
<1>2. TreeInv /\ WildsAreBare /\ [Next]_vars => WildsAreBare'
  <2> SUFFICES ASSUME TreeInv, WildsAreBare, [Next]_vars PROVE WildsAreBare'
    OBVIOUS
  <2>1. ASSUME UNCHANGED tree PROVE WildsAreBare' BY <2>1 DEF WildsAreBare
  <2>2. ASSUME NEW m \in Methods, NEW p \in Patterns, NEW f \in Funcs, AddHandler(m, p, f)
        PROVE  WildsAreBare'
    <3>1. CASE ~IsValidPatten(p)
      <4>1. UNCHANGED tree BY <2>2, <3>1 DEF AddHandler
      <4> QED BY <2>1, <4>1
    <3>2. CASE IsValidPatten(p)
      <4> DEFINE T == UpdateTree(p)
                 Node == [midwirs : Seq(Mids), handlers : [Methods -> Funcs \cup {Nil}]]
      <4>1. p \in Seq(Segments) BY PathConstants
      <4>2. T \in [DOMAIN T -> Node] BY <4>1, UpdatedTree
      <4>3. tree' = [T EXCEPT ![p].handlers[m] = f] BY <2>2, <3>2 DEF AddHandler
      <4>4. \A n \in DOMAIN T : \A j \in DOMAIN n :
               n[j] \in {Star, Dot} => T[n].midwirs = <<>>
        BY UpdatedIsBare
      <4> HIDE DEF T
      <4>5. DOMAIN tree' = DOMAIN T BY <4>3
      <4>6. \A n \in DOMAIN T : tree'[n].midwirs = T[n].midwirs
        <5> TAKE n \in DOMAIN T
        <5>1. T[n] \in Node BY <4>2
        <5>2. DOMAIN T[n] = {"midwirs", "handlers"} BY <5>1
        <5> HIDE DEF Node
        <5> QED BY <4>3, <5>2
      <4> QED BY <4>4, <4>5, <4>6 DEF WildsAreBare
    <3> QED BY <3>1, <3>2
  <2>3. ASSUME NEW p \in MidPaths, NEW f \in Mids, AddMiddlewire(p, f)
        PROVE  WildsAreBare'
    <3>1. CASE UNCHANGED tree BY <2>1, <3>1
    <3>2. CASE ~Contains(p, Dot) /\ ~Contains(p, Star)
      <4> DEFINE T == UpdateTree(p)
      <4>1. tree' = [T EXCEPT ![p].midwirs = Append(@, f)] BY <2>3, <3>2 DEF AddMiddlewire
      <4>2. \A n \in DOMAIN T : \A j \in DOMAIN n :
               n[j] \in {Star, Dot} => T[n].midwirs = <<>>
        BY UpdatedIsBare
      <4>3. p \in Seq(Segments) BY PathConstants
      <4>4. \A j \in DOMAIN p : p[j] \notin {Star, Dot} BY <3>2, <4>3 DEF Contains
      <4> HIDE DEF T
      <4>5. DOMAIN tree' = DOMAIN T /\ \A n \in DOMAIN T : n # p => tree'[n] = T[n]
        BY <4>1
      <4> QED BY <4>2, <4>4, <4>5 DEF WildsAreBare
    <3> QED BY <2>3, <3>1, <3>2 DEF AddMiddlewire
  <2>4. ASSUME NEW r \in Requests, NEW m \in Methods, NEW path \in Paths, ServeHTTP(r, m, path)
        PROVE  WildsAreBare'
    BY <2>1, <2>4 DEF ServeHTTP
  <2>5. ASSUME NEW r \in Requests, Run(r) PROVE WildsAreBare'
    BY <2>1, <2>5 DEF Run
  <2>6. CASE UNCHANGED vars BY <2>1, <2>6 DEF vars
  <2> QED BY <2>2, <2>3, <2>4, <2>5, <2>6 DEF Next
<1> QED BY <1>1, <1>2, TreeInvariant, PTL DEF Spec

(* Up to the first "." or "*" of the pattern that wins, every middlewire   *)
(* registered for a part of the path is in the chain, in order, before the *)
(* handler: backtracking loses none of them; and no others are.            *)
THEOREM MiddlewiresGuard == Spec => []MidwirsGuard
<1>1. TreeInv /\ WildsAreBare => MidwirsGuard
  <2> SUFFICES ASSUME TreeInv, WildsAreBare, NEW m \in Methods, NEW path \in Paths,
                      NEW p \in BestFor(m, path)
               PROVE  LET wild == {j \in DOMAIN p : p[j] \in {Dot, Star}}
                          k == IF wild = {} THEN Len(p) ELSE (CHOOSE j \in wild : TRUE) - 1
                          mids == Front(Handlers(m, path)) IN
                      /\ IsPrefix(MidwirsTo(path, k), mids)
                      /\ \E kept \in SUBSET (1..Len(MidwirsTo(path, Len(path)))) :
                            mids = FlattenSeq([j \in DOMAIN MidwirsTo(path, Len(path)) |->
                                      IF j \in kept THEN <<MidwirsTo(path, Len(path))[j]>>
                                      ELSE <<>>])
    BY DEF MidwirsGuard
  <2> DEFINE wild == {j \in DOMAIN p : p[j] \in {Dot, Star}}
             k == IF wild = {} THEN Len(p) ELSE (CHOOSE j \in wild : TRUE) - 1
             mids == Front(Handlers(m, path))
             all == MidwirsTo(path, Len(path))
  <2>1. path \in Seq(Segments) BY PathConstants
  <2>2. k = Literal(p) BY DEF Literal, Wild
  <2>3. IsPrefix(MidwirsTo(path, Literal(p)), mids) /\ Kept(mids, all)
    BY <2>1, MidwirsAreRight
  <2> HIDE DEF k, mids, all
  <2>4. \E kept \in SUBSET (1..Len(all)) :
           mids = FlattenSeq([j \in DOMAIN all |-> IF j \in kept THEN <<all[j]>> ELSE <<>>])
    BY <2>3 DEF Kept, Chosen
  <2>5. IsPrefix(MidwirsTo(path, k), mids) BY <2>2, <2>3
  <2> QED BY <2>4, <2>5 DEF k, mids, all
<1> QED BY <1>1, TreeInvariant, WildsStayBare, PTL
=============================================================================
