------------------------------ MODULE WebRouter ------------------------------
(***************************************************************************)
(* The router (Geb_Web/geb/router.go), composed with the contexts of       *)
(* WebContext: a tree of path segments carries handlers, of patterns, and  *)
(* middlewires, of paths; Handlers searches it for a request's chain.      *)
(* A pattern or a path is the sequence of its segments below "/".          *)
(* Registrations come before and between requests, and while handlers run; *)
(* the code takes no lock, so that one made during a search is a data race *)
(* and left out.                                                           *)
(***************************************************************************)
EXTENDS WebContext, SequencesExt, FiniteSets

CONSTANTS
    Star, Dot,      \* "*" and "."
    Segments,       \* the segments of patterns and paths
    Methods,        \* those methodToInt knows
    Patterns,       \* the patterns handlers may be registered for
    MidPaths,       \* the paths middlewires may be registered for
    Paths,          \* the paths that may be asked for
    Funcs, Mids,    \* handlers and middlewires
    MaxRegs         \* bound on registrations

ASSUME RouterConstants ==
    Funcs \cup Mids \subseteq Func /\ {Star, Dot} \subseteq Segments /\ Star # Dot
ASSUME PathConstants == Patterns \cup MidPaths \cup Paths \subseteq Seq(Segments)

VARIABLES
    tree,           \* the nodes, named by their path from the root; no root at first
    regs,           \* history: the handler last accepted for a method and a pattern
    used            \* history: how many registrations there were

vars == <<tree, regs, used, ctx>>
Nil == "nil"
ASSUME NilIsNone == Nil \notin Func
NewNode == [midwirs |-> <<>>, handlers |-> [m \in Methods |-> Nil]]

Init ==
    /\ tree = [n \in {} |-> NewNode]
    /\ regs = [k \in Methods \X Patterns |-> Nil] /\ used = 0 /\ ContextInit

-----------------------------------------------------------------------------
(* Registration.                                                           *)

(* isValidPatten: "*" only as the last segment, "." not as the last, one   *)
(* "." at most, and not both.                                              *)
IsValidPatten(p) ==
    LET dots == {j \in DOMAIN p : p[j] = Dot}
        stars == {j \in DOMAIN p : p[j] = Star} IN
    /\ stars \subseteq {Len(p)} /\ Len(p) \notin dots
    /\ Cardinality(dots) <= 1 /\ (dots = {} \/ stars = {})

(* updateTree: the nodes on the way to p are there afterwards.             *)
UpdateTree(p) ==
    [n \in DOMAIN tree \cup {SubSeq(p, 1, k) : k \in 0..Len(p)} |->
        IF n \in DOMAIN tree THEN tree[n] ELSE NewNode]

AddHandler(m, p, f) ==
    /\ used < MaxRegs /\ used' = used + 1
    /\ IF IsValidPatten(p)
       THEN /\ tree' = [UpdateTree(p) EXCEPT ![p].handlers[m] = f]
            /\ regs' = [regs EXCEPT ![<<m, p>>] = f]
       ELSE UNCHANGED <<tree, regs>>
    /\ UNCHANGED ctx

(* A middlewire is registered once, so that a chain shows whose it is.     *)
AddMiddlewire(p, f) ==
    /\ used < MaxRegs /\ used' = used + 1
    /\ \A n \in DOMAIN tree : ~Contains(tree[n].midwirs, f)
    /\ IF Contains(p, Dot) \/ Contains(p, Star) THEN UNCHANGED tree
       ELSE tree' = [UpdateTree(p) EXCEPT ![p].midwirs = Append(@, f)]
    /\ UNCHANGED <<regs, ctx>>

-----------------------------------------------------------------------------
(* The search.                                                             *)

Found(list) == [list |-> list, has |-> TRUE]
Missing(list) == [list |-> list, has |-> FALSE]

(* What a node makes of its children "*", "." and exact: an exact child    *)
(* before ".", and that before "*", which is the only one that keeps what  *)
(* the exact child has collected in vain.                                  *)
StarFirst(midwirs, star, dot, exact) ==                 \* variant: "*" before "."
    IF exact.has THEN Found(midwirs \o exact.list)
    ELSE IF star.has THEN Found(midwirs \o exact.list \o star.list)
    ELSE IF dot.has THEN Found(midwirs \o dot.list) ELSE Missing(exact.list)
ExactOnly(midwirs, star, dot, exact) ==                 \* variant: middlewires are left out
    IF exact.has THEN exact
    ELSE IF dot.has THEN Found(midwirs \o dot.list)
    ELSE IF star.has THEN Found(midwirs \o exact.list \o star.list) ELSE Missing(exact.list)
Prefer(midwirs, star, dot, exact) ==
    IF exact.has THEN Found(midwirs \o exact.list)
    ELSE IF dot.has THEN Found(midwirs \o dot.list)
    ELSE IF star.has THEN Found(midwirs \o exact.list \o star.list)
    ELSE Missing(exact.list)

(* A node answers with its own handler, if it has one.                     *)
Own(m, n, list) ==
    IF tree[n].handlers[m] = Nil THEN Missing(list)
    ELSE Found(Append(list, tree[n].handlers[m]))

(* doGetHandlers at a node n, when its children got what is in got.  A     *)
(* segment "*" or "." of the path is not taken for an exact one.           *)
Visit(m, path, n, got) ==
    LET child(s) == IF Append(n, s) \in DOMAIN tree THEN got[Append(n, s)] ELSE Missing(<<>>)
        here == Len(n) = Len(path)
        exact == IF here \/ path[Len(n) + 1] \in {Star, Dot} THEN Missing(<<>>)
                 ELSE child(path[Len(n) + 1])
    IN  IF n # <<>> /\ Last(n) = Dot THEN IF exact.has THEN exact ELSE Missing(<<>>)
        ELSE IF n # <<>> /\ Last(n) = Star THEN Own(m, n, <<>>)
        ELSE IF here THEN Own(m, n, tree[n].midwirs)
        ELSE Prefer(tree[n].midwirs, child(Star), child(Dot), exact)

Search(m, path) ==
    LET get[n \in {k \in DOMAIN tree : Len(k) <= Len(path)}] == Visit(m, path, n, get)
    IN  get[<<>>]

Handlers(m, path) ==
    IF <<>> \notin DOMAIN tree \/ ~Search(m, path).has THEN <<>>
    ELSE Search(m, path).list

ServeHTTP(r, m, path) ==
    /\ IF Handlers(m, path) = <<>> THEN NotFound(r)
       ELSE Begin(r, Handlers(m, path))
    /\ UNCHANGED <<tree, regs, used>>

Run(r) ==
    (RunStep(r) \/ HandlerStep(r)) /\ UNCHANGED <<tree, regs, used>>

Next ==
    \/ \E m \in Methods, p \in Patterns, f \in Funcs : AddHandler(m, p, f)
    \/ \E p \in MidPaths, f \in Mids : AddMiddlewire(p, f)
    \/ \E r \in Requests, m \in Methods, path \in Paths : ServeHTTP(r, m, path)
    \/ \E r \in Requests : Run(r)

Spec == Init /\ [][Next]_vars

-----------------------------------------------------------------------------
(* Properties.                                                             *)

(* What a pattern matches: "." is any one segment, "*" one or more.  This  *)
(* is what the code and router_test.go do.  The comment of defaultRouter   *)
(* (router.go:18-20) says "one or more" too, but then that /a/b matches    *)
(* /a/b/*, which would take "*" for none: there the two disagree, and such *)
(* a request gets no handler.                                              *)
Matches(p, path) ==
    IF p # <<>> /\ Last(p) = Star
    THEN Len(p) <= Len(path) /\ IsPrefix(Front(p), path)
    ELSE Len(p) = Len(path) /\ \A j \in DOMAIN p : p[j] \in {Dot, path[j]}

(* p matches a path more closely than q, which matches it too: where they  *)
(* first differ.                                                           *)
Rank(s) == CASE s = Star -> 0 [] s = Dot -> 1 [] OTHER -> 2
Closer(p, q) ==
    \E j \in DOMAIN p \cap DOMAIN q :
       SubSeq(p, 1, j - 1) = SubSeq(q, 1, j - 1) /\ Rank(p[j]) > Rank(q[j])

BestFor(m, path) ==
    {p \in Patterns : /\ regs[<<m, p>>] # Nil /\ Matches(p, path)
                      /\ \A q \in Patterns : regs[<<m, q>>] # Nil /\ Matches(q, path) =>
                            q = p \/ Closer(p, q)}

(* A request is given to the handler of the pattern that matches its path  *)
(* best among those registered for its method, the search backtracking     *)
(* where need be, and to none exactly when no pattern matches, in the      *)
(* sense of Matches: /a/b is not given to /a/b/*.                          *)
BestPatternWins ==
    \A m \in Methods, path \in Paths :
       LET chain == Handlers(m, path) best == BestFor(m, path) IN
       IF best = {} THEN chain = <<>>
       ELSE chain # <<>> /\ \E p \in best : Last(chain) = regs[<<m, p>>]

(* The middlewires on the first k segments of a path, from the root on.    *)
MidwirsTo(path, k) ==
    FlattenSeq([j \in 1..k + 1 |-> LET n == SubSeq(path, 1, j - 1) IN
                  IF n \in DOMAIN tree THEN tree[n].midwirs ELSE <<>>])

(* Up to the first "." or "*" of the pattern that wins, every middlewire   *)
(* on the path is called, in order, before the handler; and no other than  *)
(* those of the path is.                                                   *)
MidwirsGuard ==
    \A m \in Methods, path \in Paths : \A p \in BestFor(m, path) :
       LET wild == {j \in DOMAIN p : p[j] \in {Dot, Star}}
           k == IF wild = {} THEN Len(p) ELSE (CHOOSE j \in wild : TRUE) - 1
           mids == Front(Handlers(m, path)) IN
       /\ IsPrefix(MidwirsTo(path, k), mids)
       /\ \E kept \in SUBSET (1..Len(MidwirsTo(path, Len(path)))) :
             mids = FlattenSeq([j \in DOMAIN MidwirsTo(path, Len(path)) |->
                       IF j \in kept THEN <<MidwirsTo(path, Len(path))[j]>> ELSE <<>>])

(* The inductive invariant: the tree holds the handlers that were accepted *)
(* and no others, and with a node all those on the way to it.              *)
TreeType ==
    /\ DOMAIN tree \subseteq Seq(Segments)
    /\ tree \in [DOMAIN tree -> [midwirs : Seq(Mids),
                                 handlers : [Methods -> Funcs \cup {Nil}]]]
    /\ regs \in [Methods \X Patterns -> Funcs \cup {Nil}]
WayIsThere == \A n \in DOMAIN tree : \A k \in 0..Len(n) : SubSeq(n, 1, k) \in DOMAIN tree
HoldsRegs ==
    \A m \in Methods :
       /\ \A n \in DOMAIN tree :
             tree[n].handlers[m] = IF n \in Patterns THEN regs[<<m, n>>] ELSE Nil
       /\ \A p \in Patterns :
             regs[<<m, p>>] # Nil => p \in DOMAIN tree /\ IsValidPatten(p)
TreeInv == TreeType /\ WayIsThere /\ HoldsRegs

(* No middlewire hangs on a node below a "." or "*", nor on one of them.   *)
WildsAreBare ==
    \A n \in DOMAIN tree : \A j \in DOMAIN n :
       n[j] \in {Star, Dot} => tree[n].midwirs = <<>>
=============================================================================
