--------------------------- MODULE OrmSessionProofs ---------------------------
(* Proofs about OrmSession: for all tables, any depth of hooks and any      *)
(* number of statements.                                                    *)
EXTENDS OrmSession, TLAPS

(* Whatever writes does so through Exec: into the transaction while it is  *)
(* open, and not at all when it is over.                                   *)
LEMMA ExecKeeps ==
    ASSUME IInv, NEW ok \in BOOLEAN, NEW writes \in BOOLEAN, Exec(ok, writes),
           engine \in {"none", "running"}, steps' \in Nat, steps' # 0
    PROVE  IInv'
BY DEF IInv, TypeOK, InvTx, TransactionIsAtomic, Exec, DB

(* Steps that leave the database alone.                                    *)
LEMMA CallsKeep ==
    ASSUME IInv, UNCHANGED dbVars, steps' \in Nat, steps' = 0 => steps = 0,
           stack' # <<>> => engine \in {"none", "running"} /\ steps' # 0
    PROVE  IInv'
BY DEF IInv, TypeOK, InvTx, TransactionIsAtomic, dbVars

LEMMA InvInit == Init => IInv
BY DEF Init, IInv, TypeOK, InvTx, TransactionIsAtomic

(* Statements, modifiers and hooks.                                        *)
LEMMA StatementKeeps ==
    ASSUME IInv,
           \/ \E k \in Mods : Modify(k)
           \/ \E op \in Ops, t \in Tables, n \in 0..MaxValues : Start(op, t, n)
           \/ \E f \in Range(stack), ok \in BOOLEAN : Execute(f, ok)
           \/ \E f \in Range(stack) : NextOfBatch(f) \/ Return(f)
           \/ \E t \in Tables, ok, writes \in BOOLEAN : Direct(t, ok, writes)
    PROVE  IInv'
<1> steps \in Nat /\ (stack # <<>> => engine \in {"none", "running"} /\ steps # 0)
  BY DEF IInv, TypeOK, InvTx
<1>1. CASE \E k \in Mods : Modify(k)
  <2>1. UNCHANGED dbVars /\ steps' = steps + 1 /\ engine \in {"none", "running"}
    BY <1>1 DEF Modify, Active
  <2> QED BY <2>1, CallsKeep
<1>2. CASE \E op \in Ops, t \in Tables, n \in 0..MaxValues : Start(op, t, n)
  <2>1. UNCHANGED dbVars /\ steps' = steps + 1 /\ engine \in {"none", "running"}
    BY <1>2 DEF Start, Active
  <2> QED BY <2>1, CallsKeep
<1>3. ASSUME NEW f \in Range(stack), NEW ok \in BOOLEAN, Execute(f, ok) PROVE IInv'
  <2> DEFINE writes == f.op \in Inserts \cup {"Update", "Delete"}
  <2>1. Exec(ok, writes) /\ stack # <<>> /\ steps' = steps
    BY <1>3 DEF Execute, HookDone
  <2>2. writes \in BOOLEAN
    OBVIOUS
  <2> HIDE DEF writes
  <2> QED BY <2>1, <2>2, ExecKeeps
<1>4. ASSUME NEW f \in Range(stack), NextOfBatch(f) \/ Return(f) PROVE IInv'
  <2>1. UNCHANGED dbVars /\ steps' = steps /\ stack # <<>>
    BY <1>4 DEF NextOfBatch, Return, HookDone
  <2> QED BY <2>1, CallsKeep
<1>5. ASSUME NEW t \in Tables, NEW ok \in BOOLEAN, NEW writes \in BOOLEAN,
             Direct(t, ok, writes)
      PROVE  IInv'
  <2>1. Exec(ok, writes) /\ engine \in {"none", "running"} /\ steps' = steps + 1
    BY <1>5 DEF Direct, Active
  <2> QED BY <2>1, ExecKeeps
<1> QED BY <1>1, <1>2, <1>3, <1>4, <1>5

(* Transactions, of the user and of the engine.                            *)
LEMMA TransactionKeeps ==
    ASSUME IInv,
           \/ \E ok \in BOOLEAN : \/ Begin(ok) \/ Commit(ok)
                                  \/ TransactionBegins(ok) \/ FReturns(ok)
           \/ Rollback \/ FFails \/ Panic
    PROVE  IInv'
<1> USE DEF IInv, TypeOK, InvTx, TransactionIsAtomic, callVars
<1>1. CASE \E ok \in BOOLEAN : Begin(ok)
  BY <1>1 DEF Begin, BeginTx, UserTx
<1>2. CASE \E ok \in BOOLEAN : Commit(ok)
  BY <1>2 DEF Commit, CommitTx, UserTx
<1>3. CASE \E ok \in BOOLEAN : TransactionBegins(ok)
  BY <1>3 DEF TransactionBegins, BeginTx
<1>4. CASE \E ok \in BOOLEAN : FReturns(ok)
  BY <1>4 DEF FReturns, EndsWith, CommitTx
<1>5. CASE Rollback
  BY <1>5 DEF Rollback, RollbackTx, UserTx
<1>6. CASE FFails
  BY <1>6 DEF FFails, RollbackTx
<1>7. CASE Panic
  BY <1>7 DEF Panic, RollbackTx
<1> QED BY <1>1, <1>2, <1>3, <1>4, <1>5, <1>6, <1>7

LEMMA InvNext == IInv /\ [Next]_vars => IInv'
<1> SUFFICES ASSUME IInv, [Next]_vars PROVE IInv'
  OBVIOUS
<1>1. CASE UNCHANGED vars
  BY <1>1 DEF vars, dbVars, callVars, IInv, TypeOK, InvTx, TransactionIsAtomic
<1>2. CASE Next
  BY <1>2, StatementKeeps, TransactionKeeps DEF Next
<1> QED BY <1>1, <1>2

(* The inductive invariant holds in every reachable state.                 *)
THEOREM Invariant == Spec => []IInv
BY InvInit, InvNext, PTL DEF Spec

(* A transaction is durable as a whole or not at all, and the caller of    *)
(* Engine.Transaction is told which, whatever f and the hooks do in it.    *)
THEOREM TransactionsAreAtomic == Spec => []TransactionIsAtomic
<1>1. IInv => TransactionIsAtomic
  BY DEF IInv
<1> QED BY <1>1, Invariant, PTL

-----------------------------------------------------------------------------
(* The texts of statements.                                                *)

(* The clauses of a statement are of the kinds there are. *)
LEMMA ClauseKinds ==
    ASSUME NEW op \in Ops
    PROVE  /\ Clauses(op) \in Seq(Types)
           /\ \A j \in DOMAIN Clauses(op) : Clauses(op)[j] \in Types
           /\ Mains(op) \subseteq Types
           /\ op \in Inserts => Clauses(op) = <<"INSERT", "VALUES">>
<1>2. op \in Inserts => Clauses(op) = <<"INSERT", "VALUES">>
  BY DEF Clauses, Inserts, Finds
<1>3. \/ Clauses(op) = <<"INSERT", "VALUES">>
      \/ Clauses(op) = <<"SELECT", "WHERE", "ORDERBY", "LIMIT">>
      \/ \E k \in {"COUNT", "UPDATE", "DELETE"} : Clauses(op) = <<k, "WHERE">>
  BY DEF Clauses, Ops, Inserts, Finds
<1>1. Clauses(op) \in Seq(Types)
  <2>1. {"INSERT", "VALUES", "SELECT", "COUNT", "UPDATE", "DELETE"} \subseteq Types
        /\ "WHERE" \in Types /\ "ORDERBY" \in Types /\ "LIMIT" \in Types
    BY DEF Types, Mods
  <2>2. <<"INSERT", "VALUES">> \in Seq(Types)
    BY <2>1
  <2>3. <<"SELECT", "WHERE", "ORDERBY", "LIMIT">> \in Seq(Types)
    BY <2>1
  <2>4. \A k \in {"COUNT", "UPDATE", "DELETE"} : <<k, "WHERE">> \in Seq(Types)
    BY <2>1
  <2> QED BY <1>3, <2>2, <2>3, <2>4
<1> QED BY <1>1, <1>2 DEF Mains, Range

(* What is built is a text. *)
LEMMA BuildTyped ==
    ASSUME NEW op \in Ops, NEW c \in [Types -> Owners]
    PROVE  Build(c, op) \in Seq(Types \X Owners)
<1>1. Clauses(op) \in Seq(Types)
  BY ClauseKinds
<1>2. DOMAIN Clauses(op) = 1 .. Len(Clauses(op)) /\ Len(Clauses(op)) \in Nat
  BY <1>1
<1>3. \A j \in 1 .. Len(Clauses(op)) :
          <<Clauses(op)[j], c[Clauses(op)[j]]>> \in Types \X Owners
  BY <1>1
<1> QED BY <1>2, <1>3 DEF Build

(* A text is as it should be when its own clauses are for its table and    *)
(* the modifiers are those chained for it.                                 *)
LEMMA BuildExpected ==
    ASSUME NEW op \in Ops, NEW c, NEW t, NEW mods, NEW level,
           \A k \in Mains(op) : c[k] = t,
           \A k \in Mods \cap Range(Clauses(op)) : c[k] = IF k \in mods THEN level ELSE None
    PROVE  Build(c, op) = Expected(op, t, mods, level)
<1>1. \A j \in DOMAIN Clauses(op) : LET k == Clauses(op)[j] IN
          c[k] = IF k \notin Mods THEN t ELSE IF k \in mods THEN level ELSE None
  BY DEF Mains, Range
<1> QED BY <1>1 DEF Build, Expected

(* The front and the last element of a sequence. *)
LEMMA FrontAndLast ==
    ASSUME NEW S, NEW s \in Seq(S), s # <<>>
    PROVE  /\ Len(s) \in Nat /\ Len(s) >= 1 /\ Last(s) = s[Len(s)] /\ Last(s) \in S
           /\ Front(s) \in Seq(S) /\ Len(Front(s)) = Len(s) - 1
           /\ \A i \in 1 .. Len(s) - 1 : Front(s)[i] = s[i]
<1>1. Len(s) \in Nat /\ Len(s) >= 1 /\ s[Len(s)] \in S
  OBVIOUS
<1>2. Front(s) = [i \in 1 .. Len(s) - 1 |-> s[i]]
  BY <1>1 DEF Front
<1>3. Front(s) \in Seq(S) /\ Len(Front(s)) = Len(s) - 1
  BY <1>1, <1>2
<1> QED BY <1>1, <1>2, <1>3 DEF Last

(* What a statement executed notices of the calls below it. *)
LEMMA DisturbTyped ==
    ASSUME NEW s \in Seq(Frames)
    PROVE  /\ Disturb(s) \in Seq(Frames) /\ Len(Disturb(s)) = Len(s)
           /\ \A i \in 1 .. Len(s) : LET f == s[i] g == Disturb(s)[i] IN
                 /\ g.op = f.op /\ g.table = f.table /\ g.at = f.at /\ g.desc = f.desc
                 /\ g.mods = f.mods
                 /\ f.op = "BatchInsert" /\ f.at = "before" => g.disturbed
<1> DEFINE g(f) == [f EXCEPT !.disturbed = @ \/ (f.op = "BatchInsert" /\ f.at = "before")]
<1>1. ASSUME NEW f \in Frames
      PROVE  /\ g(f) \in Frames
             /\ g(f).op = f.op /\ g(f).table = f.table /\ g(f).at = f.at /\ g(f).desc = f.desc
             /\ g(f).mods = f.mods
             /\ f.op = "BatchInsert" /\ f.at = "before" => g(f).disturbed
  <2>1. (f.disturbed \/ (f.op = "BatchInsert" /\ f.at = "before")) \in BOOLEAN
    OBVIOUS
  <2> QED BY <2>1 DEF Frames
<1>2. Disturb(s) = [j \in DOMAIN s |-> g(s[j])]
  BY DEF Disturb
<1>3. DOMAIN s = 1 .. Len(s) /\ Len(s) \in Nat /\ \A i \in 1 .. Len(s) : s[i] \in Frames
  OBVIOUS
<1> HIDE DEF g
<1>4. Disturb(s) \in Seq(Frames) /\ Len(Disturb(s)) = Len(s)
  BY <1>1, <1>2, <1>3
<1>5. \A i \in 1 .. Len(s) : Disturb(s)[i] = g(s[i])
  BY <1>2, <1>3
<1> QED BY <1>1, <1>3, <1>4, <1>5

-----------------------------------------------------------------------------
(* Every statement has its own clauses.                                    *)

(* A statement that is entered on top of statements that are executed is   *)
(* built from its own clauses and its level's modifiers; a BatchInsert     *)
(* below it sees a statement that is not executed yet.                     *)
LEMMA EnterOwns ==
    ASSUME CallTypes, TextsOwn, BatchesOwn,
           NEW b \in Seq(Frames), Len(b) <= Len(stack), \A i \in 1 .. Len(b) : b[i] = stack[i],
           NEW op \in Ops, NEW t \in Tables, NEW n \in Nat, NEW mods \in SUBSET Mods,
           EnterOn(b, op, t, n, mods),
           (\A j \in 1 .. Len(b) : b[j].at = "after") =>
               clause = [k \in Types |-> IF k \in mods THEN Len(b) + 1 ELSE None]
    PROVE  /\ clause' \in [Types -> Owners]
           /\ stack' \in Seq(Frames) /\ Len(stack') = Len(b) + 1
           /\ stack'[Len(stack')].at = "before"
           /\ TextsOwn' /\ BatchesOwn'
<1> DEFINE types == IF op = "BatchInsert" THEN {"INSERT"} ELSE Mains(op)
           c == SetAll(clause, types, t)
           f == [op |-> op, table |-> t, left |-> n, at |-> "before",
                 desc |-> Build(c, op), mods |-> mods, disturbed |-> FALSE]
<1>1. clause' = c /\ stack' = Append(b, f)
  BY DEF EnterOn
<1>2. c \in [Types -> Owners]
  BY DEF SetAll, CallTypes, Owners
<1>3. Build(c, op) \in Seq(Types \X Owners)
  <2> HIDE DEF c
  <2> QED BY <1>2, BuildTyped
<1>4. f \in Frames
  <2> HIDE DEF c
  <2> QED BY <1>3 DEF Frames
<1>5. Len(b) \in Nat /\ Len(stack) \in Nat
  BY DEF CallTypes
<1>6. op # "BatchInsert" /\ (\A j \in 1 .. Len(b) : b[j].at = "after") =>
          Build(c, op) = Expected(op, t, mods, Len(b) + 1)
  <2> SUFFICES ASSUME op # "BatchInsert", \A j \in 1 .. Len(b) : b[j].at = "after"
               PROVE  Build(c, op) = Expected(op, t, mods, Len(b) + 1)
    OBVIOUS
  <2>1. \A k \in Mains(op) : c[k] = t
    BY ClauseKinds DEF SetAll
  <2>2. \A k \in Mods : c[k] = IF k \in mods THEN Len(b) + 1 ELSE None
    BY DEF SetAll, Mains, Types
  <2> HIDE DEF c
  <2> QED BY <2>1, <2>2, BuildExpected
<1>7. op = "BatchInsert" => c["INSERT"] = t
  BY DEF SetAll, Types
<1>8. /\ f.op = op /\ f.table = t /\ f.at = "before" /\ f.desc = Build(c, op) /\ f.mods = mods
      /\ f.disturbed = FALSE
  OBVIOUS
<1> HIDE DEF c, f
<1>9. /\ stack' \in Seq(Frames) /\ Len(stack') = Len(b) + 1 /\ stack'[Len(b) + 1] = f
      /\ \A i \in 1 .. Len(b) : stack'[i] = stack[i] /\ stack'[i] = b[i]
  BY <1>1, <1>4
<1>10. TextsOwn'
  <2> SUFFICES ASSUME NEW i \in 1 .. Len(stack'),
                      stack'[i].op # "BatchInsert", stack'[i].at = "before",
                      \A j \in 1 .. i - 1 : stack'[j].at = "after"
               PROVE  stack'[i].desc =
                         Expected(stack'[i].op, stack'[i].table, stack'[i].mods, i)
    BY DEF TextsOwn, AfterUpTo
  <2>1. CASE i = Len(b) + 1
    <3>1. \A j \in 1 .. Len(b) : b[j].at = "after"
      BY <1>5, <1>9, <2>1
    <3> QED BY <1>6, <1>8, <1>9, <2>1, <3>1
  <2>2. CASE i \in 1 .. Len(b)
    <3>1. i \in 1 .. Len(stack) /\ \A j \in 1 .. i - 1 : stack[j].at = "after"
      BY <1>5, <1>9, <2>2
    <3> QED BY <1>9, <2>2, <3>1 DEF TextsOwn, AfterUpTo
  <2> QED BY <1>5, <1>9, <2>1, <2>2
<1>11. BatchesOwn'
  <2> SUFFICES ASSUME NEW i \in 1 .. Len(stack'),
                      stack'[i].op = "BatchInsert", stack'[i].at = "before",
                      ~stack'[i].disturbed
               PROVE  IF i = Len(stack') THEN clause'["INSERT"] = stack'[i].table
                                         ELSE stack'[i + 1].at = "before"
    BY DEF BatchesOwn
  <2>1. CASE i = Len(b) + 1
    BY <1>1, <1>7, <1>8, <1>9, <2>1
  <2>2. CASE i = Len(b)
    <3>1. stack'[i] = stack[i] /\ i # Len(stack')
      BY <1>5, <1>9, <2>2
    <3> QED BY <1>5, <1>8, <1>9, <2>2, <3>1
  <2>3. CASE i \in 1 .. Len(b) - 1
    <3>1. /\ i \in 1 .. Len(stack) /\ i # Len(stack) /\ i # Len(stack')
          /\ i \in 1 .. Len(b) /\ i + 1 \in 1 .. Len(b)
      BY <1>5, <1>9, <2>3
    <3>2. stack'[i] = stack[i] /\ stack'[i + 1] = stack[i + 1]
      BY <1>9, <3>1
    <3> QED BY <3>1, <3>2 DEF BatchesOwn
  <2> QED BY <1>5, <1>9, <2>1, <2>2, <2>3
<1> QED BY <1>1, <1>2, <1>8, <1>9, <1>10, <1>11

(* While the statement on top is not executed, nobody builds anything.     *)
LEMMA NotYet ==
    ASSUME Len(stack') \in Nat, Len(stack') >= 1, stack'[Len(stack')].at = "before"
    PROVE  OwnModifiersOnly'
<1>1. Len(stack') \in 1 .. Len(stack')
  OBVIOUS
<1> QED BY <1>1 DEF OwnModifiersOnly, AfterUpTo

(* Where, OrderBy and Limit add to the modifiers of their level.           *)
LEMMA ModifyOwns ==
    ASSUME ClauseInv, NEW k \in Mods, Modify(k)
    PROVE  ClauseInv'
<1>1. /\ clause' = [clause EXCEPT ![k] = Level]
      /\ wanted' = [wanted EXCEPT ![Level] = @ \cup {k}]
      /\ UNCHANGED <<stack, last, engine>>
  BY DEF Modify, dbVars
<1>2. /\ stack \in Seq(Frames) /\ wanted \in Seq(SUBSET Mods) /\ Len(wanted) = Level
      /\ clause \in [Types -> Owners] /\ Len(stack) \in Nat /\ k \in Types /\ Level \in Nat
  BY DEF ClauseInv, CallTypes, Level, Types
<1>3. wanted[Level] \subseteq Mods /\ Level \in 1 .. Len(wanted)
  BY <1>2 DEF Level
<1>4. /\ wanted' \in Seq(SUBSET Mods) /\ Len(wanted') = Level
      /\ wanted'[Level] = wanted[Level] \cup {k}
      /\ \A i \in 1 .. Len(stack) : wanted'[i] = wanted[i]
  BY <1>1, <1>2, <1>3 DEF Level
<1>5. CallTypes'
  BY <1>1, <1>2, <1>4 DEF CallTypes, Level, Owners
<1>6. ModifiersTaken'
  BY <1>1, <1>4 DEF ClauseInv, ModifiersTaken
<1>7. OwnModifiersOnly'
  <2> SUFFICES ASSUME engine' \in {"none", "running"}, AfterUpTo(Len(stack))'
               PROVE  (clause = ModifiersOf(Level))'
    BY DEF OwnModifiersOnly
  <2>1. clause = [j \in Types |-> IF j \in wanted[Level] THEN Level ELSE None]
    BY <1>1 DEF ClauseInv, OwnModifiersOnly, ModifiersOf, AfterUpTo
  <2>2. clause' = [j \in Types |-> IF j \in wanted'[Level] THEN Level ELSE None]
    BY <1>1, <1>2, <1>4, <2>1
  <2>3. Level' = Level
    BY <1>1 DEF Level
  <2> QED BY <2>2, <2>3 DEF ModifiersOf
<1>8. TextsOwn' /\ BatchesOwn' /\ OwnClauses'
  BY <1>1, <1>2 DEF ClauseInv, TextsOwn, BatchesOwn, AfterUpTo, OwnClauses, Mods, Types
<1> QED BY <1>5, <1>6, <1>7, <1>8 DEF ClauseInv

(* A statement takes over the modifiers of its level. *)
LEMMA StartOwns ==
    ASSUME ClauseInv, NEW op \in Ops, NEW t \in Tables, NEW n \in 0 .. MaxValues, Start(op, t, n)
    PROVE  ClauseInv'
<1>1. CASE n = 0
  <2>1. UNCHANGED <<clause, stack, wanted, last, engine>>
    BY <1>1 DEF Start, dbVars
  <2> QED BY <2>1 DEF ClauseInv, CallTypes, ModifiersTaken, OwnModifiersOnly, TextsOwn,
                      BatchesOwn, OwnClauses, AfterUpTo, Level, ModifiersOf
<1>2. CASE n # 0
  <2>1. /\ EnterOn(stack, op, t, n, wanted[Level])
        /\ wanted' = Append([wanted EXCEPT ![Level] = {}], {})
        /\ engine \in {"none", "running"} /\ UNCHANGED <<last, engine>>
    BY <1>2 DEF Start, Active, dbVars
  <2>2. /\ stack \in Seq(Frames) /\ wanted \in Seq(SUBSET Mods) /\ Len(wanted) = Level
        /\ Len(stack) \in Nat /\ Level = Len(stack) + 1
    BY DEF ClauseInv, CallTypes, Level
  <2>3. wanted[Level] \in SUBSET Mods
    BY <2>2
  <2>4. n \in Nat
    BY OrmConstants
  <2>5. (\A j \in 1 .. Len(stack) : stack[j].at = "after") =>
            clause = [k \in Types |-> IF k \in wanted[Level] THEN Len(stack) + 1 ELSE None]
    BY <2>1, <2>2 DEF ClauseInv, OwnModifiersOnly, AfterUpTo, ModifiersOf
  <2>6. /\ clause' \in [Types -> Owners]
        /\ stack' \in Seq(Frames) /\ Len(stack') = Len(stack) + 1
        /\ stack'[Len(stack')].at = "before"
        /\ TextsOwn' /\ BatchesOwn'
    BY <2>1, <2>2, <2>3, <2>4, <2>5, EnterOwns DEF ClauseInv
  <2>7. /\ wanted' \in Seq(SUBSET Mods) /\ Len(wanted') = Len(stack') + 1
        /\ \A i \in 1 .. Len(stack') : wanted'[i] = IF i = Level THEN {} ELSE wanted[i]
    <3> DEFINE w == [wanted EXCEPT ![Level] = {}]
    <3>1. w \in Seq(SUBSET Mods) /\ Len(w) = Len(wanted)
          /\ \A i \in 1 .. Len(wanted) : w[i] = IF i = Level THEN {} ELSE wanted[i]
      BY <2>2
    <3> HIDE DEF w
    <3>2. wanted' = Append(w, {})
      BY <2>1 DEF w
    <3>3. Len(w) = Level /\ Level \in Nat
      BY <2>2, <3>1
    <3>4. Len(wanted') = Level + 1 /\ wanted' \in Seq(SUBSET Mods)
          /\ \A i \in 1 .. Level : wanted'[i] = w[i]
      BY <3>1, <3>2, <3>3
    <3>5. Len(stack') = Level /\ Len(wanted) = Level
      BY <2>2, <2>6
    <3> QED BY <3>1, <3>4, <3>5
  <2>8. CallTypes'
    BY <2>2, <2>6, <2>7 DEF CallTypes, Level
  <2>9. ModifiersTaken'
    <3>1. ASSUME NEW i \in 1 .. Len(stack') PROVE wanted'[i] = {}
      <4>1. CASE i = Level
        BY <2>7, <4>1
      <4>2. CASE i # Level
        <5>1. i \in 1 .. Len(stack)
          BY <2>2, <2>6, <4>2
        <5> QED BY <2>7, <4>2, <5>1 DEF ClauseInv, ModifiersTaken
      <4> QED BY <4>1, <4>2
    <3> QED BY <3>1 DEF ModifiersTaken
  <2>10. OwnModifiersOnly' /\ OwnClauses'
    BY <2>1, <2>2, <2>6, NotYet DEF ClauseInv, OwnClauses
  <2> QED BY <2>6, <2>8, <2>9, <2>10 DEF ClauseInv
<1> QED BY <1>1, <1>2

(* The statement on top, and what is below it. *)
LEMMA OnTop ==
    ASSUME ClauseInv, NEW f, HookDone(f)
    PROVE  /\ Len(stack) \in Nat /\ Len(stack) >= 1 /\ Level = Len(stack) + 1
           /\ f \in Frames /\ f = stack[Len(stack)] /\ wanted[Level] = {}
           /\ Front(stack) \in Seq(Frames) /\ Len(Front(stack)) = Len(stack) - 1
           /\ \A i \in 1 .. Len(stack) - 1 : Front(stack)[i] = stack[i]
           /\ Front(wanted) \in Seq(SUBSET Mods) /\ Len(Front(wanted)) = Len(stack)
           /\ \A i \in 1 .. Len(stack) : wanted[i] = {} /\ Front(wanted)[i] = {}
<1>1. stack \in Seq(Frames) /\ stack # <<>> /\ f = Last(stack) /\ wanted[Level] = {}
  BY DEF HookDone, ClauseInv, CallTypes
<1>2. /\ Len(stack) \in Nat /\ Len(stack) >= 1 /\ f \in Frames /\ f = stack[Len(stack)]
      /\ Front(stack) \in Seq(Frames) /\ Len(Front(stack)) = Len(stack) - 1
      /\ \A i \in 1 .. Len(stack) - 1 : Front(stack)[i] = stack[i]
  BY <1>1, FrontAndLast
<1>3. Level = Len(stack) + 1
  BY DEF Level
<1>4. wanted \in Seq(SUBSET Mods) /\ Len(wanted) = Len(stack) + 1 /\ wanted # <<>>
  BY <1>2, <1>3 DEF ClauseInv, CallTypes
<1>5. /\ Front(wanted) \in Seq(SUBSET Mods) /\ Len(Front(wanted)) = Len(wanted) - 1
      /\ \A i \in 1 .. Len(wanted) - 1 : Front(wanted)[i] = wanted[i]
  BY <1>4, FrontAndLast
<1>6. \A i \in 1 .. Len(stack) : wanted[i] = {}
  BY DEF ClauseInv, ModifiersTaken
<1>7. Len(wanted) - 1 = Len(stack)
  BY <1>2, <1>4
<1> QED BY <1>1, <1>2, <1>3, <1>5, <1>6, <1>7

(* When no modifiers are chained, a cleared session is as it should be.    *)
LEMMA NoModifiers ==
    ASSUME NEW n, wanted[n] = {}
    PROVE  ModifiersOf(n) = Empty
BY DEF ModifiersOf, Empty

(* The text that is executed is as its caller put it together. *)
LEMMA ExecutedOwns ==
    ASSUME ClauseInv, NEW f, HookDone(f), f.at = "before", ~f.disturbed,
           \A g \in Range(Front(stack)) : g.at = "after"
    PROVE  Text(f) = Expected(f.op, f.table, f.mods, Len(stack))
<1>1. /\ Len(stack) \in Nat /\ Len(stack) >= 1 /\ f \in Frames /\ f = stack[Len(stack)]
      /\ Front(stack) \in Seq(Frames) /\ Len(Front(stack)) = Len(stack) - 1
      /\ \A i \in 1 .. Len(stack) - 1 : Front(stack)[i] = stack[i]
  BY OnTop
<1>2. AfterUpTo(Len(stack) - 1)
  <2>1. \A i \in 1 .. Len(stack) - 1 : i \in DOMAIN Front(stack)
    BY <1>1
  <2> QED BY <1>1, <2>1 DEF AfterUpTo, Range
<1>3. Len(stack) \in 1 .. Len(stack)
  BY <1>1
<1>4. CASE f.op # "BatchInsert"
  BY <1>1, <1>2, <1>3, <1>4 DEF ClauseInv, TextsOwn, Text
<1>5. CASE f.op = "BatchInsert"
  <2> DEFINE c == [clause EXCEPT !["VALUES"] = f.table]
  <2>1. clause["INSERT"] = f.table
    BY <1>1, <1>3, <1>5 DEF ClauseInv, BatchesOwn
  <2>2. c["INSERT"] = f.table /\ c["VALUES"] = f.table
    BY <2>1 DEF ClauseInv, CallTypes, Types
  <2>3. Clauses(f.op) = <<"INSERT", "VALUES">> /\ f.op \in Ops
    BY <1>5, ClauseKinds DEF Ops, Inserts
  <2>4. Range(Clauses(f.op)) = {"INSERT", "VALUES"}
    <3>1. DOMAIN Clauses(f.op) = 1 .. 2 /\ Clauses(f.op)[1] = "INSERT"
          /\ Clauses(f.op)[2] = "VALUES"
      BY <2>3
    <3>2. 1 .. 2 = {1, 2}
      OBVIOUS
    <3>3. Range(Clauses(f.op)) = {Clauses(f.op)[j] : j \in {1, 2}}
      BY <3>1, <3>2 DEF Range
    <3> QED BY <3>1, <3>3
  <2>5. \A k \in Mains(f.op) : c[k] = f.table
    <3> HIDE DEF c
    <3> QED BY <2>2, <2>4 DEF Mains
  <2>6. Mods \cap Range(Clauses(f.op)) = {}
    BY <2>4 DEF Mods
  <2>7. Text(f) = Build(c, f.op)
    BY <1>5 DEF Text, TextLate
  <2> HIDE DEF c
  <2>8. Build(c, f.op) = Expected(f.op, f.table, f.mods, Len(stack))
    BY <2>3, <2>5, <2>6, BuildExpected
  <2> QED BY <2>7, <2>8
<1> QED BY <1>4, <1>5

(* Clear leaves no modifier behind, and takes the INSERT clause of those   *)
(* BatchInserts only that then count as disturbed.                         *)
LEMMA ExecuteOwns ==
    ASSUME ClauseInv, NEW f, NEW ok \in BOOLEAN, Execute(f, ok)
    PROVE  ClauseInv'
<1> DEFINE L == Len(stack)
           D == Disturb(Front(stack))
           g == [f EXCEPT !.at = "after"]
<1>1. /\ HookDone(f) /\ f.at = "before" /\ clause' = Empty
      /\ stack' = D \o IF ok THEN <<g>> ELSE <<>>
      /\ wanted' = IF ok THEN wanted ELSE Front(wanted)
  BY DEF Execute, Exec, Clear
<1>2. /\ L \in Nat /\ L >= 1 /\ Level = L + 1 /\ f \in Frames /\ f = stack[L]
      /\ Front(stack) \in Seq(Frames) /\ Len(Front(stack)) = L - 1
      /\ \A i \in 1 .. L - 1 : Front(stack)[i] = stack[i]
      /\ wanted[Level] = {} /\ \A i \in 1 .. L : wanted[i] = {} /\ Front(wanted)[i] = {}
      /\ Front(wanted) \in Seq(SUBSET Mods) /\ Len(Front(wanted)) = L
  BY <1>1, OnTop
<1>3. /\ D \in Seq(Frames) /\ Len(D) = L - 1
      /\ \A i \in 1 .. L - 1 :
            /\ D[i].op = stack[i].op /\ D[i].table = stack[i].table /\ D[i].at = stack[i].at
            /\ D[i].desc = stack[i].desc /\ D[i].mods = stack[i].mods
            /\ stack[i].op = "BatchInsert" /\ stack[i].at = "before" => D[i].disturbed
  BY <1>2, DisturbTyped
<1>4. g \in Frames /\ g.at = "after"
  BY <1>2 DEF Frames
<1> HIDE DEF D, g
<1>5. /\ stack' \in Seq(Frames) /\ Len(stack') = (IF ok THEN L ELSE L - 1)
      /\ \A i \in 1 .. L - 1 : stack'[i] = D[i]
      /\ ok => stack'[L] = g
  BY <1>1, <1>2, <1>3, <1>4
<1>6. wanted' \in Seq(SUBSET Mods) /\ Len(wanted') = Level' /\ wanted'[Level'] = {}
  <2>1. Level' = Len(stack') + 1
    BY DEF Level
  <2>2. CASE ok
    BY <1>1, <1>2, <1>5, <2>1, <2>2 DEF ClauseInv, CallTypes
  <2>3. CASE ~ok
    BY <1>1, <1>2, <1>5, <2>1, <2>3
  <2> QED BY <2>2, <2>3
<1>7. CallTypes'
  BY <1>1, <1>5, <1>6 DEF CallTypes, Empty, Owners
<1>8. ModifiersTaken'
  BY <1>1, <1>2, <1>5 DEF ModifiersTaken
<1>9. OwnModifiersOnly'
  BY <1>1, <1>6 DEF OwnModifiersOnly, ModifiersOf, Empty
<1>10. \A i \in 1 .. Len(stack') : stack'[i].at = "before" => i \in 1 .. L - 1
  BY <1>2, <1>4, <1>5
<1>11. TextsOwn'
  <2> SUFFICES ASSUME NEW i \in 1 .. Len(stack'),
                      stack'[i].op # "BatchInsert", stack'[i].at = "before",
                      \A j \in 1 .. i - 1 : stack'[j].at = "after"
               PROVE  stack'[i].desc =
                         Expected(stack'[i].op, stack'[i].table, stack'[i].mods, i)
    BY DEF TextsOwn, AfterUpTo
  <2>1. i \in 1 .. L - 1 /\ i \in 1 .. L
    BY <1>2, <1>10
  <2>2. \A j \in 1 .. i - 1 : stack[j].at = "after"
    <3>1. \A j \in 1 .. i - 1 : j \in 1 .. L - 1
      BY <1>2, <2>1
    <3>2. \A j \in 1 .. L - 1 : stack'[j].at = stack[j].at
      BY <1>3, <1>5
    <3> QED BY <3>1, <3>2
  <2>3. /\ stack'[i].op = stack[i].op /\ stack'[i].table = stack[i].table
        /\ stack'[i].at = stack[i].at /\ stack'[i].desc = stack[i].desc
        /\ stack'[i].mods = stack[i].mods
    BY <1>3, <1>5, <2>1
  <2>4. stack[i].desc = Expected(stack[i].op, stack[i].table, stack[i].mods, i)
    BY <2>1, <2>2, <2>3 DEF ClauseInv, TextsOwn, AfterUpTo
  <2> QED BY <2>3, <2>4
<1>12. BatchesOwn'
  BY <1>3, <1>5, <1>10 DEF BatchesOwn
<1>13. OwnClauses'
  <2>1. last' = [op |-> f.op, table |-> f.table, text |-> Text(f), mods |-> f.mods,
                 level |-> Len(stack),
                 free |-> ~f.disturbed /\ \A h \in Range(Front(stack)) : h.at = "after"]
    BY DEF Execute
  <2>2. last'.free => ~f.disturbed /\ \A h \in Range(Front(stack)) : h.at = "after"
    BY <2>1
  <2>3. last'.free => last'.text = Expected(last'.op, last'.table, last'.mods, last'.level)
    BY <1>1, <2>1, <2>2, ExecutedOwns
  <2> QED BY <2>3 DEF OwnClauses
<1> QED BY <1>7, <1>8, <1>9, <1>11, <1>12, <1>13 DEF ClauseInv

(* BatchInsert keeps its clause until its next hook. *)
LEMMA NextOfBatchOwns ==
    ASSUME ClauseInv, NEW f, NextOfBatch(f)
    PROVE  ClauseInv'
<1> DEFINE L == Len(stack)
           g == [f EXCEPT !.left = @ - 1]
<1>1. /\ HookDone(f) /\ f.left > 1 /\ stack' = Append(Front(stack), g)
      /\ UNCHANGED <<clause, wanted, last, engine>>
  BY DEF NextOfBatch, dbVars
<1>2. /\ L \in Nat /\ L >= 1 /\ Level = L + 1 /\ f \in Frames /\ f = stack[L]
      /\ Front(stack) \in Seq(Frames) /\ Len(Front(stack)) = L - 1
      /\ \A i \in 1 .. L - 1 : Front(stack)[i] = stack[i]
  BY <1>1, OnTop
<1>3. f.left - 1 \in Nat
  BY <1>1, <1>2 DEF Frames
<1>4. /\ g \in Frames /\ g.op = f.op /\ g.table = f.table /\ g.at = f.at /\ g.desc = f.desc
      /\ g.mods = f.mods /\ g.disturbed = f.disturbed
  BY <1>2, <1>3 DEF Frames
<1> HIDE DEF g
<1>5. /\ stack' \in Seq(Frames) /\ Len(stack') = L /\ stack'[L] = g
      /\ \A i \in 1 .. L - 1 : stack'[i] = stack[i]
  BY <1>1, <1>2, <1>4
<1>6. \A i \in 1 .. L :
         /\ stack'[i].op = stack[i].op /\ stack'[i].table = stack[i].table
         /\ stack'[i].at = stack[i].at /\ stack'[i].desc = stack[i].desc
         /\ stack'[i].mods = stack[i].mods /\ stack'[i].disturbed = stack[i].disturbed
  <2>1. \A i \in 1 .. L : i = L \/ i \in 1 .. L - 1
    BY <1>2
  <2> QED BY <1>2, <1>4, <1>5, <2>1
<1>7. Level' = Level
  BY <1>5 DEF Level
<1>8. CallTypes' /\ ModifiersTaken'
  BY <1>1, <1>5, <1>7 DEF ClauseInv, CallTypes, ModifiersTaken
<1>9. OwnModifiersOnly'
  BY <1>1, <1>5, <1>6, <1>7 DEF ClauseInv, OwnModifiersOnly, AfterUpTo, ModifiersOf
<1>10. TextsOwn'
  <2>1. \A i \in 1 .. L : \A j \in 1 .. i - 1 : j \in 1 .. L
    BY <1>2
  <2> QED BY <1>5, <1>6, <2>1 DEF ClauseInv, TextsOwn, AfterUpTo
<1>11. BatchesOwn'
  <2>1. \A i \in 1 .. L : i # L => i + 1 \in 1 .. L
    BY <1>2
  <2> QED BY <1>1, <1>5, <1>6, <2>1 DEF ClauseInv, BatchesOwn
<1>12. OwnClauses'
  BY <1>1 DEF ClauseInv, OwnClauses
<1> QED BY <1>8, <1>9, <1>10, <1>11, <1>12 DEF ClauseInv

(* An executed statement leaves a clear session to the next value of its   *)
(* Insert, or to its caller.                                               *)
LEMMA ReturnOwns ==
    ASSUME ClauseInv, IInv, NEW f, Return(f)
    PROVE  ClauseInv'
<1> DEFINE L == Len(stack)
           b == Front(stack)
<1>1. HookDone(f) /\ f.at = "after" /\ UNCHANGED <<last, engine>>
  BY DEF Return, dbVars
<1>2. /\ L \in Nat /\ L >= 1 /\ Level = L + 1 /\ f \in Frames /\ f = stack[L]
      /\ b \in Seq(Frames) /\ Len(b) = L - 1
      /\ \A i \in 1 .. L - 1 : b[i] = stack[i]
      /\ wanted[Level] = {} /\ \A i \in 1 .. L : wanted[i] = {} /\ Front(wanted)[i] = {}
      /\ Front(wanted) \in Seq(SUBSET Mods) /\ Len(Front(wanted)) = L
  BY <1>1, OnTop
<1>3. engine \in {"none", "running"}
  BY <1>1 DEF HookDone, IInv, InvTx
<1>4. (\A j \in 1 .. L - 1 : stack[j].at = "after") => clause = Empty
  <2> SUFFICES ASSUME \A j \in 1 .. L - 1 : stack[j].at = "after" PROVE clause = Empty
    OBVIOUS
  <2>1. \A j \in 1 .. L : j = L \/ j \in 1 .. L - 1
    BY <1>2
  <2>2. AfterUpTo(L)
    BY <1>1, <1>2, <2>1 DEF AfterUpTo
  <2> QED BY <1>2, <1>3, <2>2, NoModifiers DEF ClauseInv, OwnModifiersOnly
<1>5. CASE f.op = "Insert" /\ f.left > 1
  <2>1. PICK t \in Tables : EnterOn(b, "Insert", t, f.left - 1, {})
    BY <1>5 DEF Return
  <2>2. UNCHANGED wanted /\ f.left - 1 \in Nat /\ "Insert" \in Ops
    BY <1>2, <1>5 DEF Return, Frames, Ops, Inserts
  <2>3. (\A j \in 1 .. L - 1 : b[j].at = "after") =>
            clause = [k \in Types |-> IF k \in {} THEN L - 1 + 1 ELSE None]
    BY <1>2, <1>4 DEF Empty
  <2>4. Len(b) <= Len(stack)
    BY <1>2
  <2> HIDE DEF b
  <2>5. /\ clause' \in [Types -> Owners]
        /\ stack' \in Seq(Frames) /\ Len(stack') = Len(b) + 1
        /\ stack'[Len(stack')].at = "before"
        /\ TextsOwn' /\ BatchesOwn'
    BY <1>2, <2>1, <2>2, <2>3, <2>4, EnterOwns DEF ClauseInv
  <2>6. Len(stack') = L
    BY <1>2, <2>5
  <2>7. CallTypes' /\ ModifiersTaken'
    BY <1>2, <2>2, <2>5, <2>6 DEF ClauseInv, CallTypes, ModifiersTaken, Level
  <2>8. OwnModifiersOnly'
    BY <1>2, <2>5, <2>6, NotYet
  <2>9. OwnClauses'
    BY <1>1 DEF ClauseInv, OwnClauses
  <2> QED BY <2>5, <2>7, <2>8, <2>9 DEF ClauseInv
<1>6. CASE ~(f.op = "Insert" /\ f.left > 1)
  <2>1. stack' = b /\ wanted' = Front(wanted) /\ UNCHANGED clause
    BY <1>6 DEF Return, Leave
  <2> HIDE DEF b
  <2>2. Level' = L /\ Len(stack') = L - 1
    BY <1>2, <2>1 DEF Level
  <2>3. \A i \in 1 .. L - 1 : i \in 1 .. L /\ stack'[i] = stack[i] /\ wanted'[i] = {}
    BY <1>2, <2>1
  <2>4. CallTypes'
    BY <1>2, <2>1, <2>2 DEF ClauseInv, CallTypes
  <2>5. ModifiersTaken'
    BY <2>2, <2>3 DEF ModifiersTaken
  <2>6. OwnModifiersOnly'
    <3>1. L \in 1 .. L
      BY <1>2
    <3>2. wanted'[L] = {}
      BY <1>2, <2>1, <3>1
    <3> QED BY <1>4, <2>1, <2>2, <2>3, <3>2 DEF OwnModifiersOnly, AfterUpTo, ModifiersOf, Empty
  <2>7. TextsOwn'
    <3>1. \A i \in 1 .. L - 1 : \A j \in 1 .. i - 1 : j \in 1 .. L - 1
      BY <1>2
    <3> QED BY <2>2, <2>3, <3>1 DEF ClauseInv, TextsOwn, AfterUpTo
  <2>8. BatchesOwn'
    <3> SUFFICES ASSUME NEW i \in 1 .. L - 1,
                        stack[i].op = "BatchInsert", stack[i].at = "before",
                        ~stack[i].disturbed
                 PROVE  IF i = L - 1 THEN clause["INSERT"] = stack[i].table
                                     ELSE stack'[i + 1].at = "before"
      BY <2>1, <2>2, <2>3 DEF BatchesOwn
    <3>1. i \in 1 .. L /\ i # L /\ (i # L - 1 => i + 1 \in 1 .. L - 1)
      BY <1>2
    <3>2. stack[i + 1].at = "before"
      BY <3>1 DEF ClauseInv, BatchesOwn
    <3>3. CASE i = L - 1
      BY <1>1, <1>2, <3>2, <3>3
    <3>4. CASE i # L - 1
      BY <2>3, <3>1, <3>2, <3>4
    <3> QED BY <3>3, <3>4
  <2>9. OwnClauses'
    BY <1>1 DEF ClauseInv, OwnClauses
  <2> QED BY <2>4, <2>5, <2>6, <2>7, <2>8, <2>9 DEF ClauseInv
<1> QED BY <1>5, <1>6

(* What sets no model clears all the same.                                 *)
LEMMA DirectOwns ==
    ASSUME ClauseInv, NEW t, NEW ok, NEW writes, Direct(t, ok, writes)
    PROVE  ClauseInv'
<1> DEFINE L == Len(stack)
<1>1. /\ clause' = Empty /\ stack' = Disturb(stack)
      /\ wanted' = [wanted EXCEPT ![Level] = {}] /\ UNCHANGED <<last, engine>>
  BY DEF Direct, Exec, Clear
<1>2. /\ stack \in Seq(Frames) /\ wanted \in Seq(SUBSET Mods) /\ Len(wanted) = Level
      /\ L \in Nat /\ Level = L + 1
  BY DEF ClauseInv, CallTypes, Level
<1>3. /\ stack' \in Seq(Frames) /\ Len(stack') = L
      /\ \A i \in 1 .. L :
            /\ stack'[i].op = stack[i].op /\ stack'[i].table = stack[i].table
            /\ stack'[i].at = stack[i].at /\ stack'[i].desc = stack[i].desc
            /\ stack'[i].mods = stack[i].mods
            /\ stack[i].op = "BatchInsert" /\ stack[i].at = "before" => stack'[i].disturbed
  BY <1>1, <1>2, DisturbTyped
<1>4. /\ wanted' \in Seq(SUBSET Mods) /\ Len(wanted') = Level /\ wanted'[Level] = {}
      /\ \A i \in 1 .. L : wanted'[i] = wanted[i]
  BY <1>1, <1>2
<1>5. Level' = Level
  BY <1>3 DEF Level
<1>6. CallTypes' /\ ModifiersTaken'
  BY <1>1, <1>3, <1>4, <1>5 DEF ClauseInv, CallTypes, ModifiersTaken, Empty, Owners
<1>7. OwnModifiersOnly'
  BY <1>1, <1>4, <1>5 DEF OwnModifiersOnly, ModifiersOf, Empty
<1>8. TextsOwn'
  <2>1. \A i \in 1 .. L : \A j \in 1 .. i - 1 : j \in 1 .. L
    BY <1>2
  <2> QED BY <1>3, <2>1 DEF ClauseInv, TextsOwn, AfterUpTo
<1>9. BatchesOwn'
  BY <1>3 DEF BatchesOwn
<1>10. OwnClauses'
  BY <1>1 DEF ClauseInv, OwnClauses
<1> QED BY <1>6, <1>7, <1>8, <1>9, <1>10 DEF ClauseInv

(* Transactions use no clauses.                                            *)
LEMMA CallsUntouched ==
    ASSUME ClauseInv, UNCHANGED callVars, engine' \in {"none", "running"} =>
                                             engine \in {"none", "running"}
    PROVE  ClauseInv'
BY DEF callVars, ClauseInv, CallTypes, ModifiersTaken, OwnModifiersOnly, TextsOwn,
       BatchesOwn, OwnClauses, AfterUpTo, Level, ModifiersOf

(* A panic leaves its clauses behind, but ends the use of the session.     *)
LEMMA PanicOwns ==
    ASSUME ClauseInv, Panic
    PROVE  ClauseInv'
<1>1. /\ stack' = <<>> /\ wanted' = <<{}>> /\ engine' \in {"panic", "crashed"}
      /\ UNCHANGED <<clause, last>>
  BY DEF Panic
<1>2. stack' \in Seq(Frames) /\ Len(stack') = 0 /\ wanted' \in Seq(SUBSET Mods)
      /\ Len(wanted') = 1
  BY <1>1
<1>3. CallTypes'
  BY <1>1, <1>2 DEF ClauseInv, CallTypes, Level
<1> QED BY <1>1, <1>2, <1>3
        DEF ClauseInv, ModifiersTaken, OwnModifiersOnly, TextsOwn, BatchesOwn, OwnClauses

LEMMA ClauseStep ==
    ASSUME ClauseInv, IInv, [Next]_vars
    PROVE  ClauseInv'
<1>1. CASE UNCHANGED vars
  BY <1>1, CallsUntouched DEF vars, dbVars
<1>2. CASE \E k \in Mods : Modify(k)
  BY <1>2, ModifyOwns
<1>3. CASE \E op \in Ops, t \in Tables, n \in 0..MaxValues : Start(op, t, n)
  BY <1>3, StartOwns
<1>4. CASE \E f \in Range(stack), ok \in BOOLEAN : Execute(f, ok)
  BY <1>4, ExecuteOwns
<1>5. CASE \E f \in Range(stack) : NextOfBatch(f) \/ Return(f)
  BY <1>5, NextOfBatchOwns, ReturnOwns
<1>6. CASE \E t \in Tables, ok, writes \in BOOLEAN : Direct(t, ok, writes)
  BY <1>6, DirectOwns
<1>7. CASE \E ok \in BOOLEAN : Begin(ok) \/ Commit(ok) \/ TransactionBegins(ok) \/ FReturns(ok)
  BY <1>7, CallsUntouched DEF Begin, Commit, TransactionBegins, FReturns, EndsWith, UserTx
<1>8. CASE Rollback \/ FFails
  BY <1>8, CallsUntouched DEF Rollback, FFails, UserTx
<1>9. CASE Panic
  BY <1>9, PanicOwns
<1> QED BY <1>1, <1>2, <1>3, <1>4, <1>5, <1>6, <1>7, <1>8, <1>9 DEF Next

LEMMA ClauseInvariant == Spec => []ClauseInv
<1>1. Init => ClauseInv
  <2> SUFFICES ASSUME Init PROVE ClauseInv
    OBVIOUS
  <2>1. /\ stack = <<>> /\ wanted = <<{}>> /\ clause = Empty /\ last = None
    BY DEF Init
  <2>2. stack \in Seq(Frames) /\ Len(stack) = 0 /\ wanted \in Seq(SUBSET Mods)
        /\ Len(wanted) = 1 /\ wanted[1] = {}
    BY <2>1
  <2>3. CallTypes
    BY <2>1, <2>2 DEF CallTypes, Level, Empty, Owners
  <2>4. OwnModifiersOnly
    BY <2>1, <2>2 DEF OwnModifiersOnly, ModifiersOf, Empty, Level
  <2> QED BY <2>1, <2>2, <2>3, <2>4
          DEF ClauseInv, ModifiersTaken, TextsOwn, BatchesOwn, OwnClauses
<1> QED BY <1>1, ClauseStep, Invariant, PTL DEF Spec

(* Whatever hooks do with the clauses of the session between a statement's *)
(* Build and its Exec, at any depth: it is executed with its own clauses   *)
(* and the modifiers chained for it (for what OwnClauses leaves out, see   *)
(* there).                                                                 *)
THEOREM StatementsOwnTheirClauses == Spec => []OwnClauses
BY ClauseInvariant, PTL DEF ClauseInv

(* Between statements the session holds just the user's own modifiers,     *)
(* whether statements and their hooks' statements succeeded or failed.     *)
THEOREM SessionsAreClean == Spec => []SessionIsClean
<1>1. ClauseInv => SessionIsClean
  <2> SUFFICES ASSUME ClauseInv, stack = <<>>, engine \in {"none", "running"}
               PROVE  clause = ModifiersOf(1)
    BY DEF SessionIsClean
  <2>1. Len(stack) = 0 /\ Level = 1
    BY DEF Level
  <2>2. AfterUpTo(Len(stack))
    BY <2>1 DEF AfterUpTo
  <2> QED BY <2>1, <2>2 DEF ClauseInv, OwnModifiersOnly
<1> QED BY <1>1, ClauseInvariant, PTL
=============================================================================
