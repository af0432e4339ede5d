------------------------------ MODULE OrmSession ------------------------------
(***************************************************************************)
(* A session of the ORM (Geb_Orm/session, Geb_Orm/clause) and the          *)
(* transaction of Geb_Orm/geborm.go.  A statement is put together in the   *)
(* session, from its own clauses and the modifiers (Where, OrderBy, Limit) *)
(* that were chained before it; before and after it a hook of the model is *)
(* called, which may use the same session, and so on: the statements under *)
(* way are a stack, and its levels are the user (1) and the hooks.         *)
(* Hooks chain a modifier only for a statement they make themselves, and   *)
(* begin and end no transaction; nor does the function of a Transaction.   *)
(***************************************************************************)
EXTENDS Naturals, Sequences, SequencesExt

CONSTANTS
    Tables,         \* the models, one table each
    MaxValues,      \* values in one Insert
    MaxDepth,       \* bound on the levels
    None,
    MaxSteps        \* bound on statements, transactions and chained modifiers

ASSUME OrmConstants == MaxValues \in Nat

VARIABLES
    refTable,       \* s.refTable
    clause,         \* s.clause: whose table, or which level's modifier; None if not set
    stack,          \* the statements under way, the innermost last
    wanted,         \* history: per level, the modifiers chained for its next statement
    last,           \* history: the statement executed last
    tx,             \* s.tx: "nil", "open", or "over"
    engine,         \* "none", or Engine.Transaction: "running" or its result
    saved, unsaved, \* the database: writes made, and those of the open transaction
    mark, made,     \* history: saved when the transaction began, and the writes since
    steps

callVars == <<refTable, clause, stack, wanted, last>>
dbVars == <<tx, engine, saved, unsaved, mark, made>>
vars == <<callVars, dbVars, steps>>

Mods == {"WHERE", "ORDERBY", "LIMIT"}
Inserts == {"Insert", "BatchInsert"}
Finds == {"FindOne", "FindAll"}
Ops == Inserts \cup Finds \cup {"Count", "Update", "Delete"}
Clauses(op) ==
    CASE op \in Inserts -> <<"INSERT", "VALUES">>
      [] op \in Finds -> <<"SELECT", "WHERE", "ORDERBY", "LIMIT">>
      [] op = "Count" -> <<"COUNT", "WHERE">> [] op = "Update" -> <<"UPDATE", "WHERE">>
      [] op = "Delete" -> <<"DELETE", "WHERE">>
Mains(op) == Range(Clauses(op)) \ Mods
Types == Mods \cup {"INSERT", "VALUES", "SELECT", "COUNT", "UPDATE", "DELETE"}
Empty == [k \in Types |-> None]
Level == Len(stack) + 1

Init ==
    /\ refTable = None /\ clause = Empty /\ stack = <<>>
    /\ wanted = <<{}>> /\ last = None /\ tx = "nil" /\ engine = "none"
    /\ saved = 0 /\ unsaved = 0 /\ mark = 0 /\ made = 0 /\ steps = 0

-----------------------------------------------------------------------------
(* Clause.Set and Clause.Build; a clause that is not set, None in the      *)
(* text, is left out.                                                      *)

SetAll(c, types, t) == [k \in Types |-> IF k \in types THEN t ELSE c[k]]
Build(c, op) == [j \in DOMAIN Clauses(op) |-> <<Clauses(op)[j], c[Clauses(op)[j]]>>]

(* Who may use the session: the user, or the hook that is called.          *)
Active == engine \in {"none", "running"} /\ steps < MaxSteps /\ Level <= MaxDepth

(* Where, OrderBy and Limit.                                               *)
Modify(k) ==
    /\ Active /\ steps' = steps + 1
    /\ clause' = [clause EXCEPT ![k] = Level]
    /\ wanted' = [wanted EXCEPT ![Level] = @ \cup {k}]
    /\ UNCHANGED <<refTable, stack, last, dbVars>>

-----------------------------------------------------------------------------
(* Statements.                                                             *)

(* Model, Set and Build, up to the call of the before-hook, on top of the  *)
(* stack below.  BatchInsert calls the hooks of its values first, and sets *)
(* and builds the rest when they have run.                                 *)
EnterOn(below, op, t, n, mods) ==
    LET types == IF op = "BatchInsert" THEN {"INSERT"} ELSE Mains(op)
        c == SetAll(clause, types, t) IN
    /\ refTable' = t /\ clause' = c
    /\ stack' = Append(below, [op |-> op, table |-> t, left |-> n, at |-> "before",
                               desc |-> Build(c, op), mods |-> mods, disturbed |-> FALSE])

(* A call with n values, or without any: nothing is done, or cleared.      *)
Start(op, t, n) ==
    /\ Active /\ steps' = steps + 1 /\ (op \notin Inserts => n = 1)
    /\ IF n = 0 THEN UNCHANGED <<refTable, clause, stack, wanted>>
       ELSE /\ EnterOn(stack, op, t, n, wanted[Level])
            /\ wanted' = Append([wanted EXCEPT ![Level] = {}], {})
    /\ UNCHANGED <<last, dbVars>>

HookDone(f) == stack # <<>> /\ f = Last(stack) /\ wanted[Level] = {}
Leave == stack' = Front(stack) /\ wanted' = Front(wanted)

(* BatchInsert goes on to its next value, which it reads by the fields of  *)
(* s.refTable; those of another table it does not have.                    *)
NextOfBatch(f) ==
    /\ HookDone(f) /\ f.op = "BatchInsert" /\ f.at = "before" /\ f.left > 1
    /\ refTable = f.table
    /\ stack' = Append(Front(stack), [f EXCEPT !.left = @ - 1])
    /\ UNCHANGED <<refTable, clause, wanted, last, dbVars, steps>>

(* Exec and Query hand the text to DB(): to the transaction, as long as    *)
(* s.tx is set, and fail when it is over.  Clear runs whatever comes of it. *)
Keep == UNCHANGED clause                                \* variant: the clauses are kept
Clear == clause' = Empty
DB(w) == IF tx = "open" THEN unsaved' = unsaved + w /\ UNCHANGED saved
         ELSE saved' = saved + w /\ UNCHANGED unsaved
Exec(ok, writes) ==
    LET w == IF ok /\ writes THEN 1 ELSE 0 IN
    /\ ok => tx # "over"
    /\ DB(w) /\ made' = made + w /\ UNCHANGED <<tx, engine, mark>>
    /\ Clear

(* The text is the one built before the hook, but for BatchInsert; in the  *)
(* variant, for all.                                                       *)
TextLate(f) == Build([clause EXCEPT !["VALUES"] = f.table], f.op)
Text(f) == IF f.op = "BatchInsert" THEN TextLate(f) ELSE f.desc

(* A BatchInsert that calls before-hooks notices what they execute.        *)
Disturb(calls) ==
    [j \in DOMAIN calls |-> LET f == calls[j] IN
        [f EXCEPT !.disturbed = @ \/ (f.op = "BatchInsert" /\ f.at = "before")]]

Execute(f, ok) ==
    /\ HookDone(f) /\ f.at = "before" /\ (f.op = "BatchInsert" => f.left = 1)
    /\ last' = [op |-> f.op, table |-> f.table, text |-> Text(f), mods |-> f.mods,
                level |-> Len(stack),
                free |-> ~f.disturbed /\ \A g \in Range(Front(stack)) : g.at = "after"]
    /\ ok /\ f.op \in Inserts => \A c \in Range(Text(f)) : c[2] # None
    /\ Exec(ok, f.op \in Inserts \cup {"Update", "Delete"})
    /\ stack' = Disturb(Front(stack)) \o IF ok THEN <<[f EXCEPT !.at = "after"]>> ELSE <<>>
    /\ wanted' = IF ok THEN wanted ELSE Front(wanted)
    /\ UNCHANGED <<refTable, steps>>

(* The after-hook has returned: Insert goes on to its next value, of any   *)
(* table, and the others return.                                           *)
Return(f) ==
    /\ HookDone(f) /\ f.at = "after"
    /\ IF f.op = "Insert" /\ f.left > 1
       THEN /\ \E t \in Tables : EnterOn(Front(stack), "Insert", t, f.left - 1, {})
            /\ UNCHANGED wanted
       ELSE Leave /\ UNCHANGED <<refTable, clause>>
    /\ UNCHANGED <<last, dbVars, steps>>

(* CreateTable, DropTable and HasTable, and Raw with Exec, which sets no   *)
(* model: no clause and no hook, but what was chained is cleared.          *)
Direct(t, ok, writes) ==
    /\ Active /\ steps' = steps + 1 /\ Exec(ok, writes)
    /\ refTable' \in {t, refTable}
    /\ wanted' = [wanted EXCEPT ![Level] = {}] /\ stack' = Disturb(stack)
    /\ UNCHANGED last

-----------------------------------------------------------------------------
(* Transactions of the user.  s.tx stays when it is over, and is nil when  *)
(* Begin fails; to end a nil transaction is a panic.                       *)

UserTx == engine = "none" /\ stack = <<>> /\ steps < MaxSteps /\ steps' = steps + 1

BeginTx(ok) ==
    /\ tx' = (IF ok THEN "open" ELSE "nil") /\ unsaved' = 0
    /\ mark' = saved /\ made' = 0 /\ UNCHANGED saved
Begin(ok) == UserTx /\ BeginTx(ok) /\ UNCHANGED <<callVars, engine>>

CommitTx(ok) ==
    /\ tx' = "over" /\ unsaved' = 0
    /\ saved' = saved + (IF ok THEN unsaved ELSE 0)
RollbackTx == tx' = "over" /\ unsaved' = 0 /\ UNCHANGED saved

Commit(ok) ==
    /\ UserTx /\ (ok => tx = "open")
    /\ IF tx = "nil" THEN engine' = "crashed" /\ UNCHANGED <<tx, unsaved, saved>>
       ELSE CommitTx(ok) /\ UNCHANGED engine
    /\ UNCHANGED <<callVars, mark, made>>

Rollback ==
    /\ UserTx
    /\ IF tx = "nil" THEN engine' = "crashed" /\ UNCHANGED <<tx, unsaved, saved>>
       ELSE RollbackTx /\ UNCHANGED engine
    /\ UNCHANGED <<callVars, mark, made>>

-----------------------------------------------------------------------------
(* Engine.Transaction, on a session of its own.                            *)

TransactionBegins(ok) ==
    /\ engine = "none" /\ steps = 0 /\ steps' = 1
    /\ BeginTx(ok) /\ engine' = (IF ok THEN "running" ELSE "error")
    /\ UNCHANGED callVars

(* f returns no error: Commit; when that fails, Rollback has nothing left  *)
(* to do, but the error is returned.                                       *)
EndsAnyhow(ok) == CommitTx(ok) /\ engine' = "nil"       \* variant: Commit's error is lost
EndsWith(ok) ==
    CommitTx(ok) /\ engine' = IF ok THEN "nil" ELSE "error"
FReturns(ok) ==
    /\ engine = "running" /\ stack = <<>> /\ EndsWith(ok)
    /\ UNCHANGED <<callVars, mark, made, steps>>

(* f returns an error.                                                     *)
FFails ==
    /\ engine = "running" /\ stack = <<>> /\ RollbackTx /\ engine' = "error"
    /\ UNCHANGED <<callVars, mark, made, steps>>

(* f or a hook panics, or BatchInsert does over a value of another table:  *)
(* the stack is unwound, without Clear; Transaction rolls back.            *)
Panic ==
    /\ stack # <<>> \/ engine = "running"
    /\ stack' = <<>> /\ wanted' = <<{}>>
    /\ IF engine = "running" THEN RollbackTx /\ engine' = "panic"
       ELSE engine = "none" /\ engine' = "crashed" /\ UNCHANGED <<tx, saved, unsaved>>
    /\ UNCHANGED <<refTable, clause, last, mark, made, steps>>

Next ==
    \/ \E k \in Mods : Modify(k)
    \/ \E op \in Ops, t \in Tables, n \in 0..MaxValues : Start(op, t, n)
    \/ \E f \in Range(stack), ok \in BOOLEAN : Execute(f, ok)
    \/ \E f \in Range(stack) : NextOfBatch(f) \/ Return(f)
    \/ \E t \in Tables, ok, writes \in BOOLEAN : Direct(t, ok, writes)
    \/ \E ok \in BOOLEAN : Begin(ok) \/ Commit(ok) \/ TransactionBegins(ok) \/ FReturns(ok)
    \/ Rollback \/ FFails \/ Panic

Spec == Init /\ [][Next]_vars

-----------------------------------------------------------------------------
(* Properties.                                                             *)

(* What a statement should be: its clauses for its table, and of the       *)
(* modifiers its caller chained those it takes, in order.                  *)
Expected(op, t, mods, level) ==
    [j \in DOMAIN Clauses(op) |->
        LET k == Clauses(op)[j] IN
        <<k, IF k \notin Mods THEN t ELSE IF k \in mods THEN level ELSE None>>]

(* A statement is executed as its caller put it together, although hooks   *)
(* use the clauses of the same session between its Build and its Exec.     *)
(* Out of scope is a statement that a before-hook makes, which inherits    *)
(* the clauses of the one it is called for, and a BatchInsert whose own    *)
(* before-hooks make statements.                                           *)
OwnClauses ==
    last # None /\ last.free =>
       last.text = Expected(last.op, last.table, last.mods, last.level)

ModifiersOf(level) == [k \in Types |-> IF k \in wanted[level] THEN level ELSE None]

(* When no statement is under way the session holds just the modifiers the *)
(* user has chained for the next one: nothing is left of a statement, be   *)
(* it done or failed, or of its hooks' statements.                         *)
SessionIsClean ==
    stack = <<>> /\ engine \in {"none", "running"} =>
       clause = ModifiersOf(1)

(* Of what is written in a transaction, by the user or by hooks, nothing   *)
(* is durable while it is open, and then all or nothing: all just when     *)
(* Engine.Transaction returns no error, nothing when f fails, Commit does, *)
(* or something panics.                                                    *)
TransactionIsAtomic ==
    /\ tx = "open" => saved = mark
    /\ tx = "over" => saved \in {mark, mark + made}
    /\ engine = "nil" => saved = mark + made
    /\ engine \in {"error", "panic"} => saved = mark

-----------------------------------------------------------------------------
(* The inductive invariant behind TransactionIsAtomic: what is written in  *)
(* an open transaction is in the database's hands only, and when the       *)
(* Transaction or the process has ended no statement is under way.         *)
TypeOK ==
    /\ tx \in {"nil", "open", "over"}
    /\ engine \in {"none", "running", "nil", "error", "panic", "crashed"}
    /\ saved \in Nat /\ unsaved \in Nat /\ mark \in Nat /\ made \in Nat /\ steps \in Nat
InvTx ==
    /\ stack # <<>> => engine \in {"none", "running"} /\ steps # 0
    /\ engine = "running" => tx = "open"
    /\ tx = "open" => unsaved = made
IInv == TypeOK /\ InvTx /\ TransactionIsAtomic

(* And that behind OwnClauses and SessionIsClean.  The levels' modifiers   *)
(* go into the statement under way there; whoever uses the session while   *)
(* every statement below is executed finds only its own modifiers in it;   *)
(* so a text built then is as it should be, and what a BatchInsert has set *)
(* stays until a statement of its before-hooks is executed.                *)
Owners == Tables \cup Nat \cup {None}
Frames == [op : Ops, table : Tables, left : Nat, at : {"before", "after"},
           desc : Seq(Types \X Owners), mods : SUBSET Mods, disturbed : BOOLEAN]
CallTypes ==
    /\ clause \in [Types -> Owners] /\ stack \in Seq(Frames)
    /\ wanted \in Seq(SUBSET Mods) /\ Len(wanted) = Level

AfterUpTo(n) == \A j \in 1..n : stack[j].at = "after"
ModifiersTaken == \A i \in 1..Len(stack) : wanted[i] = {}
OwnModifiersOnly ==
    engine \in {"none", "running"} /\ AfterUpTo(Len(stack)) => clause = ModifiersOf(Level)
TextsOwn ==
    \A i \in 1..Len(stack) : LET f == stack[i] IN
       f.op # "BatchInsert" /\ f.at = "before" /\ AfterUpTo(i - 1) =>
          f.desc = Expected(f.op, f.table, f.mods, i)
BatchesOwn ==
    \A i \in 1..Len(stack) : LET f == stack[i] IN
       f.op = "BatchInsert" /\ f.at = "before" /\ ~f.disturbed =>
          IF i = Len(stack) THEN clause["INSERT"] = f.table ELSE stack[i + 1].at = "before"
ClauseInv ==
    CallTypes /\ ModifiersTaken /\ OwnModifiersOnly /\ TextsOwn /\ BatchesOwn /\ OwnClauses
=============================================================================
