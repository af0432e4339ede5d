------------------------------ MODULE WebContext ------------------------------
(***************************************************************************)
(* The handlers of a request (Geb_Web/geb/context.go): run calls them one  *)
(* after the other; a handler may run the rest of them itself, in Next,    *)
(* and may end the chain, in Fail.  So loops of run and handlers nest: i   *)
(* is shared by all of them.  WebRouter says where the chains come from;   *)
(* ContextSpec lets them be any.                                           *)
(***************************************************************************)
EXTENDS Naturals, Sequences

CONSTANTS
    Requests,
    Func,           \* the handlers; the router may find any list of them
    NextBound       \* how often Next may be called beyond the end of a chain

VARIABLES           \* the Context of each request, and what runs in it
    hs, i,          \* handlers and i
    at, depth,      \* the innermost loop or handler; the handlers under way
    begun,          \* history: the positions of the handlers called so far
    failed, status

ctx == <<hs, i, at, depth, begun, failed, status>>
place == <<hs, i, at, depth, begun>>

None == 0

ContextInit ==
    /\ hs = [r \in Requests |-> <<>>] /\ i = [r \in Requests |-> 0]
    /\ at = [r \in Requests |-> "idle"] /\ depth = [r \in Requests |-> 0]
    /\ begun = [r \in Requests |-> <<>>]
    /\ failed = [r \in Requests |-> FALSE] /\ status = [r \in Requests |-> None]

(* The first status that is written is the one the client sees.            *)
Writes(r, code) ==
    status' = [status EXCEPT ![r] = IF @ = None THEN code ELSE @]

(* ServeHTTP: a path without handlers is failed with 500, and then with    *)
(* 404, which comes too late.                                              *)
NotFound(r) ==
    /\ at[r] = "idle" /\ at' = [at EXCEPT ![r] = "done"]
    /\ failed' = [failed EXCEPT ![r] = TRUE] /\ Writes(r, 500)
    /\ UNCHANGED <<hs, i, depth, begun>>
Begin(r, chain) ==
    /\ at[r] = "idle" /\ chain # <<>>
    /\ at' = [at EXCEPT ![r] = "run"] /\ hs' = [hs EXCEPT ![r] = chain]
    /\ UNCHANGED <<i, depth, begun, failed, status>>

(* run calls the handler at i, counted from 0 ...                          *)
CallHandler(r) ==
    /\ at[r] = "run" /\ i[r] < Len(hs[r])
    /\ at' = [at EXCEPT ![r] = "handler"] /\ depth' = [depth EXCEPT ![r] = @ + 1]
    /\ begun' = [begun EXCEPT ![r] = Append(@, i[r] + 1)]
    /\ UNCHANGED <<hs, i, failed, status>>

(* ... or there is none: it returns to the handler that called Next, or to *)
(* ServeHTTP.                                                              *)
RunReturns(r) ==
    /\ at[r] = "run" /\ i[r] >= Len(hs[r])
    /\ at' = [at EXCEPT ![r] = IF depth[r] > 0 THEN "handler" ELSE "done"]
    /\ UNCHANGED <<hs, i, depth, begun, failed, status>>

(* What a handler may do: run the rest of the chain ...                    *)
NextFrom(r, j) ==
    /\ at[r] = "handler" /\ i[r] < Len(hs[r]) + NextBound
    /\ Len(begun[r]) <= Len(hs[r])
    /\ at' = [at EXCEPT ![r] = "run"] /\ i' = [i EXCEPT ![r] = j]
    /\ UNCHANGED <<hs, depth, begun, failed, status>>
NextSame(r) == NextFrom(r, i[r])                        \* variant: i is not advanced
CallNext(r) == NextFrom(r, i[r] + 1)

(* ... answer (Text, JSON, Data) ...                                       *)
Reply(r) == at[r] = "handler" /\ Writes(r, 200) /\ UNCHANGED <<place, failed>>

(* ... fail, which leaves no handler to run ...                            *)
Fail(r) ==
    /\ at[r] = "handler" /\ Writes(r, 500)
    /\ failed' = [failed EXCEPT ![r] = TRUE] /\ i' = [i EXCEPT ![r] = Len(hs[r])]
    /\ UNCHANGED <<hs, at, depth, begun>>

(* ... and return to the loop that called it, which goes on to the next.   *)
Return(r) ==
    /\ at[r] = "handler" /\ at' = [at EXCEPT ![r] = "run"]
    /\ i' = [i EXCEPT ![r] = @ + 1] /\ depth' = [depth EXCEPT ![r] = @ - 1]
    /\ UNCHANGED <<hs, begun, failed, status>>

RunStep(r) == CallHandler(r) \/ RunReturns(r)
HandlerStep(r) == CallNext(r) \/ Reply(r) \/ Fail(r) \/ Return(r)
Step(r) == NotFound(r) \/ RunStep(r) \/ HandlerStep(r)
ContextNext ==
    \E r \in Requests : Step(r) \/ \E chain \in Seq(Func) : Begin(r, chain)

ContextSpec == ContextInit /\ [][ContextNext]_ctx

-----------------------------------------------------------------------------
(* Properties.                                                             *)

(* run and Next together call the handlers of a chain in order, each once, *)
(* however they nest, and none is left out but those behind a Fail.        *)
InOrder ==
    \A r \in Requests :
       /\ \A j \in 1..Len(begun[r]) : begun[r][j] = j
       /\ at[r] = "done" /\ ~failed[r] => Len(begun[r]) = Len(hs[r])

(* After Fail no handler of the chain is called any more, whatever the     *)
(* handlers that are under way call afterwards.                            *)
FailStops == \A r \in Requests : failed[r] => begun'[r] = begun[r]
FailIsFinal == [][FailStops]_ctx

(* The inductive invariant behind them: as long as i is inside the chain   *)
(* it counts the handlers that have been called, but for the one that      *)
(* runs; and it only leaves the chain when all have been called, or in     *)
(* Fail.                                                                   *)
TypeOK ==
    /\ hs \in [Requests -> Seq(Func)] /\ i \in [Requests -> Nat]
    /\ at \in [Requests -> {"idle", "run", "handler", "done"}]
    /\ depth \in [Requests -> Nat] /\ begun \in [Requests -> Seq(Nat)]
    /\ failed \in [Requests -> BOOLEAN] /\ status \in [Requests -> Nat]
Counts(r) ==
    LET n == Len(hs[r]) k == Len(begun[r]) IN
    /\ at[r] = "idle" => ~failed[r] /\ n = 0 /\ k = 0 /\ i[r] = 0
    /\ at[r] = "run" /\ i[r] < n => i[r] = k
    /\ at[r] = "handler" => depth[r] > 0 /\ (i[r] < n => i[r] + 1 = k)
    /\ at[r] = "done" \/ failed[r] => i[r] >= n
    /\ ~failed[r] /\ i[r] >= n => k = n
    /\ \A j \in 1..k : begun[r][j] = j
IInv == TypeOK /\ \A r \in Requests : Counts(r)
=============================================================================
