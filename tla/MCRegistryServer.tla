-------------------------- MODULE MCRegistryServer --------------------------
(***************************************************************************)
(* RegistryServer for TLC: two instances of one service, and a client that *)
(* registers under a name of its own and asks for them.                    *)
(***************************************************************************)
EXTENDS RegistryServer

CONSTANTS p1, p2, w, serv, web

MCNameOf == [s \in {p1, p2, w} |-> IF s = w THEN web ELSE serv]
PairNameOf == [s \in {p1, w} |-> MCNameOf[s]]
MCWants == [s \in {p1, p2, w} |-> IF s = w THEN {serv} ELSE {}]
PairWants == [s \in {p1, w} |-> MCWants[s]]
=============================================================================
