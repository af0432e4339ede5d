----------------------------- MODULE MCGebCache -----------------------------
(* Rings for GebCache.                                                     *)
EXTENDS GebCache, TLC
CONSTANTS na, nb, nc, nd, k1, k2, k3, k4, p1, p2

\* For k1, na names nb and nb names na: their loads wait for each other.  For k2,
\* nb names na, and na names nc, which has no such group.  For k3, na names nb and nb
\* names nd, which is down.  k4 is na's own.
Tangled == [n \in {na, nb, nc, nd} |->
  (k1 :> IF n = na THEN nb ELSE na)
    @@ (k2 :> IF n = nb THEN na ELSE nc) @@ (k3 :> IF n = na THEN nb ELSE nd)
    @@ (k4 :> na)]
=============================================================================
