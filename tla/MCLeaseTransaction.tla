------------------------- MODULE MCLeaseTransaction -------------------------
(* Two tasks of different pools that lock one resource, and two workers;   *)
(* both lease from the first pool, one of them also from the second.       *)
EXTENDS LeaseTransaction, TLC

CONSTANTS t1, t2, t3, w1, w2, pa, pb, ra

MCPoolOf == [t \in Task |-> IF t = t2 THEN pb ELSE pa]
MCResourceOf == [t \in Task |-> IF t = t3 THEN NoResource ELSE ra]
MCOrder == [t \in Task |-> CASE t = t1 -> 1 [] t = t2 -> 2 [] OTHER -> 3]

MCSession == {<<w1, pa>>, <<w2, pa>>, <<w2, pb>>}
=============================================================================
