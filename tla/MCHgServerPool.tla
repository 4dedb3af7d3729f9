--------------------------- MODULE MCHgServerPool ---------------------------
(* Jobs j1 and j2 for r1, j1 asked by the window w1, and j3 for r2, a        *)
(* repository nested in r1.                                                *)
EXTENDS HgServerPool, TLC

CONSTANTS j1, j2, j3, w1, r1, r2, good, bad

MCContextOf == [j \in Jobs |-> IF j = j1 THEN w1 ELSE NoContext]
MCRootOf == [j \in Jobs |-> IF j = j3 THEN r2 ELSE r1]
MCInside == {<<r1, r1>>, <<r2, r2>>, <<r2, r1>>}
=============================================================================
