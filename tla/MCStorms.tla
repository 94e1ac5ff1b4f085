------------------------------ MODULE MCStorms ------------------------------
EXTENDS Storms

CONSTANTS r1, c1, v1, v2, a1, a2, b1, A, B

MCScenes == {{r1}, {v1, v2}, {c1, v1}, {a1, a2, b1}}
Alike    == Permutations({a1, a2})
MCSigOf  == [k \in Clone |-> IF k = b1 THEN B ELSE A]
=============================================================================
