----------------------------- MODULE MCArcCache -----------------------------
EXTENDS ArcCache, TLC

CONSTANTS p1, p2, p3, p4, p5, p6

MCSizes == (p1 :> 1 @@ p2 :> 1 @@ p3 :> 2 @@ p4 :> 3)
MCEqual == [id \in {p1, p2, p3, p4, p5, p6} |-> 1]
Symmetry == Permutations(Id)
=============================================================================
