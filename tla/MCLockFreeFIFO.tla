--------------------------- MODULE MCLockFreeFIFO ---------------------------
(* Instances of LockFreeFIFO for TLC.                                       *)
EXTENDS LockFreeFIFO, TLC
CONSTANTS p1, p2, p3, x, y, z, l1, l2, l3, l4

Symmetry == Permutations(Threads) \cup Permutations(Items) \cup Permutations(Links)
=============================================================================
