--------------------------- MODULE MCLockFreeLIFO ---------------------------
(* Instances of LockFreeLIFO for TLC.                                       *)
EXTENDS LockFreeLIFO, TLC
CONSTANTS p1, p2, p3, x, y, z, l1, l2, l3

Symmetry == Permutations(Threads) \cup Permutations(Items) \cup Permutations(Links)
=============================================================================
