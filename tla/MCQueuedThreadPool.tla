------------------------- MODULE MCQueuedThreadPool -------------------------
(* Instances of QueuedThreadPool for TLC.                                   *)
EXTENDS QueuedThreadPool, TLC
CONSTANTS s1, s2, c1, c2, u, v, w
=============================================================================
