----------------------------- MODULE MCGraphTask -----------------------------
(* Instances of GraphTask for TLC.                                          *)
EXTENDS GraphTask, TLC
CONSTANTS main, a, b, c, ga, gb, gc

MCGatherOf == a :> ga @@ b :> gb @@ c :> gc
MCRank == a :> 1 @@ b :> 2 @@ c :> 3
=============================================================================
