---------------------------- MODULE MCNamedThread ----------------------------
(* Instances of NamedThread for TLC.                                        *)
EXTENDS NamedThread, TLC
CONSTANTS game, a, b

(* A task for any thread, and one for the main queue of the named thread.   *)
MCTarget == a :> AnyThread @@ b :> <<game, 0>>
=============================================================================
