----------------------------- MODULE MCBroadcast -----------------------------
(* Instances of Broadcast for TLC.                                          *)
EXTENDS Broadcast, TLC

(* As this fork is built, without other sets, and with the high one too.    *)
(* Only the background set without the high one would not do: its number    *)
(* would be 1 and its priority 2.                                           *)
MCThreadSets == {{}, {HighThread}}

(* A task without a priority, and one for a high priority thread.           *)
AnyTask == {AnyThread}
BothTasks == AnyTask \cup {SetPriorities(AnyThread, HighThread, NormalTask)}
=============================================================================
