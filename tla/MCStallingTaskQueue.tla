------------------------ MODULE MCStallingTaskQueue ------------------------
(* Instances of StallingTaskQueue for TLC.                                  *)
EXTENDS StallingTaskQueue, TLC
CONSTANTS p1, p2, t1, t2, t3

(* Only one of the two queues is ever used: every task has the same         *)
(* priority, as when the program queues with the default AnyThread.         *)
OnePriority == [t \in Tasks |-> 0]

(* Tasks of both priorities.                                                *)
TwoPriorities == [t \in Tasks |-> IF t = t1 THEN 0 ELSE 1]
=============================================================================
