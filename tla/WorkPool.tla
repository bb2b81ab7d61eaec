------------------------------ MODULE WorkPool ------------------------------
(***************************************************************************)
(* What a thread pool promises of each IQueuedWork handed to               *)
(* AddQueuedWork: in the end it has been done once, or abandoned, or       *)
(* retracted, and only one of the three.                                   *)
(***************************************************************************)
CONSTANT Works

VARIABLE fate

Init == fate = [w \in Works |-> "new"]

Change(w, from, to) == fate[w] = from /\ fate' = [fate EXCEPT ![w] = to]

Add(w)     == Change(w, "new", "added")
Refuse(w)  == Change(w, "new", "abandoned")
Begin(w)   == Change(w, "added", "running")
Finish(w)  == Change(w, "running", "done")
Retract(w) == Change(w, "added", "retracted")

(* Destroy abandons all that is queued at once.                             *)
Abandon(W) ==
  /\ \A w \in W : fate[w] = "added"
  /\ fate' = [w \in Works |-> IF w \in W THEN "abandoned" ELSE fate[w]]

Next ==
  \/ \E w \in Works : Add(w) \/ Refuse(w) \/ Begin(w) \/ Finish(w) \/ Retract(w)
  \/ \E W \in SUBSET Works : Abandon(W)

SafeSpec == Init /\ [][Next]_fate

Settled(w) == fate[w] \in {"done", "abandoned", "retracted"}

AllSettle == \A w \in Works : (fate[w] = "added") ~> Settled(w)

Spec == SafeSpec /\ AllSettle
=============================================================================
