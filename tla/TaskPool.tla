------------------------------ MODULE TaskPool ------------------------------
(***************************************************************************)
(* What FTaskGraphInterface promises to a caller of QueueTask, with no     *)
(* threads, queues or events: a task that has been handed over is executed *)
(* once, by some worker, and no handed-over task waits for ever.           *)
(***************************************************************************)
CONSTANT Tasks

VARIABLES
  submitted,   (* tasks whose QueueTask call has made them visible         *)
  executed     (* tasks a worker has taken to run                          *)

poolVars == <<submitted, executed>>

Init == submitted = {} /\ executed = {}

Submit(t) ==
  /\ t \notin submitted
  /\ submitted' = submitted \cup {t}
  /\ UNCHANGED executed

Run(t) ==
  /\ t \in submitted \ executed
  /\ executed' = executed \cup {t}
  /\ UNCHANGED submitted

Next == \E t \in Tasks : Submit(t) \/ Run(t)

Fairness == \A t \in Tasks : WF_poolVars(Run(t))

SafeSpec == Init /\ [][Next]_poolVars
Spec == SafeSpec /\ Fairness
=============================================================================
