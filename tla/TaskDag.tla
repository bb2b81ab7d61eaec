------------------------------- MODULE TaskDag -------------------------------
(***************************************************************************)
(* What TGraphTask and FGraphEvent promise to a program that builds a      *)
(* graph of tasks: a task runs once, after every prerequisite it was given *)
(* has completed, and its completion event fires once, after the task has  *)
(* run and every event it was told to wait for has fired.                  *)
(***************************************************************************)
CONSTANTS Tasks, Tracked   (* Tracked: the tasks that have a completion event *)

VARIABLES
  phase,      (* "none", "created", "running" or "finished"                *)
  released,   (* tasks that are not held back by their creator             *)
  requires,   (* the prerequisites of each task                            *)
  awaits,     (* the events its completion was made to wait for            *)
  complete    (* events that have fired                                    *)

dagVars == <<phase, released, requires, awaits, complete>>

Init ==
  /\ phase = [t \in Tasks |-> "none"]
  /\ released = {}
  /\ requires = [t \in Tasks |-> {}]
  /\ awaits = [t \in Tasks |-> {}]
  /\ complete = {}

Create(t) ==
  /\ phase[t] = "none"
  /\ phase' = [phase EXCEPT ![t] = "created"]
  /\ \E P \in SUBSET Tracked : requires' = [requires EXCEPT ![t] = P]
  /\ UNCHANGED <<released, awaits, complete>>

Release(t) ==
  /\ phase[t] = "created" /\ t \notin released
  /\ released' = released \cup {t}
  /\ UNCHANGED <<phase, requires, awaits, complete>>

Run(t) ==
  /\ phase[t] = "created" /\ t \in released
  /\ requires[t] \subseteq complete
  /\ phase' = [phase EXCEPT ![t] = "running"]
  /\ UNCHANGED <<released, requires, awaits, complete>>

AwaitMore(t) ==
  /\ phase[t] = "running"
  /\ \E e \in Tracked : awaits' = [awaits EXCEPT ![t] = @ \cup {e}]
  /\ UNCHANGED <<phase, released, requires, complete>>

Finish(t) ==
  /\ phase[t] = "running"
  /\ phase' = [phase EXCEPT ![t] = "finished"]
  /\ UNCHANGED <<released, requires, awaits, complete>>

Complete(t) ==
  /\ phase[t] = "finished"
  /\ t \in Tracked \ complete
  /\ awaits[t] \subseteq complete
  /\ complete' = complete \cup {t}
  /\ UNCHANGED <<phase, released, requires, awaits>>

Next == \E t \in Tasks :
  Create(t) \/ Release(t) \/ Run(t) \/ AwaitMore(t) \/ Finish(t) \/ Complete(t)

Fairness == \A t \in Tasks :
  WF_dagVars(Run(t)) /\ WF_dagVars(Finish(t)) /\ WF_dagVars(Complete(t))

SafeSpec == Init /\ [][Next]_dagVars
Spec == SafeSpec /\ Fairness
=============================================================================
