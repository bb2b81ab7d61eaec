----------------------------- MODULE YTaskGraph -----------------------------
(***************************************************************************)
(* The second task graph of the repository, under Test: jobs with a        *)
(* counter of prerequisites, handles with a closeable array of children,   *)
(* and worker threads, each with an array of jobs of its own, a critical   *)
(* section around it, and an event.                                        *)
(*                                                                         *)
(* A job and the null job that takes over its handle have one handle; it   *)
(* is named by the job.  Children are <<job, k>>, the job with the place   *)
(* of the handle among its Depeneces.  A count that reaches zero and       *)
(* EnqueueJob are one step: nobody else knows the job then.  EnqueueJob    *)
(* reads IsIdleState, a plain bool that its thread writes at any time, and *)
(* falls back to taking turns: here it chooses any thread.                 *)
(***************************************************************************)
EXTENDS Integers, Sequences, FiniteSets, SequencesExt

CONSTANTS
  Tasks,      (* jobs of the program                                       *)
  Gathers,    (* YJobNullTasks                                             *)
  GatherOf,   (* the null job that may take over the handle of a job       *)
  Rank,       (* the program builds no cycle: a job depends downwards      *)
  Workers,
  NoJob,
  MaxDeps,    (* bound on the size of Depeneces                            *)
  MaxWaits    (* bound on the size of WaitForJobs                          *)

VARIABLES
  life,       (* how far each job is                                       *)
  deps,       (* Depeneces                                                 *)
  next,       (* loop index of CreateJob                                   *)
  missed,     (* places counted in nWaitFor                                *)
  counter,    (* PrerequistsCounter                                        *)
  children, closed,  (* SubsequenceJobs of each handle                     *)
  waitFor,    (* WaitForJobs                                               *)
  queue, signalled,  (* JobArray and EventWaitforIdle of each worker       *)
  pc, job,    (* where each worker is, and its JobToDo                     *)
  childrenJobs       (* ChildrenJobs of its DispatchSubsequents            *)

setupVars == <<deps, next, missed>>
handleVars == <<children, closed, waitFor>>
queueVars == <<queue, signalled>>
workerVars == <<pc, job, childrenJobs>>
vars == <<life, counter, setupVars, handleVars, queueVars, workerVars>>

Jobs == Tasks \cup Gathers

JobsAssumption ==
  /\ Tasks \cap Gathers = {} /\ NoJob \notin Jobs
  /\ GatherOf \in [Tasks -> Gathers]
  /\ \A g \in Gathers : \E t \in Tasks : GatherOf[t] = g
  /\ \A t, u \in Tasks : GatherOf[t] = GatherOf[u] => t = u
  /\ MaxDeps \in Nat /\ MaxWaits \in Nat

HandleOf(x) == IF x \in Tasks THEN x ELSE CHOOSE t \in Tasks : GatherOf[t] = x

(* "setup": in CreateJob; "created": not dispatched yet; "pending": waits   *)
(* for its prerequisites.                                                   *)
Init ==
  /\ life = [x \in Jobs |-> "none"]
  /\ deps = [x \in Jobs |-> <<>>] /\ next = [x \in Jobs |-> 1]
  /\ missed = [x \in Jobs |-> {}]
  /\ counter = [x \in Jobs |-> 1]
  /\ children = [t \in Tasks |-> {}] /\ closed = [t \in Tasks |-> FALSE]
  /\ waitFor = [t \in Tasks |-> <<>>]
  /\ queue = [w \in Workers |-> <<>>] /\ signalled = [w \in Workers |-> FALSE]
  /\ pc = [w \in Workers |-> "pop"] /\ job = [w \in Workers |-> NoJob]
  /\ childrenJobs = [w \in Workers |-> {}]

-----------------------------------------------------------------------------
(* CreateJob and DispatchJob                                                *)

Lower(t) == {e \in Tasks : Rank[e] < Rank[t] /\ life[e] \notin {"none", "setup"}}

(* The inputs are bounded: at most MaxDeps handles, none of them twice.      *)
Create(t) ==
  /\ life[t] = "none"
  /\ \E n \in 0 .. MaxDeps : \E D \in [1 .. n -> Lower(t)] :
       /\ IsInjective(D)
       /\ deps' = [deps EXCEPT ![t] = D]
       /\ counter' = [counter EXCEPT ![t] = @ + n]
  /\ life' = [life EXCEPT ![t] = "setup"]
  /\ UNCHANGED <<next, missed, handleVars, queueVars, workerVars>>

(* ParentJob->SubsequenceJobs.AddIfNotClosed(NewJob).                       *)
AddIfNotClosed(x) ==
  /\ life[x] = "setup" /\ next[x] <= Len(deps[x])
  /\ LET e == deps[x][next[x]] IN
     \/ /\ closed[e]
        /\ missed' = [missed EXCEPT ![x] = @ \cup {next[x]}]
        /\ UNCHANGED children
     \/ /\ ~closed[e]
        /\ children' = [children EXCEPT ![e] = @ \cup {<<x, next[x]>>}]
        /\ UNCHANGED missed
  /\ next' = [next EXCEPT ![x] = @ + 1]
  /\ UNCHANGED <<life, counter, deps, closed, waitFor, queueVars, workerVars>>

(* nWaitFor.                                                                *)
NumMissed(x) == Cardinality(missed[x])

Created(x) ==
  /\ life[x] = "setup" /\ next[x] > Len(deps[x])
  /\ counter' = [counter EXCEPT ![x] = @ - NumMissed(x)]
  /\ missed' = [missed EXCEPT ![x] = {}]
  /\ life' = [life EXCEPT ![x] = "created"]
  /\ UNCHANGED <<deps, next, handleVars, queueVars, workerVars>>

(* Wrong variant: an off-by-one, the event is triggered for the second job. *)
MustTriggerLate(w) == Len(queue[w]) = 1

(* AddJob: JobsToDoNum == 0.                                                *)
MustTrigger(w) == queue[w] = <<>>

AddJob(x, w) ==
  /\ queue' = [queue EXCEPT ![w] = Append(@, x)]
  /\ signalled' = [signalled EXCEPT ![w] = @ \/ MustTrigger(w)]

(* YTaskGraphInterfaceImplement::DispatchJob, EnqueueJob included.          *)
CountOff(x, stage) ==
  /\ counter' = [counter EXCEPT ![x] = @ - 1]
  /\ \/ /\ counter[x] = 1
        /\ life' = [life EXCEPT ![x] = "queued"]
        /\ \E w \in Workers : AddJob(x, w)
     \/ /\ counter[x] # 1
        /\ life' = [life EXCEPT ![x] = stage]
        /\ UNCHANGED queueVars

DispatchJob(x) ==
  /\ life[x] = "created"
  /\ CountOff(x, "pending")
  /\ UNCHANGED <<setupVars, handleVars, workerVars>>

-----------------------------------------------------------------------------
(* The worker threads                                                       *)

Goto(w, label) == pc' = [pc EXCEPT ![w] = label]

Pop(w) ==
  /\ pc[w] = "pop"
  /\ \/ /\ queue[w] # <<>>
        /\ queue' = [queue EXCEPT ![w] = Front(@)]
        /\ job' = [job EXCEPT ![w] = Last(queue[w])]
        /\ life' = [life EXCEPT ![Last(queue[w])] = "running"]
        /\ Goto(w, "task")
     \/ /\ queue[w] = <<>>
        /\ Goto(w, "wait")
        /\ UNCHANGED <<queue, job, life>>
  /\ UNCHANGED <<counter, setupVars, handleVars, signalled, childrenJobs>>

WakeUp(w) ==
  /\ pc[w] = "wait" /\ signalled[w]
  /\ signalled' = [signalled EXCEPT ![w] = FALSE]
  /\ Goto(w, "pop")
  /\ UNCHANGED <<life, counter, setupVars, handleVars, queue, job, childrenJobs>>

(* EventWaitforIdle->Wait(20000) is not signalled in time.                  *)
TimeOut(w) ==
  /\ pc[w] = "wait" /\ ~signalled[w]
  /\ Goto(w, "pop")
  /\ UNCHANGED <<life, counter, setupVars, handleVars, queueVars, job, childrenJobs>>

(* Called from within Task, for a handle the job has made or was given.     *)
DoNotCompleteUnitl(w) ==
  /\ pc[w] = "task" /\ job[w] \in Tasks
  /\ Len(waitFor[job[w]]) < MaxWaits
  /\ \E e \in Lower(job[w]) : waitFor' = [waitFor EXCEPT ![job[w]] = Append(@, e)]
  /\ UNCHANGED <<life, counter, setupVars, children, closed, queueVars, workerVars>>

TaskReturns(w) ==
  /\ pc[w] = "task"
  /\ life' = [life EXCEPT ![job[w]] = "finished"]
  /\ Goto(w, "subsequents")
  /\ UNCHANGED <<counter, setupVars, handleVars, queueVars, job, childrenJobs>>

(* Wrong variant: the children are told although the job has to wait.       *)
HasToWaitNever(e) == FALSE

HasToWait(e) == waitFor[e] # <<>>

(* The null job gets the handle and the handles waited for.                 *)
CreateNullJob(w) ==
  /\ pc[w] = "subsequents"
  /\ LET e == HandleOf(job[w])  g == GatherOf[e] IN
     /\ HasToWait(e)
     /\ deps' = [deps EXCEPT ![g] = waitFor[e]]
     /\ counter' = [counter EXCEPT ![g] = @ + Len(waitFor[e])]
     /\ waitFor' = [waitFor EXCEPT ![e] = <<>>]
     /\ life' = [life EXCEPT ![g] = "setup"]
  /\ Goto(w, "gather")
  /\ UNCHANGED <<next, missed, children, closed, queueVars, job, childrenJobs>>

(* Its CreateJob and DispatchJob have returned.                             *)
NullJobDispatched(w) ==
  /\ pc[w] = "gather"
  /\ life[GatherOf[job[w]]] \notin {"setup", "created"}
  /\ Goto(w, "children")
  /\ UNCHANGED <<life, counter, setupVars, handleVars, queueVars, job, childrenJobs>>

GetArrayValueAndClosed(w) ==
  /\ pc[w] = "subsequents"
  /\ LET e == HandleOf(job[w]) IN
     /\ ~HasToWait(e)
     /\ childrenJobs' = [childrenJobs EXCEPT ![w] = children[e]]
     /\ children' = [children EXCEPT ![e] = {}]
     /\ closed' = [closed EXCEPT ![e] = TRUE]
  /\ Goto(w, "children")
  /\ UNCHANGED <<life, counter, setupVars, waitFor, queueVars, job>>

DispatchChild(w) ==
  /\ pc[w] = "children"
  /\ \E c \in childrenJobs[w] :
       /\ childrenJobs' = [childrenJobs EXCEPT ![w] = @ \ {c}]
       /\ CountOff(c[1], life[c[1]])
  /\ UNCHANGED <<setupVars, handleVars, pc, job>>

(* delete this.                                                             *)
DeleteJob(w) ==
  /\ pc[w] = "children" /\ childrenJobs[w] = {}
  /\ life' = [life EXCEPT ![job[w]] = "deleted"]
  /\ job' = [job EXCEPT ![w] = NoJob]
  /\ Goto(w, "pop")
  /\ UNCHANGED <<counter, setupVars, handleVars, queueVars, childrenJobs>>

(* What the thread of w does by itself.                                     *)
Run(w) == \/ Pop(w) \/ WakeUp(w) \/ TaskReturns(w) \/ CreateNullJob(w)
          \/ NullJobDispatched(w) \/ GetArrayValueAndClosed(w)
          \/ DispatchChild(w) \/ DeleteJob(w)

SetUp(x) == AddIfNotClosed(x) \/ Created(x) \/ DispatchJob(x)

Next ==
  \/ \E t \in Tasks : Create(t)
  \/ \E x \in Jobs : SetUp(x)
  \/ \E w \in Workers : Run(w) \/ TimeOut(w) \/ DoNotCompleteUnitl(w)

(* The worker threads are scheduled, the set-up of a null job is done by    *)
(* one; nobody has to create or dispatch a job, or to wait for a timeout.   *)
Fairness ==
  /\ \A w \in Workers : WF_vars(Run(w))
  /\ \A g \in Gathers : WF_vars(SetUp(g))

Spec == Init /\ [][Next]_vars
FairSpec == Spec /\ Fairness

-----------------------------------------------------------------------------
(* Properties                                                               *)

(* A thread that waits with a job in its array has its event set: AddJob    *)
(* triggers it for the first job only (YTaskGraph.cpp:57-69), and the       *)
(* thread may come to its wait after that.                                  *)
NoLostWakeUp ==
  \A w \in Workers : pc[w] = "wait" /\ queue[w] # <<>> => signalled[w]

PhaseOf(stage) ==
  CASE stage = "none" -> "none"
    [] stage \in {"setup", "created", "pending", "queued"} -> "created"
    [] stage = "running" -> "running"
    [] OTHER -> "finished"

Awaited(t) == ToSet(IF life[GatherOf[t]] = "none" THEN waitFor[t] ELSE deps[GatherOf[t]])

Dag == INSTANCE TaskDag WITH
  Tracked  <- Tasks,
  phase    <- [t \in Tasks |-> PhaseOf(life[t])],
  released <- {t \in Tasks : life[t] \notin {"none", "setup", "created"}},
  requires <- [t \in Tasks |-> ToSet(deps[t])],
  awaits   <- [t \in Tasks |-> Awaited(t)],
  complete <- {t \in Tasks : closed[t]}

(* The same promise as the first task graph's: a job runs once, after its   *)
(* prerequisites; its handle completes once, after what it was told to wait *)
(* for; and what can run does run, without the help of a timeout.           *)
ImplementsTaskDag == Dag!Spec
=============================================================================
