--------------------------- MODULE MCLinksAndJobs ---------------------------
(* Instances of LinkAllocator and of YTaskGraph for TLC, in one run: the    *)
(* two share no state, and a behaviour is one of either.                    *)
EXTENDS LinkAllocator, TLC

CONSTANTS t1, t2, a, b, c, ga, gb, gc, Tasks, Gathers, GatherOf, Rank, Workers,
          NoJob, MaxDeps, MaxWaits

VARIABLES part, life, deps, next, missed, counter, children, closed, waitFor,
          queue, signalled, workerPc, job, childrenJobs

Jobs == INSTANCE YTaskGraph WITH pc <- workerPc

ASSUME JobsAssumed == Jobs!JobsAssumption

jobVars == <<life, deps, next, missed, counter, children, closed, waitFor,
             queue, signalled, workerPc, job, childrenJobs>>

MCGatherOf == a :> ga @@ b :> gb @@ c :> gc
MCRank == a :> 1 @@ b :> 2 @@ c :> 3

MCInit == part \in {"links", "jobs"} /\ Init /\ Jobs!Init

MCNext ==
  \/ part = "links" /\ Next /\ UNCHANGED <<part, jobVars>>
  \/ part = "jobs" /\ Jobs!Next /\ UNCHANGED <<part, vars>>

MCSpec == MCInit /\ [][MCNext]_<<part, vars, jobVars>> /\ Jobs!Fairness

(* No thread of YTaskGraph sleeps over a job (YTaskGraph.cpp:57-69).        *)
NoLostWakeUp == Jobs!NoLostWakeUp

(* The second task graph keeps the promise of the first (YTaskGraph.cpp).   *)
ImplementsTaskDag == Jobs!ImplementsTaskDag
=============================================================================
