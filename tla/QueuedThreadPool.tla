-------------------------- MODULE QueuedThreadPool --------------------------
(***************************************************************************)
(* FQueuedThreadPoolBase and its FQueuedThreads: callers add and retract   *)
(* work, also from within DoThreadedWork, pool threads do it, and one      *)
(* owner destroys the pool.                                                *)
(*                                                                         *)
(* A scope that holds SynchQueue is one step, but for the last one of      *)
(* Destroy, which kills and joins the threads with the lock held.          *)
(* TimeToDie is read before the lock is taken, so AddQueuedWork and        *)
(* RetractQueuedWork are two steps each.                                   *)
(***************************************************************************)
EXTENDS Integers, Sequences, SequencesExt, FiniteSets

CONSTANTS
  Threads,             (* AllThreads                                       *)
  Clients,             (* other threads that add and retract work          *)
  Works,               (* each is added once, which bounds the runs        *)
  NoWork,              (* nullptr                                          *)
  Owners,              (* may the owner be careless, see below             *)
  EraseEndIsFatal      (* what the build does in QueuedWork.erase(end()),  *)
                       (* which is undefined: crash, or nothing            *)

ASSUME PoolAssumption ==
  /\ Threads # {} /\ Threads \cap Clients = {} /\ NoWork \notin Works
  /\ IsFiniteSet(Threads)
  /\ Owners \subseteq BOOLEAN /\ EraseEndIsFatal \in BOOLEAN

Callers == Threads \cup Clients

VARIABLES
  queue,       (* the pool's QueuedWork                                    *)
  available,   (* QueuedThreads                                            *)
  timeToDie,   (* the pool's TimeToDie                                     *)
  destroyer,   (* where Destroy is, "none" at first                        *)
  alive,       (* threads Destroy has not joined and deleted               *)
  event, die, given,   (* DoWorkEvent, TimeToDie, QueuedWork of a thread   *)
  pc, work,    (* where each pool thread is, and its LocalQueuedWork       *)
  call, arg,   (* the pool function a caller is in, and its argument       *)
  fate,        (* history: what has become of each work                    *)
  careless,    (* the owner may destroy the pool while some thread is      *)
               (* inside AddQueuedWork or RetractQueuedWork                *)
  crashed      (* the process has run into undefined behaviour             *)

threadVars  == <<event, die, given, pc, work>>
destroyVars == <<timeToDie, destroyer, alive, careless>>
callVars    == <<call, arg>>
vars == <<queue, available, destroyVars, threadVars, callVars, fate,
          crashed>>

(* SynchQueue exists and Destroy does not hold it.                          *)
CanLock == destroyer \in {"none", "draining", "drained"}

SetFate(w, f) == fate' = [fate EXCEPT ![w] = f]

Init ==
  /\ queue = <<>>
  /\ available \in {s \in [1 .. Cardinality(Threads) -> Threads] : Range(s) = Threads}
  /\ timeToDie = FALSE /\ destroyer = "none" /\ careless \in Owners
  /\ alive = Threads /\ crashed = FALSE
  /\ event = [t \in Threads |-> FALSE]
  /\ die = [t \in Threads |-> FALSE]
  /\ given = [t \in Threads |-> NoWork]
  /\ pc = [t \in Threads |-> "loop"]
  /\ work = [t \in Threads |-> NoWork]
  /\ call = [c \in Callers |-> "none"]
  /\ arg = [c \in Callers |-> NoWork]
  /\ fate = [w \in Works |-> "new"]

-----------------------------------------------------------------------------
(* The functions of the pool                                                *)

(* A client, or the DoThreadedWork a pool thread is in, may call the pool.  *)
MayCall(c) ==
  /\ call[c] = "none"
  /\ c \in Threads => pc[c] = "work"

Enter(c, function, w) ==
  /\ call' = [call EXCEPT ![c] = function]
  /\ arg' = [arg EXCEPT ![c] = w]

Leave(c) == Enter(c, "none", NoWork)

AddQueuedWork(c, w) ==
  /\ MayCall(c)
  /\ fate[w] = "new" /\ \A d \in Callers : arg[d] # w
  /\ \/ /\ timeToDie
        /\ SetFate(w, "abandoned")
        /\ UNCHANGED callVars
     \/ /\ ~timeToDie
        /\ Enter(c, "add", w)
        /\ UNCHANGED fate
  /\ UNCHANGED <<queue, available, destroyVars, threadVars>>

(* With the lock: hand the work to the first available thread, or queue it. *)
ThreadReady == available # <<>>

AddLocked(c) ==
  /\ call[c] = "add" /\ CanLock
  /\ \/ /\ ThreadReady
        /\ LET t == Head(available) IN
             /\ given' = [given EXCEPT ![t] = arg[c]]
             /\ event' = [event EXCEPT ![t] = TRUE]
        /\ available' = Tail(available)
        /\ UNCHANGED queue
     \/ /\ ~ThreadReady
        /\ queue' = Append(queue, arg[c])
        /\ UNCHANGED <<available, given, event>>
  /\ SetFate(arg[c], "added")
  /\ Leave(c)
  /\ UNCHANGED <<destroyVars, die, pc, work>>

RetractQueuedWork(c, w) ==
  /\ MayCall(c) /\ ~timeToDie
  /\ fate[w] = "added" /\ \A d \in Callers : arg[d] # w
  /\ Enter(c, "retract", w)
  /\ UNCHANGED <<queue, available, destroyVars, threadVars, fate>>

RetractFound(c) ==
  /\ call[c] = "retract" /\ CanLock
  /\ \E k \in DOMAIN queue :
       queue[k] = arg[c] /\ queue' = RemoveAt(queue, k)
  /\ SetFate(arg[c], "retracted")
  /\ Leave(c)
  /\ UNCHANGED <<available, destroyVars, threadVars>>

(* A thread has taken the work, or Destroy has abandoned it: std::remove    *)
(* finds nothing and returns end().                                         *)
RetractMissed(c) ==
  /\ call[c] = "retract" /\ CanLock
  /\ arg[c] \notin Range(queue)
  /\ crashed' = EraseEndIsFatal
  /\ Leave(c)
  /\ UNCHANGED <<queue, available, destroyVars, threadVars, fate>>

(* SynchQueue is a null pointer by now.                                     *)
LockAfterDestroy(c) ==
  /\ call[c] # "none" /\ destroyer = "gone"
  /\ crashed' = TRUE
  /\ UNCHANGED <<queue, available, destroyVars, threadVars, callVars, fate>>

-----------------------------------------------------------------------------
(* FQueuedThread::Run                                                       *)

Goto(t, label) == pc' = [pc EXCEPT ![t] = label]

WakeUp(t) ==
  /\ pc[t] = "wait" /\ event[t]
  /\ event' = [event EXCEPT ![t] = FALSE]
  /\ Goto(t, "woken")
  /\ UNCHANGED <<queue, available, destroyVars, die, given, work, callVars, fate>>

(* Wrong variant: QueuedWork keeps the job it has handed over.              *)
NotCleared(t) == given

Cleared(t) == [given EXCEPT ![t] = NoWork]

(* LocalQueuedWork = QueuedWork; QueuedWork = nullptr.                      *)
TakeWork(t) ==
  /\ pc[t] = "woken"
  /\ work' = [work EXCEPT ![t] = given[t]]
  /\ given' = Cleared(t)
  /\ IF given[t] = NoWork
     THEN Goto(t, "loop") /\ UNCHANGED fate
     ELSE Goto(t, "work") /\ SetFate(given[t], "running")
  /\ UNCHANGED <<queue, available, destroyVars, event, die, callVars>>

(* DoThreadedWork returns.                                                  *)
FinishWork(t) ==
  /\ pc[t] = "work" /\ call[t] = "none"
  /\ SetFate(work[t], "done")
  /\ Goto(t, "return")
  /\ UNCHANGED <<queue, available, destroyVars, event, die, given, work, callVars>>

ReturnToPoolOrGetNextJob(t) ==
  /\ pc[t] = "return" /\ CanLock
  /\ \/ /\ queue # <<>>
        /\ work' = [work EXCEPT ![t] = Head(queue)]
        /\ SetFate(Head(queue), "running")
        /\ queue' = Tail(queue)
        /\ Goto(t, "work")
        /\ UNCHANGED available
     \/ /\ queue = <<>>
        /\ work' = [work EXCEPT ![t] = NoWork]
        /\ available' = Append(available, t)
        /\ Goto(t, "loop")
        /\ UNCHANGED <<queue, fate>>
  /\ UNCHANGED <<destroyVars, event, die, given, callVars>>

(* while (!TimeToDie)                                                       *)
TestTimeToDie(t) ==
  /\ pc[t] = "loop"
  /\ Goto(t, IF die[t] THEN "exited" ELSE "wait")
  /\ UNCHANGED <<queue, available, destroyVars, event, die, given, work,
                 callVars, fate>>

Run(t) == \/ WakeUp(t) \/ TakeWork(t) \/ FinishWork(t)
          \/ ReturnToPoolOrGetNextJob(t) \/ TestTimeToDie(t)

-----------------------------------------------------------------------------
(* Destroy                                                                  *)

BeginDestroy ==
  /\ destroyer = "none"
  /\ careless \/ \A c \in Callers : call[c] = "none"
  /\ timeToDie' = TRUE
  /\ fate' = [w \in Works |-> IF w \in Range(queue) THEN "abandoned" ELSE fate[w]]
  /\ queue' = <<>>
  /\ destroyer' = "draining"
  /\ UNCHANGED <<available, alive, careless, threadVars, callVars>>

(* Wrong variant: an off-by-one in the test Destroy polls.                  *)
AllIdleNever == Len(available) > Cardinality(Threads)

(* AllThreads.size() == QueuedThreads.size(), then the lock is taken again. *)
AllIdle == Len(available) = Cardinality(Threads)

Drained ==
  /\ destroyer = "draining" /\ AllIdle
  /\ destroyer' = "drained"
  /\ UNCHANGED <<queue, available, timeToDie, alive, careless, threadVars,
                 callVars, fate>>

(* Otherwise sleep and look again.                                          *)
DrainPoll == destroyer = "draining" /\ ~AllIdle /\ UNCHANGED vars

(* KillThread sets the flag, triggers and joins, one thread after another   *)
(* and all with the lock held.                                              *)
KillThread(t) ==
  /\ destroyer \in {"drained", "killing"} /\ t \in alive
  /\ die' = [die EXCEPT ![t] = TRUE]
  /\ destroyer' = "triggering"
  /\ UNCHANGED <<queue, available, timeToDie, alive, careless, event, given, pc,
                 work, callVars, fate>>

KillTrigger(t) ==
  /\ destroyer = "triggering" /\ t \in alive /\ die[t]
  /\ event' = [event EXCEPT ![t] = TRUE]
  /\ destroyer' = "joining"
  /\ UNCHANGED <<queue, available, timeToDie, alive, careless, die, given, pc,
                 work, callVars, fate>>

KillJoin(t) ==
  /\ destroyer = "joining" /\ t \in alive /\ die[t]
  /\ pc[t] = "exited"
  /\ alive' = alive \ {t}
  /\ destroyer' = "killing"
  /\ UNCHANGED <<queue, available, timeToDie, careless, threadVars, callVars,
                 fate>>

EndDestroy ==
  /\ destroyer = "killing" /\ alive = {}
  /\ available' = <<>>
  /\ destroyer' = "gone"
  /\ UNCHANGED <<queue, timeToDie, alive, careless, threadVars, callVars, fate>>

Destroy ==
  \/ Drained \/ EndDestroy
  \/ \E t \in Threads : KillThread(t) \/ KillTrigger(t) \/ KillJoin(t)

Call(c) == AddLocked(c) \/ RetractFound(c)

Finished ==
  /\ destroyer = "gone" /\ UNCHANGED vars

Next ==
  /\ ~crashed
  /\ \/ \E c \in Callers : RetractMissed(c) \/ LockAfterDestroy(c)
     \/ /\ \/ \E c \in Callers, w \in Works :
                AddQueuedWork(c, w) \/ RetractQueuedWork(c, w)
           \/ \E c \in Callers : Call(c)
           \/ \E t \in Threads : Run(t)
           \/ BeginDestroy \/ Destroy
        /\ UNCHANGED crashed
     \/ DrainPoll \/ Finished

(* Threads keep being scheduled, a work's function returns, and the lock is *)
(* granted in the end.  Nobody has to add work or to destroy the pool.      *)
Intact(A) == ~crashed /\ A /\ UNCHANGED crashed
Fairness ==
  /\ \A t \in Threads : WF_vars(Intact(Run(t)))
  /\ \A c \in Callers : WF_vars(Intact(Call(c)) \/ (~crashed /\ RetractMissed(c)))
  /\ WF_vars(Intact(Destroy))

Spec == Init /\ [][Next]_vars
FairSpec == Spec /\ Fairness

-----------------------------------------------------------------------------
(* Properties                                                               *)

(* A thread is in the pool at most once, and only when it has nothing to do *)
(* and nothing on its way: DoWork's assertion "Can't do more than one task  *)
(* at a time" holds whichever thread AddQueuedWork picks.                   *)
PooledThreadsAreFree ==
  /\ \A j, k \in DOMAIN available : available[j] = available[k] => j = k
  /\ \A t \in Range(available) :
       /\ given[t] = NoWork /\ work[t] = NoWork
       /\ pc[t] \in {"loop", "wait", "woken", "exited"}
       /\ event[t] \/ pc[t] = "woken" => die[t]

(* "Well you woke me up, where is the job or termination request?"          *)
(* (ThreadingBase.cpp:440), and the other way round: a job that was handed  *)
(* over will wake its thread.                                               *)
WokenForAReason ==
  \A t \in Threads :
    /\ event[t] \/ pc[t] = "woken" => given[t] # NoWork \/ die[t]
    /\ given[t] # NoWork => event[t] \/ pc[t] = "woken"

(* A retraction that comes too late returns false and no more               *)
(* (QueuedThreadPool.h:45), and no call finds the lock gone.                *)
NeverCrashes == ~crashed

(* Each work meets one end, whenever Destroy is called, and it does so in   *)
(* the end if the owner is not careless (QueuedThreadPool.h:23-50).         *)
Pool == INSTANCE WorkPool
ImplementsWorkPool == Pool!SafeSpec /\ (~careless => Pool!AllSettle)

(* Destroy comes back, all threads joined ...                               *)
DestroyReturns == (destroyer = "draining") ~> (destroyer = "gone")

(* ... when nobody is inside one of the pool's functions when it begins.    *)
QuietDestroyReturns ==
  (destroyer = "draining" /\ ~careless) ~> (destroyer = "gone")
=============================================================================
