-------------------------- MODULE StallingTaskQueue --------------------------
(***************************************************************************)
(* The wake/stall protocol between threads that queue tasks and the        *)
(* unnamed worker threads that serve them: FStallingTaskQueue::Push and    *)
(* Pop at the granularity of their atomic reads and compare-exchanges,     *)
(* QueueTask's "push, then trigger the returned thread", the worker loop   *)
(* FTaskThreadAnyThread::ProcessTasks and the quit requests of             *)
(* ~FTaskGraphImplementation.                                              *)
(*                                                                         *)
(* The lock-free FIFOs are sequences here: one step pushes, pops or tests  *)
(* for emptiness.  The 38-bit tag counter of MasterState is a natural      *)
(* number: a wrap needs 2^38 exchanges between one thread's read and its   *)
(* compare-exchange, and a debug build asserts before it happens.          *)
(***************************************************************************)
EXTENDS Integers, Sequences, FiniteSets

CONSTANTS
  NumWorkers,     (* NumTaskThreadsPerSet                                  *)
  Pushers,        (* threads outside the pool that queue tasks             *)
  Tasks,
  NumPriorities,  (* the template argument; 2 in the program               *)
  TaskPriority,   (* the queue index QueueTask passes for each task        *)
  NoTask

Workers    == 0 .. NumWorkers - 1
Threads    == Workers \cup Pushers
Priorities == 0 .. NumPriorities - 1
NoWake     == -1

ASSUME ConstantsAssumption ==
  /\ NumWorkers \in Nat \ {0}
  /\ NumPriorities \in Nat \ {0}
  /\ TaskPriority \in [Tasks -> Priorities]
  /\ NoTask \notin Tasks
  /\ Pushers \cap Int = {}

VARIABLES
  master,    (* MasterState: the stalled-thread bits and the tag counter   *)
  queues,    (* PriorityQueues                                             *)
  event,     (* StallRestartEvent of each worker (auto-reset)              *)
  quit,      (* QuitForShutdown of each worker                             *)
  nextQuit,  (* the destructor's loop index over the workers               *)
  unpushed,  (* tasks no thread has queued yet                             *)
  executed,  (* history: tasks some worker has taken to run                *)
  pc,        (* where each thread is in Push, Pop or the worker loop       *)
  local,     (* LocalMasterState of each thread                            *)
  job,       (* the task a thread is pushing                               *)
  wake,      (* ThreadToWake of each thread                                *)
  index      (* the loop variable Index of each thread                     *)

vars == <<master, queues, event, quit, nextQuit, unpushed, executed, pc,
          local, job, wake, index>>

queueVars  == <<queues, unpushed, executed>>
quitVars   == <<quit, nextQuit>>
localVars  == <<local, job, wake, index>>

MasterStates == [bits : SUBSET Workers, counter : Nat]

(* FDoublePtr::Init; also stands for a LocalMasterState out of scope.       *)
InitState == [bits |-> {}, counter |-> 0]

(* The threads inside FStallingTaskQueue::Push that have not finished its   *)
(* compare-exchange, and those that have not triggered the event yet.       *)
Pushing == {"enqueue", "cas", "check"}
PusherPcs == {"idle", "trigger"} \cup Pushing
WorkerPcs == {"pop", "scan", "stall", "wait", "exec", "trigger", "done"}
               \cup Pushing

(* Wrong variant: bit numbers taken to count from one, as ffs does.         *)
FindThreadToWakeFromOne(bits) ==
  IF bits = {} THEN NoWake ELSE (CHOOSE w \in bits : \A v \in bits : w <= v) + 1

(* FindThreadToWake: the lowest bit that is on, -1 if there is none.        *)
FindThreadToWake(bits) ==
  IF bits = {} THEN NoWake ELSE CHOOSE w \in bits : \A v \in bits : w <= v

(* Wrong variant: an exchange that compares the bits only (the ABA problem). *)
ExchangedOnBits(p) == local[p].bits = master.bits

(* InterlockedCompareExchange compares the bits and the tag counter.        *)
Exchanged(p) == local[p] = master

(* Wrong variant: the exchange never turns a bit off.                       *)
AdvanceKeepingBits(old, newBits) ==
  [bits |-> old.bits \cup newBits, counter |-> old.counter + 1]

(* A successful exchange always installs an advanced tag counter.           *)
Advance(old, newBits) == [bits |-> newBits, counter |-> old.counter + 1]

(* Where the caller of QueueTask goes on: a worker is executing a task.     *)
AfterPush(p) == IF p \in Workers THEN "exec" ELSE "idle"

Goto(p, label) == pc' = [pc EXCEPT ![p] = label]

Init ==
  /\ master = InitState
  /\ queues = [i \in Priorities |-> <<>>]
  /\ event = [w \in Workers |-> FALSE]
  /\ quit = [w \in Workers |-> FALSE]
  /\ nextQuit = 0
  /\ unpushed = Tasks
  /\ executed = {}
  /\ pc = [p \in Threads |-> IF p \in Workers THEN "pop" ELSE "idle"]
  /\ local = [p \in Threads |-> InitState]
  /\ job = [p \in Threads |-> NoTask]
  /\ wake = [p \in Threads |-> NoWake]
  /\ index = [p \in Threads |-> 0]

-----------------------------------------------------------------------------
(* Push                                                                     *)

(* A thread outside the pool, or a worker inside a task, starts to queue a  *)
(* task and reads the master state before it touches the queue.             *)
BeginPush(p, t) ==
  /\ pc[p] = AfterPush(p)
  /\ t \in unpushed
  /\ nextQuit = 0 /\ ~quit[0]
  /\ unpushed' = unpushed \ {t}
  /\ local' = [local EXCEPT ![p] = master]
  /\ job' = [job EXCEPT ![p] = t]
  /\ Goto(p, "enqueue")
  /\ UNCHANGED <<master, queues, event, quitVars, executed, wake, index>>

(* The FIFO push; the wake-up candidate comes from the state read before.   *)
Enqueue(p) ==
  /\ pc[p] = "enqueue"
  /\ queues' = [queues EXCEPT ![TaskPriority[job[p]]] = Append(@, job[p])]
  /\ wake' = [wake EXCEPT ![p] = FindThreadToWake(local[p].bits)]
  /\ Goto(p, "cas")
  /\ UNCHANGED <<master, event, quitVars, unpushed, executed, local, job, index>>

PushExchange(p) ==
  /\ pc[p] = "cas"
  /\ Exchanged(p)
  /\ master' = Advance(local[p], local[p].bits \ {wake[p]})
  /\ Goto(p, IF wake[p] >= 0 THEN "trigger" ELSE AfterPush(p))
  /\ job' = [job EXCEPT ![p] = NoTask]
  /\ local' = [local EXCEPT ![p] = InitState]
  /\ UNCHANGED <<queueVars, event, quitVars, wake, index>>

(* A failed exchange reads the state again; with no candidate in it the     *)
(* queues are not looked at.                                                *)
PushRetry(p) ==
  /\ pc[p] = "cas"
  /\ ~Exchanged(p)
  /\ local' = [local EXCEPT ![p] = master]
  /\ wake' = [wake EXCEPT ![p] = FindThreadToWake(master.bits)]
  /\ index' = [index EXCEPT ![p] = 0]
  /\ Goto(p, IF master.bits = {} THEN "cas" ELSE "check")
  /\ UNCHANGED <<master, queueVars, event, quitVars, job>>

(* The retry's loop over the queues as it is written: bAny is set by an     *)
(* EMPTY queue, which also ends the loop; only when every queue has a task  *)
(* is the candidate dropped.  IsEmpty does not check that the link it looks *)
(* at is still the head: a link recycled meanwhile has no next, so any      *)
(* queue may look empty.                                                    *)
CheckQueue(p) ==
  /\ pc[p] = "check"
  /\ \/ /\ Goto(p, "cas")
        /\ UNCHANGED <<wake, index>>
     \/ /\ queues[index[p]] # <<>>
        /\ index[p] + 1 < NumPriorities
        /\ index' = [index EXCEPT ![p] = @ + 1]
        /\ UNCHANGED <<pc, wake>>
     \/ /\ queues[index[p]] # <<>>
        /\ index[p] + 1 = NumPriorities
        /\ wake' = [wake EXCEPT ![p] = NoWake]
        /\ Goto(p, "cas")
        /\ UNCHANGED index
  /\ UNCHANGED <<master, queueVars, event, quitVars, local, job>>

(* QueueTask: StartTaskThread triggers the event of the thread Push named.  *)
TriggerEvent(p) ==
  /\ pc[p] = "trigger"
  /\ event' = [event EXCEPT ![wake[p]] = TRUE]
  /\ wake' = [wake EXCEPT ![p] = NoWake]
  /\ Goto(p, AfterPush(p))
  /\ UNCHANGED <<master, queueVars, quitVars, local, job, index>>

Push(p) == \/ Enqueue(p) \/ PushExchange(p) \/ PushRetry(p)
           \/ CheckQueue(p) \/ TriggerEvent(p)

-----------------------------------------------------------------------------
(* Pop, with bAllowStall, inside the worker's loop                          *)

ReadMaster(w) ==
  /\ pc[w] = "pop"
  /\ local' = [local EXCEPT ![w] = master]
  /\ index' = [index EXCEPT ![w] = 0]
  /\ Goto(w, "scan")
  /\ UNCHANGED <<master, queueVars, event, quitVars, job, wake>>

TakeTask(w) ==
  /\ pc[w] = "scan"
  /\ queues[index[w]] # <<>>
  /\ queues' = [queues EXCEPT ![index[w]] = Tail(@)]
  /\ executed' = executed \cup {Head(queues[index[w]])}
  /\ Goto(w, "exec")
  /\ local' = [local EXCEPT ![w] = InitState]
  /\ UNCHANGED <<master, event, quitVars, unpushed, job, wake, index>>

QueueIsEmpty(w) ==
  /\ pc[w] = "scan"
  /\ queues[index[w]] = <<>>
  /\ \/ /\ index[w] + 1 < NumPriorities
        /\ index' = [index EXCEPT ![w] = @ + 1]
        /\ UNCHANGED pc
     \/ /\ index[w] + 1 = NumPriorities
        /\ Goto(w, "stall")
        /\ UNCHANGED index
  /\ UNCHANGED <<master, queueVars, event, quitVars, local, job, wake>>

StallExchange(w) ==
  /\ pc[w] = "stall"
  /\ Exchanged(w)
  /\ master' = Advance(local[w], local[w].bits \cup {w})
  /\ Goto(w, "wait")
  /\ local' = [local EXCEPT ![w] = InitState]
  /\ UNCHANGED <<queueVars, event, quitVars, job, wake, index>>

StallRetry(w) ==
  /\ pc[w] = "stall"
  /\ ~Exchanged(w)
  /\ Goto(w, "pop")
  /\ UNCHANGED <<master, queueVars, event, quitVars, localVars>>

(* The auto-reset event lets the worker through; a quit ends its loop.      *)
WaitEvent(w) ==
  /\ pc[w] = "wait"
  /\ event[w]
  /\ event' = [event EXCEPT ![w] = FALSE]
  /\ Goto(w, IF quit[w] THEN "done" ELSE "pop")
  /\ UNCHANGED <<master, queueVars, quitVars, localVars>>

FinishTask(w) ==
  /\ pc[w] = "exec"
  /\ Goto(w, "pop")
  /\ UNCHANGED <<master, queueVars, event, quitVars, localVars>>

Pop(w) == \/ ReadMaster(w) \/ TakeTask(w) \/ QueueIsEmpty(w)
          \/ StallExchange(w) \/ StallRetry(w) \/ WaitEvent(w) \/ FinishTask(w)

-----------------------------------------------------------------------------
(* Shutdown: the destructor "only works reliably when the system is         *)
(* completely idle", so it starts only then.                                *)

Idle ==
  /\ unpushed = {}
  /\ \A i \in Priorities : queues[i] = <<>>
  /\ \A p \in Pushers : pc[p] = "idle"
  /\ \A w \in Workers : pc[w] \in {"pop", "scan", "stall", "wait", "done"}

(* RequestQuit sets the flag and then triggers: two steps a worker that is  *)
(* awake can come between.                                                  *)
RequestQuit ==
  /\ nextQuit < NumWorkers
  /\ ~quit[nextQuit]
  /\ Idle
  /\ quit' = [quit EXCEPT ![nextQuit] = TRUE]
  /\ UNCHANGED <<master, queueVars, event, nextQuit, pc, localVars>>

(* Wrong variant: RequestQuit that sets the flag and no more.               *)
QuitWithoutTrigger ==
  /\ nextQuit < NumWorkers
  /\ quit[nextQuit]
  /\ nextQuit' = nextQuit + 1
  /\ UNCHANGED <<master, queueVars, event, quit, pc, localVars>>

QuitTrigger ==
  /\ nextQuit < NumWorkers
  /\ quit[nextQuit]
  /\ event' = [event EXCEPT ![nextQuit] = TRUE]
  /\ nextQuit' = nextQuit + 1
  /\ UNCHANGED <<master, queueVars, quit, pc, localVars>>

(* WaitForCompletion has returned for every worker: the graph is gone.      *)
ShutDown ==
  /\ nextQuit = NumWorkers
  /\ \A w \in Workers : pc[w] = "done"
  /\ UNCHANGED vars

Next ==
  \/ \E p \in Threads : Push(p) \/ \E t \in Tasks : BeginPush(p, t)
  \/ \E w \in Workers : Pop(w)
  \/ RequestQuit \/ QuitTrigger \/ ShutDown

(* Every thread is an operating-system thread that keeps being scheduled,   *)
(* inside Push, in the worker loop and in the destructor.  No thread is     *)
(* obliged to queue a task.                                                 *)
Fairness ==
  /\ \A p \in Threads : WF_vars(Push(p))
  /\ \A w \in Workers : WF_vars(Pop(w))
  /\ WF_vars(RequestQuit \/ QuitTrigger)

Spec == Init /\ [][Next]_vars
FairSpec == Spec /\ Fairness

-----------------------------------------------------------------------------
(* Properties                                                               *)

(* Every variable keeps its shape; a worker is never inside a pushers' wait.*)
TypeOK ==
  /\ master \in MasterStates
  /\ queues \in [Priorities -> Seq(Tasks)]
  /\ event \in [Workers -> BOOLEAN]
  /\ quit \in [Workers -> BOOLEAN]
  /\ nextQuit \in 0 .. NumWorkers
  /\ unpushed \subseteq Tasks
  /\ executed \subseteq Tasks
  /\ pc \in [Threads -> WorkerPcs \cup PusherPcs]
  /\ \A w \in Workers : pc[w] \in WorkerPcs
  /\ \A p \in Pushers : pc[p] \in PusherPcs
  /\ local \in [Threads -> MasterStates]
  /\ job \in [Threads -> Tasks \cup {NoTask}]
  /\ \A p \in Threads : pc[p] \in Pushing => job[p] \in Tasks
  /\ wake \in [Threads -> Workers \cup {NoWake}]
  /\ \A p \in Threads : pc[p] = "trigger" => wake[p] \in Workers
  /\ index \in [Threads -> Priorities]

(* "If there is nothing in the queues, then don't wake anyone"              *)
(* (LockFreeList.h:687): with a task in a queue, either some worker is not  *)
(* recorded as stalled or a thread is still in Push and has yet to choose a *)
(* worker to wake.                                                          *)
NoStrandedTask ==
  (\E i \in Priorities : queues[i] # <<>>)
    => \/ master.bits # Workers
       \/ \E p \in Threads : pc[p] \in {"cas", "check"}

(* The threads whose next step is to trigger w's event.                     *)
Wakers(w) == {p \in Threads : pc[p] = "trigger" /\ wake[p] = w}

(* One stall, one wake-up: a worker whose bit is on has no wake-up under    *)
(* way, one that waits with its bit off has exactly one (a pending trigger  *)
(* or a set event), and one that is running has none left over that would   *)
(* make its next wait return at once.                                       *)
OneWakePerStall ==
  \A w \in Workers : ~quit[w] =>
    /\ w \in master.bits => pc[w] = "wait" /\ ~event[w] /\ Wakers(w) = {}
    /\ pc[w] = "wait" /\ w \notin master.bits =>
         IF event[w] THEN Wakers(w) = {} ELSE \E p \in Threads : Wakers(w) = {p}
    /\ pc[w] # "wait" => ~event[w] /\ Wakers(w) = {}

(* The assertion in Pop, "you should not be stalled if you are asking for a *)
(* task" (LockFreeList.h:712), holds at its read of the master state.       *)
NotStalledWhenAsking ==
  \A w \in Workers : pc[w] = "pop" => w \notin master.bits

(* The inductive invariant behind OneWakePerStall: a candidate is one of    *)
(* the stalled threads of the state it was read from, and only a worker     *)
(* that waits, or has quit, has its bit on.                                 *)
CandidateIsStalled ==
  \A p \in Threads :
    pc[p] \in {"cas", "check"} /\ wake[p] # NoWake => wake[p] \in local[p].bits

StalledIsParked ==
  \A w \in Workers : w \in master.bits => pc[w] \in {"wait", "done"}

WakeInv ==
  TypeOK /\ CandidateIsStalled /\ StalledIsParked /\ OneWakePerStall

(* The inductive invariant behind NoStrandedTask.  It needs a queue no task *)
(* is ever pushed to, which keeps the retry's loop from dropping the        *)
(* candidate; otherwise the tag counter does the work: a worker whose       *)
(* exchange can still succeed has seen every queue empty, but for tasks of  *)
(* threads that have yet to exchange.                                       *)
UnusedPriorities == {i \in Priorities : \A t \in Tasks : TaskPriority[t] # i}

UnusedStaysEmpty ==
  \A u \in UnusedPriorities :
    /\ queues[u] = <<>>
    /\ \A p \in Threads : pc[p] = "check" => index[p] <= u

CountersAdvance == \A p \in Threads : local[p].counter <= master.counter

CandidateIsChosen ==
  \A p \in Threads :
    pc[p] \in {"cas", "check"} /\ local[p].bits # {} => wake[p] \in local[p].bits

SomeonePushing == \E p \in Threads : pc[p] \in {"cas", "check"}

ScannedIsCovered ==
  \A w \in Workers :
    pc[w] \in {"scan", "stall"} /\ Exchanged(w) =>
      \A i \in Priorities :
        (i < index[w] \/ pc[w] = "stall") /\ queues[i] # <<>> => SomeonePushing

StrandInv ==
  /\ TypeOK /\ UnusedStaysEmpty /\ CountersAdvance
  /\ CandidateIsChosen /\ ScannedIsCovered /\ NoStrandedTask

(* The pool promises what TaskPool says: a task in a queue, or already      *)
(* taken, has been submitted, and is taken once.                            *)
InQueues == UNION {{queues[i][k] : k \in DOMAIN queues[i]} : i \in Priorities}
Pool == INSTANCE TaskPool WITH submitted <- InQueues \cup executed

(* Every submission of a task and every run of one is a step of TaskPool,   *)
(* and every submitted task is eventually run.                              *)
ImplementsTaskPool == Pool!Spec

(* Once the destructor has asked every worker to quit, all of them leave    *)
(* their loops: WaitForCompletion returns.                                  *)
WorkersExit == (nextQuit = NumWorkers) ~> (\A w \in Workers : pc[w] = "done")
=============================================================================
