----------------------------- MODULE NamedThread -----------------------------
(***************************************************************************)
(* Named threads: FNamedTaskThread with its two queues, the processing     *)
(* loop that a task may enter again through the other queue, and           *)
(* WaitUntilTasksComplete, which either processes tasks until a return     *)
(* task runs or blocks on a scoped event that a worker triggers.           *)
(*                                                                         *)
(* A lane is a named thread with one of its queues.  Push and Pop of a     *)
(* lane's stalling queue are the steps that StallingTaskQueue details:     *)
(* enqueue, exchange, trigger; scan, exchange, wait.  All tasks of a lane  *)
(* have one priority.  The prerequisites of a return or trigger task are   *)
(* counted off at once when the last one completes (GraphTask).            *)
(***************************************************************************)
EXTENDS Integers, Sequences, FiniteSets

CONSTANTS
  Named,       (* named threads                                            *)
  Workers,     (* threads that run tasks for any thread                    *)
  Externals,   (* threads unknown to the task graph                        *)
  Tasks,       (* tasks of the program                                     *)
  Waits,       (* calls of WaitUntilTasksComplete, and the task each makes *)
  Target,      (* the thread and queue each task asks for                  *)
  Lots,        (* so many events are not tested for completion: 8          *)
  AnyThread, NoJob

Lanes   == Named \X {0, 1}
Threads == Named \cup Workers \cup Externals

ASSUME NamedAssumption ==
  /\ Target \in [Tasks -> Lanes \cup {AnyThread}]
  /\ AnyThread \notin Lanes /\ NoJob \notin Tasks \cup Waits
  /\ Tasks \cap Waits = {} /\ Lots \in Nat
  /\ Named \cap (Workers \cup Externals) = {} /\ Workers \cap Externals = {}

VARIABLES
  queue,            (* the tasks in each lane's StallQueue                 *)
  stalled,          (* the stalled bit of its MasterState                  *)
  moved,            (* MasterState has changed since the last Pop read it  *)
  event,            (* StallRestartEvent is signalled                      *)
  quitForReturn, quitForShutdown,
  guard,            (* RecursionGuard                                      *)
  stack,            (* the processing loops a named thread is inside       *)
  pc,               (* where its innermost loop is                         *)
  push,             (* a Push onto another thread's lane under way         *)
  ready,            (* return and trigger tasks a thread has yet to queue  *)
  doing,            (* what each worker executes                           *)
  pool,             (* tasks queued for any thread                         *)
  blocked,          (* the wait whose scoped event a thread blocks on      *)
  created, done,    (* tasks created, and those whose event has fired      *)
  phase, needs,     (* how far each wait is, and the events it waits for   *)
  dest,             (* where its return or trigger task is to run          *)
  toTrigger         (* events RequestQuit(-1) has yet to trigger           *)

laneVars  == <<queue, stalled, moved, event>>
quitVars  == <<quitForReturn, quitForShutdown, toTrigger>>
loopVars  == <<guard, stack, pc>>
taskVars  == <<created, done, doing>>
waitVars  == <<phase, needs, dest, blocked>>
queueVars == <<laneVars, push, pool>>
vars == <<laneVars, quitVars, loopVars, push, ready, pool, taskVars, waitVars>>

(* A loop is a record: its lane; stall: bAllowStall; job: the task being    *)
(* executed; wait: the wait that entered the loop, if one did.              *)
Top(n)  == stack[n][Len(stack[n])]
Lane(n) == Top(n).lane
SetJob(n, j) == [stack EXCEPT ![n][Len(stack[n])].job = j]
NoPush == [lane |-> AnyThread, step |-> "none"]
At(n, label) == pc[n] = label

Init ==
  /\ queue = [l \in Lanes |-> <<>>]
  /\ stalled = [l \in Lanes |-> FALSE]
  /\ moved = [l \in Lanes |-> FALSE]
  /\ event = [l \in Lanes |-> FALSE]
  /\ quitForReturn = [l \in Lanes |-> FALSE]
  /\ quitForShutdown = [l \in Lanes |-> FALSE]
  /\ guard = [l \in Lanes |-> 0]
  /\ stack = [n \in Named |-> <<>>]
  /\ pc = [n \in Named |-> "out"]
  /\ push = [p \in Threads |-> NoPush]
  /\ ready = [p \in Threads |-> {}]
  /\ doing = [o \in Workers |-> NoJob]
  /\ pool = {} /\ created = {} /\ done = {} /\ toTrigger = {}
  /\ blocked = [p \in Threads |-> NoJob]
  /\ phase = [w \in Waits |-> "new"]
  /\ needs = [w \in Waits |-> {}]
  /\ dest = [w \in Waits |-> AnyThread]

-----------------------------------------------------------------------------
(* Queueing                                                                 *)

(* Wrong variant: the pusher does not exchange the master state.            *)
PushStartsNowhere(l) == NoPush

(* EnqueueFromOtherThread: after the enqueue, the exchange is to follow.    *)
PushStarts(l) == [lane |-> l, step |-> "exchange"]

(* QueueTask of job j on its destination.                                   *)
QueueTask(p, j, to) ==
  IF to = AnyThread
  THEN pool' = pool \cup {j} /\ UNCHANGED <<laneVars, push>>
  ELSE /\ queue' = [queue EXCEPT ![to] = Append(@, j)]
       /\ push' = IF to[1] = p THEN push ELSE [push EXCEPT ![p] = PushStarts(to)]
       /\ UNCHANGED <<stalled, moved, event, pool>>

(* Wrong variant: the bit stays on.                                         *)
LeavesBitOn(l) == stalled

(* The stalled bit is taken off by whoever will trigger the event.          *)
TakesBitOff(l) == [stalled EXCEPT ![l] = FALSE]

(* The rest of Push: take the stalled bit off and wake the thread, or only  *)
(* advance the counter.                                                     *)
PushExchange(p) ==
  LET l == push[p].lane IN
  /\ push[p].step = "exchange"
  /\ moved' = [moved EXCEPT ![l] = TRUE]
  /\ stalled' = TakesBitOff(l)
  /\ push' = [push EXCEPT ![p] = IF stalled[l] THEN [@ EXCEPT !.step = "trigger"]
                                               ELSE NoPush]
  /\ UNCHANGED <<queue, event, pool, quitVars, loopVars, ready, taskVars, waitVars>>

PushTrigger(p) ==
  /\ push[p].step = "trigger"
  /\ event' = [event EXCEPT ![push[p].lane] = TRUE]
  /\ push' = [push EXCEPT ![p] = NoPush]
  /\ UNCHANGED <<queue, stalled, moved, pool, quitVars, loopVars, ready, taskVars,
                 waitVars>>

(* The program calls into the task graph: from outside, from a task, or     *)
(* from a named thread's own code; not after the shutdown has begun.        *)
Free(p) == push[p] = NoPush /\ ready[p] = {} /\ blocked[p] = NoJob
InCode(p) ==
  /\ Free(p)
  /\ \A l \in Lanes : ~quitForShutdown[l]
  /\ p \in Workers => doing[p] \in Tasks
  /\ p \in Named => At(p, "out") \/ (At(p, "exec") /\ Top(p).job \in Tasks)

CreateTask(p, t) ==
  /\ InCode(p) /\ t \notin created
  /\ created' = created \cup {t}
  /\ QueueTask(p, t, Target[t])
  /\ UNCHANGED <<quitVars, loopVars, ready, done, doing, waitVars>>

(* Task t completes on thread p, which has to queue what was waiting.       *)
Released(t) == {w \in Waits : phase[w] = "pending" /\ needs[w] \subseteq done \cup {t}}
Complete(p, t) ==
  /\ done' = done \cup {t}
  /\ ready' = [ready EXCEPT ![p] = Released(t)]
  /\ phase' = [w \in Waits |-> IF w \in Released(t) THEN "ready" ELSE phase[w]]

QueueReady(p, w) ==
  /\ w \in ready[p] /\ push[p] = NoPush
  /\ ready' = [ready EXCEPT ![p] = @ \ {w}]
  /\ phase' = [phase EXCEPT ![w] = "queued"]
  /\ QueueTask(p, w, dest[w])
  /\ UNCHANGED <<quitVars, loopVars, taskVars, needs, dest, blocked>>

-----------------------------------------------------------------------------
(* The processing loop of a named thread                                    *)

(* Wrong variant: an earlier request to return is not forgotten.            *)
EnterStale(l) == quitForReturn

(* The first statement of both ProcessTasks functions.                      *)
EnterLoop(l) == [quitForReturn EXCEPT ![l] = FALSE]

(* ++RecursionGuard                                                         *)
Enters(l) == [guard EXCEPT ![l] = @ + 1]

Process(l, stall, w) ==
  LET n == l[1] IN
  /\ quitForReturn' = EnterLoop(l)
  /\ guard' = Enters(l)
  /\ stack' = [stack EXCEPT ![n] =
                 Append(@, [lane |-> l, stall |-> stall, job |-> NoJob, wait |-> w])]
  /\ pc' = [pc EXCEPT ![n] = "loop"]

(* The thread's own code runs the loop until a return task (stall) or until *)
(* it is idle.  The program does not enter a loop again.                    *)
ProcessThread(l, stall) ==
  /\ InCode(l[1]) /\ At(l[1], "out")
  /\ guard[l] = 0
  /\ Process(l, stall, NoJob)
  /\ UNCHANGED <<queueVars, quitForShutdown, toTrigger, ready, taskVars, waitVars>>

(* The head of the while loop; then Pop reads the master state.             *)
Loop(n) ==
  /\ At(n, "loop")
  /\ IF quitForReturn[Lane(n)]
     THEN pc' = [pc EXCEPT ![n] = "leave"] /\ UNCHANGED moved
     ELSE /\ pc' = [pc EXCEPT ![n] = "scan"]
          /\ moved' = [moved EXCEPT ![Lane(n)] = FALSE]
  /\ UNCHANGED <<queue, stalled, event, push, pool, quitVars, guard, stack, ready,
                 taskVars, waitVars>>

PopTask(n) ==
  /\ At(n, "scan") /\ queue[Lane(n)] # <<>>
  /\ queue' = [queue EXCEPT ![Lane(n)] = Tail(@)]
  /\ stack' = SetJob(n, Head(queue[Lane(n)]))
  /\ pc' = [pc EXCEPT ![n] = "exec"]
  /\ UNCHANGED <<stalled, moved, event, push, pool, quitVars, guard, ready, taskVars,
                 waitVars>>

PopNothing(n) ==
  /\ At(n, "scan") /\ queue[Lane(n)] = <<>>
  /\ pc' = [pc EXCEPT ![n] = IF Top(n).stall THEN "stall" ELSE "leave"]
  /\ UNCHANGED <<queueVars, quitVars, guard, stack, ready, taskVars, waitVars>>

(* Wrong variant: the bit is set whatever has happened since the scan.      *)
MayStallAnyway(l) == TRUE

(* The exchange succeeds if nobody has changed the state since it was read. *)
MayStall(l) == ~moved[l]

(* The exchange at the end of Pop: stall, or read the state again.          *)
Stall(n) ==
  LET l == Lane(n) IN
  /\ At(n, "stall")
  /\ IF MayStall(l)
     THEN stalled' = [stalled EXCEPT ![l] = TRUE] /\ pc' = [pc EXCEPT ![n] = "wait"]
          /\ UNCHANGED moved
     ELSE moved' = [moved EXCEPT ![l] = FALSE] /\ pc' = [pc EXCEPT ![n] = "scan"]
          /\ UNCHANGED stalled
  /\ UNCHANGED <<queue, event, push, pool, quitVars, guard, stack, ready, taskVars,
                 waitVars>>

(* StallRestartEvent is auto-reset.                                         *)
WakeUp(n) ==
  /\ At(n, "wait") /\ event[Lane(n)]
  /\ event' = [event EXCEPT ![Lane(n)] = FALSE]
  /\ pc' = [pc EXCEPT ![n] = IF quitForShutdown[Lane(n)] THEN "leave" ELSE "loop"]
  /\ UNCHANGED <<queue, stalled, moved, push, pool, quitVars, guard, stack, ready,
                 taskVars, waitVars>>

(* A return task asks its own thread to leave the loop of its queue.        *)
RunReturnTask(n) ==
  LET w == Top(n).job IN
  /\ At(n, "exec") /\ w \in Waits
  /\ quitForReturn' = [quitForReturn EXCEPT ![dest[w]] = TRUE]
  /\ phase' = [phase EXCEPT ![w] = "fired"]
  /\ stack' = SetJob(n, NoJob)
  /\ pc' = [pc EXCEPT ![n] = "loop"]
  /\ UNCHANGED <<queueVars, quitForShutdown, toTrigger, guard, ready, taskVars, needs,
                 dest, blocked>>

FinishTask(n) ==
  /\ At(n, "exec") /\ Top(n).job \in Tasks /\ Free(n)
  /\ Complete(n, Top(n).job)
  /\ stack' = SetJob(n, NoJob)
  /\ pc' = [pc EXCEPT ![n] = "dispatch"]
  /\ UNCHANGED <<queueVars, quitVars, guard, created, doing, needs, dest, blocked>>

(* The completed task's subsequents are queued before the loop goes on.     *)
Dispatched(n) ==
  /\ At(n, "dispatch") /\ Free(n)
  /\ pc' = [pc EXCEPT ![n] = "loop"]
  /\ UNCHANGED <<queueVars, quitVars, guard, stack, ready, taskVars, waitVars>>

(* A task of the program ends the loop its thread's own code has entered.   *)
(* In the loop of a wait the same call would end the wait early: a caller's *)
(* mistake the code does not detect, and the program here does not make.    *)
RequestReturn(n) ==
  /\ InCode(n) /\ At(n, "exec") /\ Top(n).wait = NoJob
  /\ ~quitForReturn[Lane(n)]
  /\ quitForReturn' = [quitForReturn EXCEPT ![Lane(n)] = TRUE]
  /\ UNCHANGED <<queueVars, quitForShutdown, toTrigger, loopVars, ready, taskVars,
                 waitVars>>

(* Back to the caller.  The do-while of ProcessTasksUntilQuit never goes    *)
(* round: a loop that may stall ends for a return or the shutdown only.     *)
Leave(n) ==
  LET below == SubSeq(stack[n], 1, Len(stack[n]) - 1)
      w == Top(n).wait
  IN
  /\ At(n, "leave")
  /\ guard' = [guard EXCEPT ![Lane(n)] = @ - 1]
  /\ stack' = [stack EXCEPT ![n] = below]
  /\ pc' = [pc EXCEPT ![n] = IF below = <<>> THEN "out" ELSE "exec"]
  /\ phase' = IF w = NoJob THEN phase ELSE [phase EXCEPT ![w] = "returned"]
  /\ UNCHANGED <<queueVars, quitVars, ready, taskVars, needs, dest, blocked>>

-----------------------------------------------------------------------------
(* Waiting                                                                  *)

(* Wrong variant: the queue is processed once more from within itself.      *)
ProcessesAlways(p, l) == p \in Named

(* A named thread processes tasks while it waits, unless it does already.   *)
Processes(p, l) == p \in Named /\ guard[l] = 0

(* The program waits for tasks that can complete while it does: those for   *)
(* any thread, and those in the queue it will process.                      *)
CanWaitFor(p, l, t) ==
  \/ t \in done \/ Target[t] = AnyThread
  \/ Processes(p, l) /\ Target[t] = l

(* The return or trigger task is created; with no prerequisite left it is   *)
(* queued at once.                                                          *)
CreateWaitTask(p, w, W, to) ==
  /\ needs' = [needs EXCEPT ![w] = W]
  /\ dest' = [dest EXCEPT ![w] = to]
  /\ IF W \subseteq done
     THEN phase' = [phase EXCEPT ![w] = "queued"] /\ QueueTask(p, w, to)
     ELSE phase' = [phase EXCEPT ![w] = "pending"] /\ UNCHANGED queueVars

(* With many events WaitUntilTasksComplete looks before it waits.           *)
NothingPending(W) == Cardinality(W) > Lots /\ W \subseteq done

(* Its workers do not wait: a pool whose workers all wait runs no task.      *)
BeginWait(p, l, w, W) ==
  /\ InCode(p) /\ p \notin Workers /\ phase[w] = "new"
  /\ p \in Named => l[1] = p
  /\ W \subseteq created /\ W # {} /\ \A t \in W : CanWaitFor(p, l, t)

WaitForNothing(p, l, w, W) ==
  /\ BeginWait(p, l, w, W) /\ NothingPending(W)
  /\ phase' = [phase EXCEPT ![w] = "returned"]
  /\ needs' = [needs EXCEPT ![w] = W]
  /\ UNCHANGED <<queueVars, quitVars, loopVars, ready, taskVars, dest, blocked>>

WaitAndProcess(p, l, w, W) ==
  /\ BeginWait(p, l, w, W) /\ ~NothingPending(W)
  /\ Processes(p, l)
  /\ CreateWaitTask(p, w, W, l)
  /\ Process(l, TRUE, w)
  /\ UNCHANGED <<quitForShutdown, toTrigger, ready, taskVars, blocked>>

WaitOnEvent(p, l, w, W) ==
  /\ BeginWait(p, l, w, W) /\ ~NothingPending(W)
  /\ ~Processes(p, l)
  /\ CreateWaitTask(p, w, W, AnyThread)
  /\ blocked' = [blocked EXCEPT ![p] = w]
  /\ UNCHANGED <<quitVars, loopVars, ready, taskVars>>

(* FScopedEvent's destructor returns from Wait.                             *)
EventWaited(p) ==
  LET w == blocked[p] IN
  /\ w # NoJob
  /\ phase[w] = "fired"
  /\ phase' = [phase EXCEPT ![w] = "returned"]
  /\ blocked' = [blocked EXCEPT ![p] = NoJob]
  /\ UNCHANGED <<queueVars, quitVars, loopVars, ready, taskVars, needs, dest>>

-----------------------------------------------------------------------------
(* The workers, and the shutdown                                            *)

TakeWork(o) ==
  /\ doing[o] = NoJob /\ Free(o)
  /\ \E j \in pool : doing' = [doing EXCEPT ![o] = j] /\ pool' = pool \ {j}
  /\ UNCHANGED <<laneVars, push, quitVars, loopVars, ready, created, done, waitVars>>

FinishWork(o) ==
  /\ doing[o] \in Tasks /\ Free(o)
  /\ Complete(o, doing[o])
  /\ doing' = [doing EXCEPT ![o] = NoJob]
  /\ UNCHANGED <<queueVars, quitVars, loopVars, created, needs, dest, blocked>>

(* FTriggerEventGraphTask                                                   *)
TriggerEvent(o) ==
  /\ doing[o] \in Waits
  /\ phase' = [phase EXCEPT ![doing[o]] = "fired"]
  /\ doing' = [doing EXCEPT ![o] = NoJob]
  /\ UNCHANGED <<queueVars, quitVars, loopVars, ready, created, done, needs, dest,
                 blocked>>

(* "Probably only works reliably when the system is completely idle": what   *)
(* is left waits in a queue that nobody processes.                          *)
Parked == {t \in Tasks : \E l \in Lanes :
             guard[l] = 0 /\ \E i \in DOMAIN queue[l] : queue[l][i] = t}
Idle ==
  /\ created \subseteq done \cup Parked
  /\ \A w \in Waits : phase[w] \in {"new", "returned"}
  /\ \A p \in Threads : Free(p)
  /\ \A o \in Workers : doing[o] = NoJob
  /\ \A n \in Named : At(n, "out") \/ At(n, "wait")

(* Wrong variant: only the main queue's event is triggered.                 *)
TriggersMain == {l \in Lanes : l[2] = 0}

(* RequestQuit triggers the events of both queues.                          *)
Triggers == Lanes

(* RequestQuit(-1): both flags first, then both events.                     *)
RequestQuit ==
  /\ Idle /\ \A l \in Lanes : ~quitForShutdown[l]
  /\ quitForShutdown' = [l \in Lanes |-> TRUE]
  /\ toTrigger' = Triggers
  /\ UNCHANGED <<queueVars, quitForReturn, loopVars, ready, taskVars, waitVars>>

QuitTrigger(l) ==
  /\ l \in toTrigger
  /\ toTrigger' = toTrigger \ {l}
  /\ event' = [event EXCEPT ![l] = TRUE]
  /\ UNCHANGED <<queue, stalled, moved, push, pool, quitForReturn, quitForShutdown,
                 loopVars, ready, taskVars, waitVars>>

LoopStep(n) ==
  \/ Loop(n) \/ PopTask(n) \/ PopNothing(n) \/ Stall(n) \/ WakeUp(n)
  \/ RunReturnTask(n) \/ FinishTask(n) \/ Dispatched(n) \/ Leave(n)

WorkStep(o) == TakeWork(o) \/ FinishWork(o) \/ TriggerEvent(o)

ThreadStep(p) ==
  \/ PushExchange(p) \/ PushTrigger(p) \/ EventWaited(p)
  \/ \E w \in Waits : QueueReady(p, w)

Call(p) ==
  \/ \E t \in Tasks : CreateTask(p, t)
  \/ \E l \in Lanes, w \in Waits, W \in SUBSET Tasks :
       \/ WaitForNothing(p, l, w, W)
       \/ WaitAndProcess(p, l, w, W)
       \/ WaitOnEvent(p, l, w, W)

Next ==
  \/ \E p \in Threads : Call(p) \/ ThreadStep(p)
  \/ \E l \in Lanes, stall \in BOOLEAN : ProcessThread(l, stall)
  \/ \E n \in Named : LoopStep(n) \/ RequestReturn(n)
  \/ \E o \in Workers : WorkStep(o)
  \/ RequestQuit
  \/ \E l \in Lanes : QuitTrigger(l)

(* Threads keep running and task functions return; nobody has to call.      *)
Fairness ==
  /\ \A p \in Threads : WF_vars(ThreadStep(p))
  /\ \A n \in Named : WF_vars(LoopStep(n))
  /\ \A o \in Workers : WF_vars(WorkStep(o))
  /\ \A l \in Lanes : WF_vars(QuitTrigger(l))

Spec == Init /\ [][Next]_vars
FairSpec == Spec /\ Fairness

-----------------------------------------------------------------------------
(* Properties                                                               *)

(* WaitUntilTasksComplete returns only when the tasks have completed, even  *)
(* when the loop it runs in was left before by another request to return.   *)
WaitsAreHonoured ==
  \A w \in Waits : phase[w] = "returned" => needs[w] \subseteq done

(* A thread's stalled bit is on only while it waits in that queue's loop.   *)
(* So a thread never finds itself stalled when it enqueues to itself        *)
(* (TaskGraph.cpp:589) or asks for a task (LockFreeList.h:710), until the   *)
(* shutdown.                                                                *)
StalledMeansWaiting ==
  \A l \in Lanes : stalled[l] /\ ~quitForShutdown[l] =>
    At(l[1], "wait") /\ Lane(l[1]) = l

(* A task in the queue that a thread waits on has a wake-up under way.      *)
NoStrandedTask ==
  \A n \in Named : At(n, "wait") /\ queue[Lane(n)] # <<>> =>
    event[Lane(n)] \/ \E p \in Threads : push[p].lane = Lane(n)

(* No loop is entered again from within itself (the verify on               *)
(* RecursionGuard, TaskGraph.cpp:537), and the guard counts the loops.      *)
NeverReentered ==
  \A l \in Lanes :
    /\ guard[l] = Cardinality({i \in DOMAIN stack[l[1]] : stack[l[1]][i].lane = l})
    /\ guard[l] <= 1

(* A return task runs in the very loop its wait has entered: it never ends  *)
(* somebody else's loop, and none is left behind in a queue.                *)
ReturnsItsOwnLoop ==
  /\ \A n \in Named : \A i \in DOMAIN stack[n] :
       stack[n][i].job \in Waits => stack[n][i].wait = stack[n][i].job
  /\ \A l \in Lanes, w \in Waits : phase[w] = "returned" =>
       \A i \in DOMAIN queue[l] : queue[l][i] # w

(* A wait for tasks that can complete while it waits returns.               *)
WaitsReturn ==
  \A w \in Waits : phase[w] # "new" ~> phase[w] = "returned"

(* Once the destructor has asked, every named thread leaves its loop.       *)
ThreadsQuit ==
  (\A l \in Lanes : quitForShutdown[l]) ~> (\A n \in Named : At(n, "out"))
=============================================================================
