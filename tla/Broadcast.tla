----------------------------- MODULE Broadcast -----------------------------
(***************************************************************************)
(* BroadcastSlow_OnlyUseForSpecialPurposes: the game thread makes as many  *)
(* tasks as there are workers, and each holds its worker until all of them *)
(* run, or until three seconds are over.  With it the routing of tasks to  *)
(* thread sets, and the event pool from which a broadcast takes its events *)
(* and to which it gives them back.                                        *)
(*                                                                         *)
(* A worker that its queue needs is awake (StallingTaskQueue): an incoming *)
(* queue is two sequences, and a worker takes the first task of the first  *)
(* that has one.  Time is left out: the wait may time out at any moment.   *)
(***************************************************************************)
EXTENDS QueueRouting, Sequences, SequencesExt

CONSTANTS
  ThreadSets,      (* what the constructor may find in bHasHighPriority... *)
                   (* and bHasBackgroundThreads                            *)
  OtherTasks,      (* ThreadToExecuteOn of the program's other tasks       *)
  MaxOthers,       (* bound on the number of these                         *)
  NamedThreads,    (* "game", and "render" if there is a render thread     *)
  MaxRounds        (* bound on the number of broadcasts                    *)

(* Other tasks name any thread, with priorities that exist.  A background   *)
(* set without a high one is left out: its number would be 1 and its        *)
(* priority 2, which neither the constructor nor StartTaskThread handles.   *)
AnyThreadTasks ==
  {SetPriorities(AnyThread, p, q) : p \in 0 .. 2, q \in 0 .. 1}

ASSUME BroadcastAssumption ==
  /\ NumNamedThreads \in Nat /\ NumTaskThreads \in Nat \ {0}
  /\ \A S \in ThreadSets : S \subseteq {HighThread, BackgroundThread}
                         /\ (BackgroundThread \in S => HighThread \in S)
  /\ OtherTasks \subseteq AnyThreadTasks

VARIABLES
  created,     (* bCreatedHiPriorityThreads, bCreatedBackground...         *)
  enabled,     (* bHasHighPriorityThreads, bHasBackgroundThreads           *)
  incoming,    (* IncomingAnyThreadTasks                                   *)
  others,      (* number of other tasks queued so far                      *)
  pc, task,    (* where each worker is, and its Task                       *)
  made,        (* number of events the event pool has made                 *)
  signalled,   (* events that are set                                      *)
  pool,        (* the event pool, its top last                             *)
  caller,      (* where the game thread is in the broadcast                *)
  todo,        (* the tasks the loops still have to make                   *)
  covered,     (* history: the sets the broadcast makes tasks for          *)
  taskEvents,  (* TaskEvents                                               *)
  myEvent,     (* MyEvent                                                  *)
  counter,     (* StallForTaskThread                                       *)
  named,       (* Tasks: of the game and the render thread, not yet run    *)
  ran,         (* history: how often each worker ran the callback          *)
  timedOut,    (* history: MyEvent->Wait returned false                    *)
  round

settings == <<created, enabled>>
workerVars == <<pc, task>>
eventVars == <<made, signalled, pool>>
callVars == <<caller, todo, covered, taskEvents, myEvent, named, timedOut,
              round>>
vars == <<settings, incoming, others, workerVars, eventVars, callVars,
          counter, ran>>

NoEvent == 0
AllWorkers == Workers({HighThread, BackgroundThread})
NoTask == [to |-> AnyThread, event |-> NoEvent]

Init ==
  /\ created \in ThreadSets /\ enabled = created
  /\ incoming = [p \in 0 .. 2 |-> [q \in 0 .. 1 |-> <<>>]]
  /\ others = 0
  /\ pc = [w \in AllWorkers |-> "idle"] /\ task = [w \in AllWorkers |-> NoTask]
  /\ made = 0 /\ signalled = {} /\ pool = <<>>
  /\ caller = "idle" /\ todo = <<>> /\ covered = {}
  /\ taskEvents = <<>> /\ myEvent = NoEvent
  /\ counter = 0 /\ named = {}
  /\ ran = [w \in AllWorkers |-> 0] /\ timedOut = FALSE /\ round = 0

(* QueueTask for a task of any worker.                                      *)
QueueTask(t) ==
  LET r == Route(t.to, created \cap enabled) IN
  incoming' = [incoming EXCEPT ![r.priority][r.queue] = Append(@, t)]

QueueOther ==
  /\ others < MaxOthers /\ others' = others + 1
  /\ \E to \in OtherTasks : QueueTask([to |-> to, event |-> NoEvent])
  /\ UNCHANGED <<settings, workerVars, eventVars, callVars, counter, ran>>

(* TaskGraph.ABTestThreads, a command of the game thread.  Where it is not  *)
(* compiled in, this is a write of the program to the two exported flags.   *)
ThreadSwitchForABTest ==
  /\ caller = "idle" /\ round < MaxRounds
  /\ enabled' \in SUBSET {HighThread, BackgroundThread}
  /\ UNCHANGED <<created, incoming, others, workerVars, eventVars, callVars,
                 counter, ran>>

-----------------------------------------------------------------------------
(* The worker threads                                                       *)

Goto(w, label) == pc' = [pc EXCEPT ![w] = label]

(* FindWork: queue 0 is served before queue 1.                              *)
TakeTask(w) ==
  /\ pc[w] = "idle" /\ w \in Workers(created)
  /\ LET mine == incoming[PriorityIndex(w)] IN
     \E q \in 0 .. 1 :
       /\ mine[q] # <<>> /\ (q = 1 => mine[0] = <<>>)
       /\ task' = [task EXCEPT ![w] = Head(mine[q])]
       /\ incoming' = [incoming EXCEPT ![PriorityIndex(w)][q] = Tail(@)]
  /\ Goto(w, "call")
  /\ UNCHANGED <<settings, others, eventVars, callVars, counter, ran>>

(* Wrong variant: the worker goes on without waiting for the others.        *)
AfterCountNoWait(n) == IF n # 0 THEN "complete" ELSE "trigger"

AfterCount(n) == IF n # 0 THEN "wait" ELSE "trigger"

(* Function(CurrentThread) and StallForTaskThread->Decrement().             *)
CountDown(w) ==
  /\ pc[w] = "call" /\ task[w].event # NoEvent
  /\ ran' = [ran EXCEPT ![w] = @ + 1]
  /\ counter' = counter - 1
  /\ Goto(w, AfterCount(counter - 1))
  /\ UNCHANGED <<settings, incoming, others, task, eventVars, callVars>>

WaitForRelease(w) ==
  /\ pc[w] = "wait" /\ task[w].event \in signalled
  /\ signalled' = signalled \ {task[w].event}
  /\ Goto(w, "complete")
  /\ UNCHANGED <<settings, incoming, others, task, made, pool, callVars,
                 counter, ran>>

TriggerCaller(w) ==
  /\ pc[w] = "trigger"
  /\ signalled' = signalled \cup {myEvent}
  /\ Goto(w, "complete")
  /\ UNCHANGED <<settings, incoming, others, task, made, pool, callVars,
                 counter, ran>>

(* The completion event of the task fires; another task has just run.       *)
Complete(w) ==
  /\ pc[w] = "complete" \/ (pc[w] = "call" /\ task[w].event = NoEvent)
  /\ task' = [task EXCEPT ![w] = NoTask]
  /\ Goto(w, "idle")
  /\ UNCHANGED <<settings, incoming, others, eventVars, callVars, counter, ran>>

Work(w) == \/ TakeTask(w) \/ CountDown(w) \/ WaitForRelease(w)
           \/ TriggerCaller(w) \/ Complete(w)

-----------------------------------------------------------------------------
(* The broadcast                                                            *)

(* The sets the tasks are made for, each with its ThreadToExecuteOn.        *)
Covered(background) ==
  {NormalThread} \cup (enabled \cap {HighThread})
    \cup (IF background THEN enabled \cap {BackgroundThread} ELSE {})

(* One task for each thread of a set.                                       *)
TasksOf(p, P) ==
  [k \in 1 .. (IF p \in P THEN NumTaskThreads ELSE 0) |->
     SetPriorities(AnyThread, p, HighTask)]

TasksToMake(P) ==
  TasksOf(NormalThread, P) \o TasksOf(HighThread, P) \o TasksOf(BackgroundThread, P)

(* GetEventFromPool: e comes from the pool, or is new.                      *)
TakeEvent(e) ==
  \/ pool # <<>> /\ e = Last(pool) /\ pool' = Front(pool) /\ UNCHANGED made
  \/ pool = <<>> /\ e = made + 1 /\ made' = made + 1 /\ UNCHANGED pool

Begin ==
  /\ caller = "idle" /\ round < MaxRounds
  /\ round' = round + 1
  /\ caller' = "make"
  /\ UNCHANGED <<settings, incoming, others, workerVars, signalled, taskEvents,
                 named, timedOut, ran>>

(* bDoTaskThreads is false: only the named threads are told.                *)
BroadcastNamed ==
  /\ Begin
  /\ covered' = {}
  /\ UNCHANGED <<todo, made, pool, myEvent, counter>>

BroadcastAll(background) ==
  /\ Begin
  /\ covered' = Covered(background)
  /\ todo' = TasksToMake(covered')
  /\ counter' = NumTaskThreads * Cardinality(covered')
  /\ \E e \in 1 .. made + 1 : TakeEvent(e) /\ myEvent' = e

MakeTask ==
  /\ caller = "make" /\ todo # <<>>
  /\ todo' = Tail(todo)
  /\ \E e \in 1 .. made + 1 :
       /\ TakeEvent(e)
       /\ taskEvents' = Append(taskEvents, e)
       /\ QueueTask([to |-> Head(todo), event |-> e])
  /\ UNCHANGED <<settings, others, workerVars, signalled, caller, covered,
                 myEvent, named, timedOut, round, counter, ran>>

(* A task for the render thread, if there is one, and one for the local     *)
(* queue of the game thread.                                                *)
MakeNamedTasks ==
  /\ caller = "make" /\ todo = <<>>
  /\ named' = NamedThreads
  /\ caller' = IF covered = {} THEN "joinNamed" ELSE "wait"
  /\ UNCHANGED <<settings, incoming, others, workerVars, eventVars, todo,
                 covered, taskEvents, myEvent, timedOut, round, counter, ran>>

CallerContinues(label) ==
  /\ caller' = label
  /\ UNCHANGED <<settings, incoming, others, workerVars, made, pool, todo,
                 covered, taskEvents, myEvent, named, round, counter, ran>>

WaitForWorkers ==
  /\ caller = "wait" /\ myEvent \in signalled
  /\ signalled' = signalled \ {myEvent}
  /\ CallerContinues("release")
  /\ UNCHANGED timedOut

WaitTimesOut ==
  /\ caller = "wait" /\ myEvent \notin signalled
  /\ timedOut' = TRUE
  /\ CallerContinues("release")
  /\ UNCHANGED signalled

(* Wrong variant: after a timeout the workers are left to themselves.       *)
ReleasedOnTime == IF timedOut THEN {} ELSE ToSet(taskEvents)

Released == ToSet(taskEvents)

ReleaseWorkers ==
  /\ caller = "release"
  /\ signalled' = signalled \cup Released
  /\ CallerContinues("join")
  /\ UNCHANGED timedOut

(* A broadcast task that is queued or that a worker is in.                  *)
Queued == UNION {ToSet(incoming[p][q]) : p \in 0 .. 2, q \in 0 .. 1}
Pending == {t \in Queued \cup {task[w] : w \in AllWorkers} : t.event # NoEvent}

(* Wrong variant: only the tasks of the named threads are waited for.       *)
TasksAreCompleteOrNot == TRUE

TasksAreComplete == Pending = {}

(* WaitUntilTasksComplete(TaskThreadTasks), then (Tasks); meanwhile the     *)
(* game thread processes its local queue.                                   *)
JoinWorkers ==
  /\ caller = "join" /\ TasksAreComplete
  /\ CallerContinues("joinNamed")
  /\ UNCHANGED <<signalled, timedOut>>

RunNamed(thread) ==
  /\ thread \in named
  /\ thread = "game" => caller \in {"join", "joinNamed"}
  /\ named' = named \ {thread}
  /\ UNCHANGED <<settings, incoming, others, workerVars, eventVars, caller, todo,
                 covered, taskEvents, myEvent, timedOut, round, counter, ran>>

(* Wrong variant: an event goes back to the pool as it is.                  *)
ResetNone(E) == signalled

(* ReturnToPool resets an event before it pushes it.                        *)
Reset(E) == signalled \ E

MyEvents == IF myEvent = NoEvent THEN taskEvents ELSE Append(taskEvents, myEvent)

Return ==
  /\ caller = "joinNamed" /\ named = {}
  /\ signalled' = Reset(ToSet(MyEvents))
  /\ pool' = pool \o MyEvents
  /\ taskEvents' = <<>> /\ myEvent' = NoEvent
  /\ caller' = "idle"
  /\ covered' = {} /\ timedOut' = FALSE /\ ran' = [w \in AllWorkers |-> 0]
  /\ UNCHANGED <<settings, incoming, others, workerVars, made, todo, named,
                 round, counter>>

Call == \/ MakeTask \/ MakeNamedTasks \/ WaitForWorkers \/ WaitTimesOut
        \/ ReleaseWorkers \/ JoinWorkers \/ Return

Next ==
  \/ BroadcastNamed \/ \E background \in BOOLEAN : BroadcastAll(background)
  \/ Call \/ \E thread \in NamedThreads : RunNamed(thread)
  \/ \E w \in AllWorkers : Work(w)
  \/ QueueOther \/ ThreadSwitchForABTest

(* The workers and the named threads are scheduled; the wait of the game    *)
(* thread ends at the latest with its timeout.                              *)
Fairness ==
  /\ WF_vars(Call) /\ \A thread \in NamedThreads : WF_vars(RunNamed(thread))
  /\ \A w \in AllWorkers : WF_vars(Work(w))

Spec == Init /\ [][Next]_vars
FairSpec == Spec /\ Fairness

-----------------------------------------------------------------------------
(* Properties                                                               *)

(* What the counter and the events are for (TaskGraph.cpp:1519-1531): when  *)
(* the broadcast was not given up after three seconds, each worker of a set *)
(* it was sent to has run the callback, and none twice.  With a set that is *)
(* on and was not created, every broadcast is given up: BroadcastReturns.   *)
EachWorkerOnce ==
  caller = "release" /\ ~timedOut =>
    \A w \in Workers(created) :
      ran[w] = IF PriorityIndex(w) \in covered THEN 1 ELSE 0

(* When the call returns, after a timeout or not, no task of it is left:    *)
(* they point to its counter, which is on its stack, and to its events      *)
(* (TaskGraph.cpp:1547-1631).                                               *)
NothingOutlivesTheCall == caller = "idle" => Pending = {}

(* Whoever takes an event from the pool gets one that is not set and that   *)
(* nobody else will wait for or trigger (EventPool.h:97-129).               *)
PooledEventsAreFree ==
  /\ IsInjective(pool) /\ ToSet(pool) \cap signalled = {}
  /\ \A w \in AllWorkers : pc[w] = "trigger" => myEvent \notin ToSet(pool) \cup {NoEvent}
  /\ \A t \in Pending : t.event \notin ToSet(pool)

(* A task is queued where a worker looks for work, and the worker that      *)
(* Push names for it is one of them (TaskGraph.cpp:1056-1079, 1254-1286).   *)
RoutedToServedSet ==
  \A p \in 0 .. 2 : (\E q \in 0 .. 1 : incoming[p][q] # <<>>) =>
    \A k \in 0 .. NumTaskThreads - 1 :
      LET w == ThreadToWake(p, k) IN
      w \in Workers(created) /\ PriorityIndex(w) = p /\ MyIndex(w) = k

(* "promote to hi task pri" (TaskGraph.cpp:1067): a worker does not take a  *)
(* task of normal priority while one of high priority is waiting.           *)
HighTasksFirst ==
  [][\A w \in AllWorkers :
       LET high == incoming[PriorityIndex(w)][HighTask] IN
       pc[w] = "idle" /\ pc'[w] # "idle" /\ high # <<>> =>
         incoming'[PriorityIndex(w)][HighTask] = Tail(high)]_vars

(* A broadcast comes to an end (TaskGraph.cpp:1541-1631).                   *)
BroadcastReturns == (caller # "idle") ~> (caller = "idle")
=============================================================================
