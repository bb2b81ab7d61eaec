# A TLA+ verification of the task graph

The repository (`src/TaskGraph`) is a stand-alone port of the task graph of
Unreal Engine 4 to Windows: worker threads, lock-free queues, tasks with
prerequisites, completion events, and the older queued thread pool. This
directory models its concurrent core in TLA+, checks the models with TLC on
small instances and proves theorems about them with TLAPS.

Paths below are relative to `src/TaskGraph/`.

## 1. Inventory

| Component | State it keeps | Operations | What makes it hard |
|---|---|---|---|
| Stalling task queue (`Public/LockFreeList.h` 640-770) and worker loop (`Private/TaskGraph.cpp` 690-850) | one 64-bit `MasterState` (a bit for each stalled worker and a tag counter), one lock-free FIFO for each priority; an auto-reset event and a quit flag for each worker | `Push`, `Pop`, `QueueTask`, `ProcessTasks`, `RequestQuit` | a task pushed while the last worker goes to sleep; exchanges that fail and are retried; waking exactly one worker |
| Task set-up and graph events (`Public/TaskGraphInterfaces.h` 300-870, `Private/TaskGraph.cpp` 1440-1490) | the count of outstanding prerequisites of each task, a closable list of subsequents and a list of events to wait for of each event | `CreateTask`, `ConstructAndDispatchWhenReady`, `ConstructAndHold`, `Unlock`, `ExecuteTask`, `DontCompleteUntil`, `DispatchSubsequents` | a prerequisite that fires while the task is set up; completion handed over to a gather task |
| Lock-free FIFO (`Public/LockFreeList.h` 510-640) | `Head`, `Tail`, links with a `DoubleNext` | `Push`, `Pop`, `IsEmpty` | links recycled under a reader (ABA); helping a stopped pusher |
| Lock-free LIFO and closable list (`Public/LockFreeList.h` 250-500, 880-936) | `Head` with an optional state bit, links with a `SingleNext` | `Push`, `PushIf`, `Pop`, `PopAll`, `PopAllAndChangeState` | ABA; adding to a list while it is closed |
| Queued thread pool (`Private/ThreadingBase.cpp` 380-750) | a queue of work, a list of idle threads, a lock, `TimeToDie`; an event and a job for each thread | `AddQueuedWork`, `RetractQueuedWork`, `ReturnToPoolOrGetNextJob`, `Destroy` | destruction while calls are under way; the lock held while threads are joined |
| Link allocator (`Private/LockFreeList.cpp` 60-200, `Public/LockFreeList.h` 40-120), fixed-size allocators (`Public/LockFreeFixedSizeAllocator.h`) | two bundles of free links for each thread, a global LIFO of bundles, pages of links that are made once | `Pop`, `Push`, `Alloc`; `Allocate`, `Free` | bundles that move between threads; two threads that need the same new page |
| Routing (`QueueTask`, `Private/TaskGraph.cpp` 1048-1107; `ENamedThreads`) | thread index, thread priority, task priority and queue index in one word | `QueueTask`, `FindWork` | priorities demoted and promoted when thread sets are missing |
| Named threads (`Private/TaskGraph.cpp` 523-680) | two queues each, `QuitForReturn`, `QuitForShutdown`, `RecursionGuard` | `ProcessTasksUntilQuit`, `ProcessTasksUntilIdle`, `RequestReturn`, `Enqueue...` | re-entrance, a return request while tasks are queued |
| Waiting (`Private/TaskGraph.cpp` 1173-1245) | a scoped event or a return task | `WaitUntilTasksComplete`, `TriggerEventWhenTasksComplete` | the event goes back to its pool after the wait |
| Broadcast (`Private/TaskGraph.cpp` 1500-1631) | a counter, one event for each worker, one for the caller | `BroadcastSlow_OnlyUseForSpecialPurposes` | a wait that times out while workers still hold its events |
| Event pool, scoped event, Windows event (`Public/EventPool.h`, `ScopedEvent.h`) | a LIFO of events | get, return, `Wait`, `Trigger`, `Reset` | an event reused while somebody may still trigger it |
| Runnable threads, thread manager (`Private/ThreadingBase.cpp` 1-380, `Public/WindowsRunnableThread.h`) | the handle, the init event, the list of threads | `Create`, `Kill`, `AddThread`, `Tick` | the creation hand-shake |
| Reference counts (`FGraphEvent::AddRef`, `Release`) | one counter | `AddRef`, `Release` | who frees last |
| `FCompletionList` (`Public/TaskGraphInterfaces.h` 1230-1292) | a LIFO of prerequisites | `Add`, `CreatePrerequisiteCompletionHandle`, `ChainWaitForPrerequisites` | prerequisites added while a handle is made |
| `YTaskGraph` (`Test/YTaskGraph.*`) | jobs with a prerequisite counter, handles with a closeable array of child jobs, an array of jobs and an event for each thread | `CreateJob`, `DispatchJob`, `Run`, `DoNotCompleteUnitl`, `DispatchSubsequents` | an event triggered for the first job only; a handle that goes from a job to a null job |

How they interact. A task that has reached zero outstanding prerequisites is
given to `QueueTask`, which pushes it on the stalling task queue of a thread
priority and triggers the worker that `Push` names. The worker pops it,
executes it, and its completion event's `DispatchSubsequents` closes the list
of subsequents and takes one prerequisite off each. Both lists are built from
the lock-free links, which the link allocator hands out and takes back. A
broadcast makes one task for each worker and holds every worker in it until all
of them run; its events come from the event pool. The queued thread pool and
`YTaskGraph` are two other, independent ways to run work and use ordinary locks.

The hazards this leaves are listed with their lines in `PROJECT.json`; each
names the properties that would catch it.

## 2. Modules

Each component has a module in which one action is one atomic access of shared
state (or one scope that holds a lock), an abstract module that says what the
component promises, and an MC module with the instances TLC checks.

| Detailed module | Implements | Instances | Theorems |
|---|---|---|---|
| `StallingTaskQueue` | `TaskPool` | `MCStallingTaskQueue` | `StallingTaskQueue_proofs` |
| `GraphTask` | `TaskDag` | `MCGraphTask` | `GraphTask_proofs` |
| `LinkChain` | | | in those of the two lists |
| `LockFreeFIFO` | `AtomicQueue` | `MCLockFreeFIFO` | `LockFreeFIFO_proofs` |
| `LockFreeLIFO` | `ClosableList` | `MCLockFreeLIFO` | `LockFreeLIFO_proofs` |
| `LinkAllocator` | | `MCLinksAndJobs` | `LinksAndJobs_proofs` |
| `NamedThread` | | `MCNamedThread` | `NamedThread_proofs` |
| `QueueRouting`, `Broadcast` | | `MCBroadcast` | `Broadcast_proofs` |
| `QueuedThreadPool` | `WorkPool` | `MCQueuedThreadPool` | `QueuedThreadPool_proofs` |
| `YTaskGraph` | `TaskDag` | `MCLinksAndJobs` | `LinksAndJobs_proofs` |

`LinkChain` is what the two lock-free lists share: links, and the chain that starts
at one of them and follows their next pointers.

They compose by assumption: `StallingTaskQueue` takes its FIFOs as sequences
and `GraphTask` its subsequent lists as sets that are closed at one instant,
which is what `LockFreeFIFO` and `LockFreeLIFO` are shown to implement.
`GraphTask` leaves open which worker runs a queued task and when, which is
what `StallingTaskQueue` decides for workers and `NamedThread` for named threads;
`NamedThread` in turn takes over the steps of the stalling queue, for the one
thread that pops it, and counts its prerequisites off at once. The one thing a sequence does not have,
`IsEmpty` calling a filled FIFO empty because the link it looks at has been
recycled, is a nondeterministic choice in `StallingTaskQueue`. `LockFreeFIFO` and
`LockFreeLIFO` take links from one set of free ones, which is what `OneHome` of
`LinkAllocator` says of the bundles. `Broadcast` extends `QueueRouting`, and takes an
incoming queue as two sequences whose workers are awake when they are needed,
which is what `StallingTaskQueue` shows.

`MCLinksAndJobs` is an instance of two modules, `LinkAllocator` and `YTaskGraph`.
They share no state: a variable `part`, chosen at the start, says which of the two
the behaviour is one of, so that one run answers for both.

Next to some definitions stands an operator marked "Wrong variant". It is the
definition with a plausible bug (a guard dropped, an off-by-one, a counter
forgotten) and is not used by the specification; `PROJECT.json` lists, for every
checked property, a variant under which TLC finds the property violated.

### StallingTaskQueue

`master` is `MasterState`: the stalled bits as a set of workers, and the tag
counter. `local[p]` is a thread's `LocalMasterState`, `wake[p]` its
`ThreadToWake`, `index[p]` its loop variable, and `pc[p]` names the statement:
`enqueue`, `cas`, `check` in `Push`; `pop`, `scan`, `stall` in `Pop`; `trigger`
is the `StartTaskThread` of `QueueTask`; `wait` and `exec` are the worker's
event and the task function. `RequestQuit` and `QuitTrigger` are the two
statements of the quit request, which the destructor makes when the system is
idle, as its comment demands. A local state that is out of scope is reset to a
fixed value so that TLC does not distinguish states by it.

The counter of `MasterState` has 38 bits and is a natural number here; it
grows by one with every exchange, and the number of exchanges is bounded by
the tasks and workers.

### GraphTask

`life[x]` is how far a task (or a gather task) is; `outstanding[x]` is
`NumberOfPrerequistitesOutstanding`, `missed[x]` the prerequisites found complete
during set-up, `locked[x]` says whether the extra count of the constructor is
still held. `subsequents[e]`, `closed[e]` and `waitFor[e]` are an event's list,
its closed bit, and `EventsToWaitFor`. An entry of a list is a task together
with the position of the prerequisite it came through, so that a prerequisite
given twice counts twice. A gather task is a job of its own; `GatherOf` names it
and `EventOf` says which event it has assumed. `Rank` keeps the program from
building a cycle: a task depends on tasks of lower rank only. Events live for
ever; reference counts are not modelled here.

### LockFreeFIFO and LockFreeLIFO

Every read and every compare-exchange of `Head`, `Tail`, `DoubleNext` and
`SingleNext` is a step. Links are recycled through one set of free links, so the
ABA problem can happen and the counters have to prevent it; the thread-local
caches and bundles of the allocator are left out here (they only delay reuse).
Counters are natural numbers: in the program they have 38 bits. In the FIFO,
`seen` is a history variable that records what a thread inside `Pop` or
`IsEmpty` could have observed, and `retries` counts how often the thread that made
the last steps went back to the head of its loop while no other thread made one.
`AloneItGetsThrough` bounds it: that is lock-freedom stated as a safety property,
since a thread that is alone and does not go back reaches the end of its
operation. In the LIFO, `closable` chooses at the start which of the two uses of the
root list is checked, and `delivered`, `refused` and `unpushed` say what has become of
each payload; `PushAllocate` comes before the first look at the head in `Push`, and after
it in `PushIf`.

### LinkAllocator

A bundle is the set of its links; the chain through their `Payload` is not
modelled. `partial`, `full` and `numPartial` are the cache of each thread, `bundles`
is `GlobalFreeListBundles`, and `used` stands for all lists: a link there may be
given back by any thread. `Pop` is `PopPartial`, `PopFull`, `PopBundle` or `PopNothing`,
which differ in where the links come from; the last goes on to `Alloc`, where the
thread takes a range of indices and then constructs its links one by one
(`Construct`), allocating a block (`MissPage`) and installing it (`InstallPage`) where
the page has none. A block is named by the thread that allocated it, and
`storage` records the block each link was constructed in. `Alloc` stops at the bound
`MaxTotalItems`, while `LockFreeLinksExhausted` is an empty function in this fork and only a debug
assertion stops the code there.

### QueueRouting and Broadcast

`QueueRouting` has the fields of `ENamedThreads::Type` as integers and the
functions that set and read them, the numbering of the workers in both directions
(`ThreadToWake` in `StartTaskThread`; `PriorityIndex` and `MyIndex` in `FindWork`), and
`Route`, the choice `QueueTask` makes.

In `Broadcast`, `created` and `enabled` are the two pairs of flags that say which
thread sets exist and which are used. The second are exported integers that "allow
runtime tuning" (`TaskGraphInterfaces.h`), so the game thread may change them
between two broadcasts. Events are numbers, `signalled` those that are set, `pool` the event
pool. `caller` follows the function: `make`, `wait` (with or without the timeout),
`release`, `join`, `joinNamed`, `idle`; `pc[w]` follows `FBroadcastTask::DoTask`: `call`,
then `wait` or `trigger`, then `complete`. There is no clock: the wait may time out
whenever its event is not set. Two inputs are left out: both flags
created with only the background one set would give that set number 1 and
priority 2, which neither the constructor nor `StartTaskThread` handles; this fork
is built without either set, and the instance takes the high one.

### YTaskGraph

`deps`, `missed`, `counter` and `children` are the counterpart of `GraphTask`'s
variables, and `ImplementsTaskDag` maps them to the same abstract module. `queue`,
`signalled` are `JobArray` and `EventWaitforIdle` of a thread, and `pc` follows `Run`,
`ExcuteTask` and `DispatchSubsequents`. A null job is a job of its own that works
for the handle of the job that made it (`HandleOf`). `EnqueueJob` prefers threads
whose `IsIdleState` it reads, a plain bool other threads write, and else takes
turns: the model lets it choose any thread. `AddChildJob` is never called and is
left out.

### NamedThread

A lane is a named thread with one of its two queues. `queue`, `stalled` and
`event` are the lane's `StallQueue`, stalled bit and `StallRestartEvent`; `moved`
stands for the tag counter: it is set when another thread has exchanged the
master state since the last `Pop` read it. `stack[n]` holds the processing loops
the thread is inside, innermost last: a task may call `WaitUntilTasksComplete` and
so enter the loop of the other queue. `pc[n]` follows `ProcessTasksNamedThread`:
`loop`, `scan`, `stall`, `wait`, `exec`, then `dispatch` for the subsequents of the
finished task, and `leave`. A wait is a model value, and so is the return or trigger
task it makes; `phase[w]` goes from `new` through `pending` (the task has
prerequisites left), `ready` (to be queued by the thread that completed the last
one), `queued` and `fired` to `returned`. `WaitForNothing`, `WaitAndProcess` and
`WaitOnEvent` are the three ways through `WaitUntilTasksComplete`; `Lots` is the
constant 8 of the code.

What the program must not do is in `CanWaitFor`, `BeginWait` and `ProcessThread`: wait
for a task in a queue that nobody processes, wait in a worker (a pool whose workers
all wait runs nothing), or enter a loop from within itself. `RequestReturn` adds one more:
a task of the program asks for a return only in a loop that the thread's own code has
entered. The code does not check this, and in the loop of a wait the request would end
the wait before its tasks are complete. The shutdown follows
the destructor's comment: the system is idle, but for tasks in a queue nobody
processes.

### QueuedThreadPool

A scope that holds `SynchQueue` is one step. The test of `TimeToDie` before it is
a step of its own (`AddQueuedWork`, `RetractQueuedWork` before `AddLocked`,
`RetractFound`, `RetractMissed`). `Destroy` goes through `draining` (the queue is
abandoned and the idle threads are counted, lock given up between two looks),
`drained`, `killing`, `triggering`, `joining` (the lock is held throughout) and
`gone`. `Run` follows the loop of `FQueuedThread::Run`. The variable `careless`, chosen
at the start from the constant `Owners`, says whether the owner may destroy the
pool while some thread is inside one of its functions; `EraseEndIsFatal` is what the build
does with the undefined `erase(end())`.

## 3. Runs

| Run | Configuration | Question |
|---|---|---|
| `stalling_live` | 2 workers, 2 pushers, 2 tasks of one priority | Is a task ever stranded? Are wake-ups exact? Is every task run, once, and does every worker leave its loop? |
| `stalling_mixed` (violation) | 3 tasks of both priorities | The comment at `LockFreeList.h:687` |
| `graph_dag` | 3 tasks, one fire-and-forget, 1 prerequisite and 2 awaited events each | Are the counts exact, does nothing run or fire too early, and does it implement the graph the program drew, in which what can run does run? |
| `named_waits` | 1 named thread, 1 worker, 1 outside thread, 2 tasks, 2 waits | Does a wait return, and only when its tasks are complete; is a loop ever entered again, or ended for another; does the thread quit? |
| `fifo_order` | 3 threads, 2 payloads, 3 links | Is the FIFO linearizable, are links never owned twice, does a thread that runs alone get through? |
| `lifo_lists` | 3 threads, 3 payloads, 3 links, both uses | Is the list linearizable; is a payload handed out or refused, once? |
| `pool_live` | 2 pool threads, 2 clients, 3 works, a careful and a careless owner | Is no work lost or done twice; with a careful owner, does each work meet one end and `Destroy` return? |
| `pool_hang` (violation) | 2 pool threads, 1 client, 2 works, a careless owner | "clean up all background threads", `QueuedThreadPool.h:29` |
| `pool_retract` (violation) | the same with a careful owner | "@return true if the work was retracted", `QueuedThreadPool.h:45` |
| `broadcast` | 2 workers for each of 1 or 2 sets, 1 other task, 1 broadcast | Does each worker run the callback once; does a broadcast end, with a timeout too, and leave nothing behind? |
| `broadcast_promoted` (violation) | 1 worker for each set, 2 other tasks | "promote to hi task pri", `TaskGraph.cpp:1067` |
| `parts` | allocator: 2 threads, bundles of 2, pages of 4, 6 links; `YTaskGraph`: 3 jobs, 2 threads, 2 prerequisites, 1 handle awaited | Are bundles full and links never lost or moved; does a thread sleep over a job, and does the graph implement the one the program drew? |

Bounds and why they are enough. Two workers are the least for which "wake one"
differs from "wake all" and for which the last worker can go to sleep while
another is awake; two pushers give concurrent exchanges, and a task may also be
pushed by a worker. Three links are one stub and two others, so every link is
recycled, and with three threads one can be stopped while the two others
interfere. In the graph, two awaited events may be the same event twice, which
stands for any multiple; the third task gives chains (a gather that is itself
awaited). For a named thread, two waits are one within the other: the second is
made by a task of the first one's loop, and processes the other queue or, at the
third level, blocks on an event; `Lots` is 1, so that a wait for two events looks
first and a wait for one does not. Two workers in a set are the least for which one
can hold its task while the other has none; a second set, created or only
switched on, gives tasks that are promoted, and with them more broadcast tasks than
workers, so that only the timeout ends the wait (there `EachWorkerOnce` says nothing, and it is
`BroadcastReturns` that matters). One broadcast is enough for the
pool: every event of it comes back at its end. Bundles of two are the least that
can be partial, pages of four hold two bundles, one of them shared with index 0, so
that a bundle crosses a page and two threads meet at one. Three jobs give a
chain and a null job that is itself awaited; a job does not name the same
prerequisite twice there (`GraphTask` covers that). Each task, payload and work is used once, which bounds every run
without a constraint. Symmetry is declared for threads, payloads and links in
runs without a liveness property only.

Fairness. Weak fairness for each thread's own steps: they are operating-system
threads, scheduled for ever. Nobody is obliged to create a task, add work, hold
or unlock, request a quit while the system is busy, or destroy a pool. A task
function returns, and a named thread goes on with the loop it is in; nobody has to
enter a loop. In `QueuedThreadPool` the lock is granted in the end. In `Broadcast` the
wait of the game thread ends, because it has a timeout; in `YTaskGraph` nothing
depends on the twenty seconds of `Wait`, which need never pass. The FIFO and the
LIFO are checked without fairness.

Deadlock is checked except where the system may really stop or where a liveness
property of the same run says more: `stalling_live` (a dead end would violate
`WorkersExit` or the refinement), `named_waits` (the system stops after the shutdown;
a dead end before it would violate `WaitsReturn` or `ThreadsQuit`), the three runs of
the pool (with a careless owner it may hang; with a careful one a dead end would
violate `QuietDestroyReturns`), the two of the broadcast (nothing is left to do when
`MaxRounds` and `MaxOthers` are used up; a dead end within a call would violate
`BroadcastReturns`), and `parts` (the allocator ends the program when it has no more
links, the graph has run its jobs).

## 4. What the violations show

* `stalling_mixed`. The retry of `Push` asks whether there is anything in the
  queues, to decide whether its wake-up is still needed, but sets `bAny` from
  `IsEmpty()` instead of its negation (`LockFreeList.h:685`). With both priority
  queues filled the wake-up is dropped, and TLC finds tasks queued, every worker
  stalled and nobody in `Push`. With one of the queues never used the loop always
  keeps the candidate, and `NoStrandedTask` is a theorem.
* `pool_hang`. `Destroy` looks for idle threads under the lock, gives it up, and
  takes it again to kill them. An `AddQueuedWork` that read `TimeToDie` before
  can hand a thread work in between; that thread then needs the lock `Destroy`
  holds while joining it.
* `pool_retract`. `std::remove` returns `end()` for a work that is not in the
  queue, and `RetractQueuedWork` erases it without a test.
* `broadcast_promoted`. A task for high priority threads that do not exist gets
  task priority 1 "promote to hi task pri", and `QueueTask` passes that as index of
  the priority queue. Workers serve index 0 first, so the promoted task waits
  behind every normal one. `FNamedTaskThread` maps the bit the other way round
  (`TaskGraph.cpp:587`).

## 5. Proofs

`StallingTaskQueue_proofs` proves, for any number of workers, pushers, tasks and
priorities, from `ConstantsAssumption` alone:

* `TypeCorrect`: `Spec => []TypeOK`. The lemma `LowestBit` shows that
  `FindThreadToWake` finds a bit in every non-empty set of bits, by well-foundedness
  of the naturals.
* `WakesAreExact` and `AskingIsNotStalled`, from the inductive invariant `WakeInv`.
  `OneWakePerStall` alone is not inductive: an exchange takes a bit off because
  the candidate was one of the bits of the state it compares with
  (`CandidateIsStalled`), and a worker's bit is on only while it waits
  (`StalledIsParked`).
* `NothingStranded`: with a priority no task uses, `Spec => []NoStrandedTask`,
  from `StrandInv`. The tag counter carries the argument: `CountersAdvance` says
  that an old local state differs from the master state for good, so a worker
  whose exchange can still succeed has seen every queue empty, but for tasks of
  threads that are still in `Push` (`ScannedIsCovered`).

`GraphTask_proofs` proves, for any number of tasks and threads and any prerequisite
arrays, from `GraphAssumption` alone, every safety property of `graph_dag` and
the safety part of its refinement:

* `GraphTypes`, `CountsAreExact`, `NobodyQueuedTwice`, `PrereqsFirst`, `WaitsFirst`
  and `NoDoubleClose` follow from `GraphInvariant`: `Spec => []GraphInv`.
  `CountIsExact` alone is not inductive. A count that goes down by one must have
  lost exactly one prerequisite, so an entry must be in one place only: `ListInv`
  says that a listed position has been passed by the loop of the set-up, is not
  among those found complete, and is in the list of its own event while that is
  open, or with the one job that closed it. That this is one job is `OwnerInv`: a
  gather exists only once its task has stopped dispatching. `CountedOffInv` turns
  a count of zero into completed prerequisites. Finite cardinalities come from the
  library's theorems on finite sets.
* `ImplementsDagSafely`: `Spec => Dag!SafeSpec`. Initial states map to initial
  states and every step to a step of `TaskDag` or a stutter: giving back the lock
  is `Release`, whether the set-up or `Unlock` does it; closing a list is
  `Complete`; counting, and handing an event to a gather, are invisible.

The rank of the tasks, that is, that the program builds no cycle, is used by none
of these theorems: a cycle would only keep its tasks from ever running.

`LinksAndJobs_proofs` is about the two components of the run `parts`. For the link
allocator it proves, for any number of threads and any sizes of bundles, pages and
the index space, from `LinkAssumption` alone:

* `BundlesStayFull` and `LinksHaveOneHome`, from `AllocatorInvariant`. Both need to know
  that a thread inside `Alloc` has two empty bundles and that its range is below
  `NextIndex` (`InsideAlloc`): what it makes then becomes its partial bundle, whole
  and without losing one. The counts need `Homes`, because a link that is given back
  must not be in the bundle already, and `Homes` needs nothing of the counts.
* `LinksStayPut`, from `StorageInv`: a page that holds a constructed link is
  installed, and `InstallPage` changes only pages that are not.

For `YTaskGraph` it proves `NoWakeUpIsLost`: `NoLostWakeUp` is inductive, given only the
types of the variables it mentions. From `JobsAssumption` (jobs and null jobs are
different, every null job belongs to one job, the bounds are numbers) it proves, for any
number of jobs and threads, `ImplementsTaskDagSafely`: `Jobs!Spec => Jobs!Dag!SafeSpec`, from
`JobsInvariant`. Its parts are these:

* `DepsInPlace`, `CountsRight`: a prerequisite is counted as long as it is `Outstanding`: the
  loop of `CreateJob` has not come to it, or has found it closed and has yet to take it off,
  or it is in the array of its handle, or in the `ChildrenJobs` of one thread. It is in one
  of these places only, so that each count goes down by exactly one.
* `CountedOff`: what is not outstanding has completed, so a counter of zero means that all
  the prerequisites have. The job that is not dispatched holds one count more, which is
  why the children that are told can never queue it early.
* `OneThreadEach`: a job that was queued is at one place of one array, or with one thread.
* `HandlesInv`: the null job exists only once its job has finished, and from then on that
  job no longer waits for anything; so there is one job that closes the handle
  (`LastOfTheHandle`), and what the handle awaits is what this job depended on.

Creating, dispatching, taking, finishing a job, adding to what it waits for and closing
its handle are the six steps of `TaskDag`; the set-up, handing the handle over and telling
a child are stutters. As for `GraphTask`, the rank of the jobs is not used.

Both `LockFreeLIFO_proofs` and `LockFreeFIFO_proofs` begin with the facts about chains that
the list needs (neither module can extend the other, so the common ones stand in each).
`Path(s, next, l)` of `LinkChain` says
that the sequence `s` of distinct links starts at `l`, follows `next` and ends at the null
link. `LinksFromPath` shows that the recursive function `LinksFrom`, which the
abstraction functions of both modules use, returns that sequence: its values for larger
bounds are got from smaller ones by taking the least bound at which two candidates
differ. The other lemmas say what a push or a pop at the head, or a step at the tail,
makes of a path, and that a change of a link outside it makes nothing.

`LockFreeLIFO_proofs` proves, for any number of threads, links and payloads and for
both uses of the list, from `LinksAssumption` (the links are a finite set) and
`LIFOAssumption`, every property of `lifo_lists`:

* `LIFOInvariant`. `ReadsInv` is the ABA argument: a thread that has read the head
  and the link after it compares the pair of index and counter, and as every
  exchange advances the counter (`HeadAdvances`), a pair that is still there has not
  been away; so the next pointer read in between is that of a link still in the
  chain. `Touches` and `Moves` describe a step by which links it writes and which it
  moves between the free ones, the threads and the chain.
* `LinksHaveOneOwner` and `PayloadsHaveOnePlace`. The second keeps the place of each
  payload next to the link that carries it: links have one owner, so payloads do.
* `ImplementsTheList`: `Spec => ImplementsClosableList`. The successful exchange of
  `Head` is the abstract push, pop, `PopAll` or closing, the exchange that finds the
  list closed a refusal, and all else stutters.

`LockFreeFIFO_proofs` proves, for any number of threads, links and payloads, from
`LinksAssumption` and `FIFOAssumption`, every property of `fifo_order`:

* `FIFOInvariant`: the links from `Head` form a path, `Tail` points to one of its last
  two, and the free links, those in the hands of a thread and those of the path are
  disjoint. What a thread has read of `Tail` or `Head` stays a fact about the queue as
  long as the counter it read with it is current (`TailReads`, `HeadReads`), and the
  queue only grows at its end and shrinks at its head (`ChainStep`).
* `LinksHaveOneOwner` and `NothingMeansEmpty`: a `Pop` that returns nothing read a
  link without a successor as `Head` and `Tail`, which `Saw` ties to the history variable.
* `OneThreadSuffices`: `TurnsCount` says how many turns of its loop a thread that runs
  alone can have made, given what it has read and how far behind `Tail` is.
* `ImplementsTheQueue`: `Spec => ImplementsAtomicQueue`. A push takes effect at the
  exchange of `DoubleNext`, even though `Tail` is moved later and perhaps by another
  thread, a pop at the exchange of `Head`; `PayloadInv` says that a pop returns what
  the link behind the stub carried at that moment.

`QueuedThreadPool_proofs` proves, for any number of callers, threads and works and for
careful and careless owners, from `PoolAssumption` alone:

* `ThreadsInPoolAreFree` and `WakeUpsHaveAReason`, from `PoolInvariant`: a thread is in the
  pool only if it has no work and is waiting or about to (`BusyThreadsAreGivenNothing`),
  it is woken once for each thing it is told (`WokenOnce`), and the lock is not
  given up any more once a thread has been told to die (`ToldUnderLock`).
* `NoWorkIsLost`: `PlacesInv` says that a work is in one of the queue, a call under way and a
  thread; `NothingLost` that it is in one of them until it has met its end.
* `ImplementsPoolSafely`: `Spec => Pool!SafeSpec`; each end of a work, running,
  retraction and abandonment, is the one lock section or call in which its fate
  changes.
* With an owner who waits for the callers: `CarefulOwnerIsSafe`, `NothingQueuedWhileDying`
  and `JoinedThreadsAreIdle`. Without one, the first and the last are what `pool_hang`
  refutes, and the assertion that nothing is queued while the pool dies
  (`ThreadingBase.cpp:730`) can fail as well.

`NamedThread_proofs` proves, for any number of named and other threads, tasks and waits,
every safety property of `named_waits` from `NamedInvariant` and `NamedAssumption`. None of them is inductive
alone; `NamedInv`, which TLC checked first on the instance of that run (95,248
states), has these parts:

* `LoopsInv`: a thread is inside loops of its own two queues only, of each at most once,
  which is what the guard counts (`LoopsAreNotReentered`).
* `WaitLoops` and `QueuedWaits`: a wait that processes tasks is that of one loop, which is
  left only by its return task; that task is with the prerequisites, with the thread
  that will queue it, in the queue of that loop, or run, and in one place only
  (`ReturnsAreMatched`).
* `WaitBlocks` and `ReadyWaits`: a wait that blocks on an event has a trigger task in
  the same places; both tasks become ready only when the tasks waited for are complete
  (`WaitsReturnDone`).
* `WakeInv` and `ScanInv`: a lane whose thread sleeps has its stalled bit on, or a pusher
  that took it off and has yet to trigger, or a set event. A thread that is about to
  stall has seen its queue empty, or the master state has moved since, or the push is
  still under way (`NothingIsStranded`, `StalledThreadsWait`).
* `ShutInv`: nothing is under way when the shutdown begins.

The lemmas `QuietKeeps`, `SameLoopsKeep`, `PlacesKeep` and `LaneStepKeeps` say which of
these parts a step keeps by leaving alone what they read; the proof of each action is
then about the parts it does touch.

`Broadcast_proofs` proves, for any number of named threads, of workers in a set, of other
tasks and of broadcasts, and for sets of threads switched on and off between them,
every safety property of `broadcast`, from `BroadcastAssumption`: at least one worker in a set,
no background set without a high priority one, and other tasks that name any thread with
priorities that exist. `BroadcastInv`, which TLC checked first (105,128 states with two
workers in a set and no other task, 14,168 with one worker, another task and two
broadcasts), has these parts:

* `OneTaskEach` and `TasksInPlace`: the event of a task tells where the task is, at one
  position of one queue or with one worker, and that set is one the call is for.
* `EventsInPlace`: an event is in the pool, or the call's as one of `TaskEvents` or as
  `MyEvent`, and only the call's can be set. With `NoneLeftInTheEnd` (the call waits for
  its tasks before it gives the events back) this is `PoolIsFree`, and `CallsLeaveNothing`
  is `NoneLeftInTheEnd` when the call has returned; neither depends on the timeout.
* `QueuesServed`: the set of a filled queue exists. Together with the numbering of
  the workers (`WorkersOf`, `WorkerOfIndex`) it is `TasksAreServed`.
* `CallsCounted`: as long as no worker has been released, the counter is the number of
  tasks not made yet plus those that have not called, and with the workers that have called
  it adds up to the threads of the sets; a worker that has called waits, and so takes no
  second task. When the counter reaches zero there are as many callers as workers
  of the sets, and as they are among them they are all of them (`EveryWorkerIsReached`). A
  set that is switched on and does not exist makes the counter stay above zero, so that
  only the timeout ends the wait; the count holds in that case as well.

`ImplementsPoolSafely` of `StallingTaskQueue_proofs` needs `PlaceInv`: a task is unsubmitted,
in the hands of the one thread about to push it, at one position of one queue, or
executed. It holds for any mix of priorities: the dropped wake-up of `stalling_mixed`
leaves a task waiting but never loses it.

Some theorems prove more than a run repeats: `NobodyQueuedTwice` (`ListedTasksWait` of
`GraphTask`) and `NoWorkIsLost`; the refinement theorems state the safety half of what the
runs check. The inductive invariants are theorems and not checked
by runs of their own.

Only model-checked: liveness under fairness, which this proof system cannot state as an
obligation (that a stranded task is impossible is safety; that a task is run in the end
is not, nor that a broadcast returns), and with it the liveness half of each refinement.

## 6. Not modelled, and the plan

* Worker tuning (`StallForTuning`, `HandleNumWorkerThreadsToIgnore`): static functions
  without a caller in this fork.
* The fixed-size allocators: the task allocator repeats the link allocator's scheme
  statement by statement; `AllocatorFixedSizeFreeList` is used by one thread.
* Runnable threads and the thread manager: creation is one hand-shake around one
  system call, and the rest is for platforms without threads. `FQueuedThread::Create`
  cannot fail here, so the branch of the pool's `Create` that destroys it is dead.
* `FCompletionList`: no caller.
* Reference counts of events, tasks and handles: the models leave an event in place
  for ever, so a use after the last release would not show.
* Waits by workers: a pool in which every worker waits runs nothing, and the code
  leaves that to the program.
* A program that asks for a return inside the loop of a wait, and one that uses up the
  2^26 links: the code detects neither in a release build.
* Counters that wrap: 2^38 exchanges within one stalled read.
* The platform wrappers (one system call each), statistics, naming, the programs
  under `Test/` other than `YTaskGraph`, and the vendored TBB under `ThirdParty/`. The last is
  nearly all of the source by lines; the library's own code is a few thousand.

Left to do: reference counts of `FGraphEvent`.
