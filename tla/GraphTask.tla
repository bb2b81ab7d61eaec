------------------------------ MODULE GraphTask ------------------------------
(***************************************************************************)
(* The task graph itself: FBaseGraphTask's count of outstanding            *)
(* prerequisites with its extra lock, TGraphTask's set-up and execution,   *)
(* and FGraphEvent's closable list of subsequents with the gather task     *)
(* that stands in for a task whose completion waits for other events.      *)
(*                                                                         *)
(* One step is one atomic access of another thread's state: a push on a    *)
(* subsequent list, a close of one, an interlocked change of a count.      *)
(* Reaching zero and QueueTask are one step, since only the thread that    *)
(* reached zero then touches the task.  Which worker executes a queued     *)
(* task, and when, is left open (StallingTaskQueue models that).           *)
(*                                                                         *)
(* A subsequent list is a set of <<task, k>>: the task was pushed through  *)
(* its k-th prerequisite (the list stores the task pointer only), so that  *)
(* a prerequisite given twice is in the list twice.  The order in which a  *)
(* closed list is worked off is left open.                                 *)
(***************************************************************************)
EXTENDS Integers, Sequences, FiniteSets

CONSTANTS
  Tasks,         (* tasks of the program                                   *)
  Gathers,       (* FNullGraphTasks made by DispatchSubsequents            *)
  GatherOf,      (* the gather task that may take over a task's event      *)
  Forget,        (* tasks with ESubsequentsMode::FireAndForget             *)
  Externals,     (* threads outside the graph that create tasks            *)
  Rank,          (* the program builds no cycle: a task depends downwards  *)
  MaxPrereqs,    (* bound on the length of a prerequisite array            *)
  MaxWaits       (* bound on the length of EventsToWaitFor                 *)

Jobs     == Tasks \cup Gathers
Tracked  == Tasks \ Forget
Creators == Externals \cup Tasks
Slots    == 1 .. (IF MaxPrereqs > MaxWaits THEN MaxPrereqs ELSE MaxWaits)

ASSUME GraphAssumption ==
  /\ Tasks \cap Gathers = {} /\ Externals \cap Jobs = {}
  /\ GatherOf \in [Tasks -> Gathers]
  /\ \A t, u \in Tasks : GatherOf[t] = GatherOf[u] => t = u
  /\ Forget \subseteq Tasks
  /\ Rank \in [Tasks -> Nat]
  /\ MaxPrereqs \in Nat /\ MaxWaits \in Nat

VARIABLES
  life,         (* how far each job is; see Stages                         *)
  creator,      (* who is setting up, or has set up, each job              *)
  prereqs,      (* the Prerequisites array                                 *)
  next,         (* the loop index over it in SetupPrereqs                  *)
  missed,       (* positions counted in AlreadyCompletedPrerequisites      *)
  locked,       (* the extra count of the constructor is still held        *)
  held,         (* created with ConstructAndHold                           *)
  outstanding,  (* NumberOfPrerequistitesOutstanding                       *)
  subsequents,  (* SubsequentList of each event, named by its task         *)
  closed,       (* ... and its closed bit                                  *)
  waitFor,      (* EventsToWaitFor                                         *)
  newTasks      (* the entries a dispatching job still has to work off     *)

vars == <<life, creator, prereqs, next, missed, locked, held, outstanding,
          subsequents, closed, waitFor, newTasks>>
setupVars == <<creator, prereqs, next, missed, held>>
eventVars == <<subsequents, closed, waitFor, newTasks>>

(* "setup": SetupPrereqs runs; "pending": it has returned; "dispatch": the  *)
(* task function has returned; "gathering": the gather task is being set    *)
(* up; "closing": the list is closed and worked off; "dead": destroyed.     *)
Stages == {"none", "setup", "pending", "queued", "running", "dispatch",
           "gathering", "closing", "dead"}

Entries == Jobs \X Slots

(* The event a job completes: its own, or the one a gather has assumed.     *)
EventOf(x) == IF x \in Tasks THEN x ELSE CHOOSE t \in Tasks : GatherOf[t] = x

(* Program order of one thread: it sets up one job at a time.               *)
SettingUp(c) == \E x \in Jobs : life[x] = "setup" /\ creator[x] = c

(* A task's event can be a prerequisite once its creator has it: when the   *)
(* set-up has returned, or the task itself runs and passes it on.           *)
Handles == {t \in Tracked : life[t] \notin {"none", "setup"}}

SeqsUpTo(S, n) == UNION {[1 .. k -> S] : k \in 0 .. n}

Init ==
  /\ life = [x \in Jobs |-> "none"]
  /\ creator = [x \in Jobs |-> x]
  /\ prereqs = [x \in Jobs |-> <<>>]
  /\ next = [x \in Jobs |-> 1]
  /\ missed = [x \in Jobs |-> {}]
  /\ locked = [x \in Jobs |-> FALSE]
  /\ held = [x \in Jobs |-> FALSE]
  /\ outstanding = [x \in Jobs |-> 0]
  /\ subsequents = [e \in Tasks |-> {}]
  /\ closed = [e \in Tasks |-> FALSE]
  /\ waitFor = [e \in Tasks |-> <<>>]
  /\ newTasks = [x \in Jobs |-> {}]

-----------------------------------------------------------------------------
(* Construction and set-up                                                  *)

(* Wrong variant: no extra count for the thread that does the set-up.       *)
InitialCountUnlocked(P) == Len(P)

(* The counter's value before the lock is let go.                           *)
InitialCount(P) == Len(P) + 1

(* The base constructor: one count per prerequisite and one for the lock.   *)
Construct(x, c, P, hold) ==
  /\ life[x] = "none"
  /\ prereqs' = [prereqs EXCEPT ![x] = P]
  /\ outstanding' = [outstanding EXCEPT ![x] = InitialCount(P)]
  /\ locked' = [locked EXCEPT ![x] = TRUE]
  /\ held' = [held EXCEPT ![x] = hold]
  /\ creator' = [creator EXCEPT ![x] = c]
  /\ UNCHANGED <<next, missed>>

(* CreateTask, then ConstructAndDispatchWhenReady or ConstructAndHold, from *)
(* an outside thread or from within a running task.                         *)
CreateTask(t, c, P, hold) ==
  /\ c \in Tasks => life[c] = "running"
  /\ ~SettingUp(c)
  /\ \A k \in DOMAIN P : P[k] \in Handles /\ Rank[P[k]] < Rank[t]
  /\ Construct(t, c, P, hold)
  /\ life' = [life EXCEPT ![t] = "setup"]
  /\ UNCHANGED eventVars

(* One turn of SetupPrereqs' loop: PushIfNotClosed on the next event, or    *)
(* one more prerequisite that had already completed.                        *)
AddSubsequent(x) ==
  /\ life[x] = "setup"
  /\ next[x] <= Len(prereqs[x])
  /\ next' = [next EXCEPT ![x] = @ + 1]
  /\ LET e == prereqs[x][next[x]] IN
     \/ /\ closed[e]
        /\ missed' = [missed EXCEPT ![x] = @ \cup {next[x]}]
        /\ UNCHANGED subsequents
     \/ /\ ~closed[e]
        /\ subsequents' = [subsequents EXCEPT ![e] = @ \cup {<<x, next[x]>>}]
        /\ UNCHANGED missed
  /\ UNCHANGED <<life, creator, prereqs, locked, held, outstanding, closed,
                 waitFor, newTasks>>

(* Wrong variant: the lock of a held task is given back as well.            *)
NumToSubIgnoringHold(x) == Cardinality(missed[x]) + 1

(* Wrong variant: completed prerequisites are noted, not counted.           *)
NumToSubOnce(x) ==
  (IF missed[x] = {} THEN 0 ELSE 1) + (IF held[x] THEN 0 ELSE 1)

(* NumToSub: the prerequisites found complete, and the lock unless the task *)
(* is held.                                                                 *)
NumToSub(x) == Cardinality(missed[x]) + (IF held[x] THEN 0 ELSE 1)

(* Subtract returns the old count: all of it was ours to take away.         *)
PrerequisitesComplete(x) ==
  /\ life[x] = "setup"
  /\ next[x] > Len(prereqs[x])
  /\ outstanding' = [outstanding EXCEPT ![x] = @ - NumToSub(x)]
  /\ life' = [life EXCEPT ![x] =
                IF outstanding[x] = NumToSub(x) THEN "queued" ELSE "pending"]
  /\ missed' = [missed EXCEPT ![x] = {}]
  /\ locked' = [locked EXCEPT ![x] = held[x]]
  /\ UNCHANGED <<creator, prereqs, next, held, eventVars>>

(* ConditionalQueueTask: one count less, and off to the queue at zero.      *)
ConditionalQueueTask(x) ==
  /\ outstanding' = [outstanding EXCEPT ![x] = @ - 1]
  /\ life' = IF outstanding[x] = 1 THEN [life EXCEPT ![x] = "queued"] ELSE life

(* The creator of a held task lets it go.                                   *)
Unlock(t) ==
  /\ held[t] /\ locked[t]
  /\ life[t] = "pending"
  /\ ConditionalQueueTask(t)
  /\ locked' = [locked EXCEPT ![t] = FALSE]
  /\ UNCHANGED <<setupVars, eventVars>>

-----------------------------------------------------------------------------
(* Execution                                                                *)

Execute(x) ==
  /\ life[x] = "queued"
  /\ life' = [life EXCEPT ![x] = "running"]
  /\ UNCHANGED <<setupVars, locked, outstanding, eventVars>>

(* Called by the task function on its own completion event.                 *)
DontCompleteUntil(t, e) ==
  /\ life[t] = "running"
  /\ ~SettingUp(t)
  /\ e \in Handles /\ Rank[e] < Rank[t]
  /\ Len(waitFor[t]) < MaxWaits
  /\ waitFor' = [waitFor EXCEPT ![t] = Append(@, e)]
  /\ UNCHANGED <<life, setupVars, locked, outstanding, subsequents, closed,
                 newTasks>>

(* The task function returns; with nothing to dispatch the task is freed.   *)
FinishDoTask(x) ==
  /\ life[x] = "running"
  /\ ~SettingUp(x)
  /\ life' = [life EXCEPT ![x] = IF x \in Forget THEN "dead" ELSE "dispatch"]
  /\ UNCHANGED <<setupVars, locked, outstanding, eventVars>>

(* Wrong variant: EventsToWaitFor is never looked at.                       *)
HasToWaitNever(e) == FALSE

(* Wrong variant: an off-by-one in the test of the size.                    *)
HasToWaitForTwo(e) == Len(waitFor[e]) > 1

(* EventsToWaitFor.size()                                                   *)
HasToWait(e) == waitFor[e] # <<>>

(* Wrong variant: the return after the hand-over is missing.                *)
AfterGatherFallsThrough == "dispatch"

(* DispatchSubsequents returns once it has handed its list to a gather.     *)
AfterGather == "gathering"

(* DispatchSubsequents with events to wait for: a gather task assumes this  *)
(* event and takes them as its prerequisites.                               *)
CreateGather(x) ==
  LET e == EventOf(x)
      g == GatherOf[e]
  IN
  /\ life[x] = "dispatch"
  /\ HasToWait(e)
  /\ Construct(g, x, waitFor[e], FALSE)
  /\ waitFor' = [waitFor EXCEPT ![e] = <<>>]
  /\ life' = [life EXCEPT ![x] = AfterGather, ![g] = "setup"]
  /\ UNCHANGED <<subsequents, closed, newTasks>>

(* DispatchSubsequents without: the list is emptied and closed at once.     *)
PopAllAndClose(x) ==
  LET e == EventOf(x) IN
  /\ life[x] = "dispatch"
  /\ ~HasToWait(e)
  /\ closed' = [closed EXCEPT ![e] = TRUE]
  /\ newTasks' = [newTasks EXCEPT ![x] = subsequents[e]]
  /\ subsequents' = [subsequents EXCEPT ![e] = {}]
  /\ life' = [life EXCEPT ![x] = "closing"]
  /\ UNCHANGED <<setupVars, locked, outstanding, waitFor>>

DispatchSubsequent(x, entry) ==
  /\ life[x] = "closing"
  /\ entry \in newTasks[x]
  /\ newTasks' = [newTasks EXCEPT ![x] = @ \ {entry}]
  /\ ConditionalQueueTask(entry[1])
  /\ UNCHANGED <<setupVars, locked, subsequents, closed, waitFor>>

(* DispatchSubsequents has returned: the destructor runs and the memory     *)
(* goes back to the allocator.                                              *)
Destroy(x) ==
  /\ \/ life[x] = "closing" /\ newTasks[x] = {}
     \/ life[x] = "gathering" /\ ~SettingUp(x)
  /\ life' = [life EXCEPT ![x] = "dead"]
  /\ UNCHANGED <<setupVars, locked, outstanding, eventVars>>

(* The steps of the thread that executes job x.                             *)
Step(x) ==
  \/ AddSubsequent(x) \/ PrerequisitesComplete(x)
  \/ Execute(x) \/ FinishDoTask(x) \/ CreateGather(x) \/ PopAllAndClose(x)
  \/ \E entry \in newTasks[x] : DispatchSubsequent(x, entry)
  \/ Destroy(x)

(* The whole graph has run: the program has nothing more to do.             *)
Finished == (\A t \in Tasks : life[t] = "dead")
              /\ (\A g \in Gathers : life[g] \in {"none", "dead"})
              /\ UNCHANGED vars

Next ==
  \/ \E t \in Tasks, c \in Creators, hold \in BOOLEAN,
        P \in SeqsUpTo(Tracked, MaxPrereqs) : CreateTask(t, c, P, hold)
  \/ \E t \in Tasks : Unlock(t)
  \/ \E t \in Tracked, e \in Tracked : DontCompleteUntil(t, e)
  \/ \E x \in Jobs : Step(x)
  \/ Finished

(* Threads keep running: set-up, execution and dispatch go on, and a task   *)
(* function returns.  Nobody has to create a task, wait, or unlock.         *)
Fairness == \A x \in Jobs : WF_vars(Step(x))

Spec == Init /\ [][Next]_vars
FairSpec == Spec /\ Fairness

-----------------------------------------------------------------------------
(* Properties                                                               *)

(* Every variable keeps its shape.                                          *)
Shape ==
  /\ life \in [Jobs -> Stages]
  /\ creator \in [Jobs -> Jobs \cup Externals]
  /\ prereqs \in [Jobs -> Seq(Tracked)]
  /\ next \in [Jobs -> Nat \ {0}]
  /\ missed \in [Jobs -> SUBSET Slots]
  /\ locked \in [Jobs -> BOOLEAN]
  /\ held \in [Jobs -> BOOLEAN]
  /\ outstanding \in [Jobs -> Int]
  /\ subsequents \in [Tasks -> SUBSET Entries]
  /\ closed \in [Tasks -> BOOLEAN]
  /\ waitFor \in [Tasks -> Seq(Tracked)]
  /\ newTasks \in [Jobs -> SUBSET Entries]

(* ... and a count of outstanding prerequisites never goes below zero.      *)
TypeOK == Shape /\ outstanding \in [Jobs -> Nat]

Positions(x) == 1 .. Len(prereqs[x])

(* The k-th prerequisite of x is somewhere on its way to being counted off. *)
Registered(x, k) ==
  \/ \E e \in Tasks : <<x, k>> \in subsequents[e]
  \/ \E y \in Jobs : <<x, k>> \in newTasks[y]

Pending(x) == {k \in Positions(x) :
                 k >= next[x] \/ k \in missed[x] \/ Registered(x, k)}

(* The count is exact at every step of every thread: one for each           *)
(* prerequisite that is not yet pushed, pushed and not yet counted off, or  *)
(* found complete and not yet subtracted, and one for the lock.  So it      *)
(* reaches zero once, when all of them are gone, and never goes below.      *)
CountIsExact ==
  \A x \in Jobs : life[x] # "none" =>
    outstanding[x] = Cardinality(Pending(x)) + (IF locked[x] THEN 1 ELSE 0)

(* A list holds only tasks that are alive and not yet queued: what          *)
(* ConditionalQueueTask decrements is never a freed task, and a task is     *)
(* never queued again.                                                      *)
ListedTasksWait ==
  \A x \in Jobs, k \in Slots : Registered(x, k) => life[x] \in {"setup", "pending"}

(* A task function runs only after every prerequisite given to its          *)
(* constructor has completed.                                               *)
RunsAfterPrereqs ==
  \A x \in Jobs : life[x] \in {"queued", "running"} =>
    \A k \in Positions(x) : closed[prereqs[x][k]]

(* What the event of t was told to wait for, before and after a gather      *)
(* task has taken it over.                                                  *)
Awaited(t) ==
  LET events == IF life[GatherOf[t]] = "none" THEN waitFor[t]
                                              ELSE prereqs[GatherOf[t]]
  IN {events[k] : k \in DOMAIN events}

(* An event fires only once its own task function has returned and every    *)
(* event it was told to wait for has fired, whichever of the task and the   *)
(* gather task comes to close it.                                           *)
FiresAfterWaits ==
  \A t \in Tracked : closed[t] =>
    /\ life[t] \in {"gathering", "closing", "dead"}
    /\ \A e \in Awaited(t) : closed[e]

(* The debug check of PopAllAndClose, that a list is closed once            *)
(* (LockFreeList.h:917): whoever is about to dispatch an event finds it     *)
(* open, and never two jobs are.                                            *)
ClosedOnce ==
  /\ \A x \in Jobs : life[x] = "dispatch" => ~closed[EventOf(x)]
  /\ \A x, y \in Jobs :
       life[x] \in {"dispatch", "closing"} /\ life[y] \in {"dispatch", "closing"}
         /\ EventOf(x) = EventOf(y) => x = y

(* The inductive invariant.  Its first part: how far the set-up of a job is. *)
SetUp(x) ==
  /\ Positions(x) \subseteq Slots
  /\ next[x] <= Len(prereqs[x]) + 1
  /\ missed[x] \subseteq Positions(x)
  /\ life[x] = "none" => /\ next[x] = 1 /\ prereqs[x] = <<>>
                         /\ ~locked[x] /\ outstanding[x] = 0
  /\ life[x] = "setup" => locked[x]
  /\ life[x] \notin {"none", "setup"} => /\ next[x] = Len(prereqs[x]) + 1
                                        /\ missed[x] = {}
  /\ life[x] \notin {"none", "setup", "pending"} => outstanding[x] = 0

SetupInv == \A x \in Jobs : SetUp(x)

(* Where a prerequisite is while it is counted: never in two places.        *)
ListInv ==
  /\ \A x \in Jobs : \A k \in missed[x] : k < next[x] /\ closed[prereqs[x][k]]
  /\ \A e \in Tasks, x \in Jobs, k \in Slots : <<x, k>> \in subsequents[e] =>
       /\ k \in Positions(x) /\ k < next[x] /\ k \notin missed[x]
       /\ prereqs[x][k] = e /\ ~closed[e]
  /\ \A y \in Jobs, x \in Jobs, k \in Slots : <<x, k>> \in newTasks[y] =>
       /\ k \in Positions(x) /\ k < next[x] /\ k \notin missed[x]
       /\ prereqs[x][k] = EventOf(y) /\ closed[EventOf(y)]
       /\ life[y] = "closing"

(* A prerequisite that is no longer counted has completed.                  *)
CountedOffInv ==
  \A x \in Jobs : \A k \in Positions(x) :
    k \in Pending(x) \/ closed[prereqs[x][k]]

(* Who may still close an event: its task, until a gather has assumed it.   *)
OwnerInv ==
  /\ \A t \in Tasks :
       /\ Len(waitFor[t]) <= MaxWaits
       /\ life[t] \in {"dispatch", "gathering", "closing"} => t \notin Forget
       /\ life[t] = "dispatch" => ~closed[t]
       /\ closed[t] => life[t] \in {"gathering", "closing", "dead"}
       /\ life[GatherOf[t]] # "none" =>
            /\ t \notin Forget
            /\ life[t] \in {"gathering", "dead"}
            /\ waitFor[t] = <<>>
            /\ closed[t] => life[GatherOf[t]] \in {"gathering", "closing", "dead"}
  /\ \A g \in Gathers : life[g] # "none" => \E t \in Tasks : g = GatherOf[t]

(* Together: what makes the counts exact at every step.                     *)
GraphInv == /\ TypeOK /\ SetupInv /\ ListInv /\ CountIsExact
            /\ CountedOffInv /\ OwnerInv /\ FiresAfterWaits

(* The graph as the program sees it.                                        *)
PhaseOf(stage) ==
  CASE stage = "none" -> "none"
    [] stage \in {"setup", "pending", "queued"} -> "created"
    [] stage = "running" -> "running"
    [] OTHER -> "finished"

DagPhase    == [t \in Tasks |-> PhaseOf(life[t])]
DagReleased == {t \in Tasks : life[t] # "none" /\ ~locked[t]}
DagRequires == [t \in Tasks |-> {prereqs[t][k] : k \in Positions(t)}]
DagAwaits   == [t \in Tasks |-> Awaited(t)]
DagComplete == {e \in Tracked : closed[e]}

Dag == INSTANCE TaskDag WITH
  phase <- DagPhase, released <- DagReleased, requires <- DagRequires,
  awaits <- DagAwaits, complete <- DagComplete

(* The counts, the lists and the gather tasks implement the graph the       *)
(* program drew, with its promise that what can run does run.               *)
ImplementsTaskDag == Dag!Spec
=============================================================================
