---------------------------- MODULE QueueRouting ----------------------------
(***************************************************************************)
(* Where a task goes: the bit fields of ENamedThreads::Type and the choice *)
(* FTaskGraphImplementation::QueueTask makes from them, and the numbering  *)
(* of the worker threads, which StartTaskThread and FindWork use in        *)
(* opposite directions.                                                    *)
(***************************************************************************)
EXTENDS Integers, FiniteSets

CONSTANTS
  NumNamedThreads,   (* LastExternalThread + 1, which is 4                 *)
  NumTaskThreads     (* worker threads in each set, 8 in the constructor   *)

-----------------------------------------------------------------------------
(* ENamedThreads                                                            *)

AnyThread == 255

(* Thread priorities and task priorities, as indices.                       *)
NormalThread == 0
HighThread == 1
BackgroundThread == 2
NormalTask == 0
HighTask == 1

SetPriorities(thread, threadPriority, taskPriority) ==
  thread + 512 * taskPriority + 1024 * threadPriority

GetTaskPriority(to)        == (to \div 512) % 2
GetThreadPriorityIndex(to) == (to \div 1024) % 4

-----------------------------------------------------------------------------
(* The thread sets; created is the set of the thread priorities, besides    *)
(* the normal one, for which the constructor has made threads.              *)

NumTaskThreadSets(created) == 1 + Cardinality(created)
Workers(created) == NumNamedThreads ..
  NumNamedThreads + NumTaskThreads * NumTaskThreadSets(created) - 1

ThreadToWake(priority, index) == index + priority * NumTaskThreads + NumNamedThreads

(* ThreadIndexToPriorityIndex, which FindWork repeats, and its MyIndex.     *)
PriorityIndex(w) == (w - NumNamedThreads) \div NumTaskThreads
MyIndex(w)       == (w - NumNamedThreads) % NumTaskThreads

(* Wrong variant: the background priority is not promoted.                  *)
RouteUnpromoted(to, has) ==
  LET thread == GetThreadPriorityIndex(to) IN
  IF thread = HighThread /\ HighThread \notin has
  THEN [priority |-> NormalThread, queue |-> HighTask]
  ELSE [priority |-> thread, queue |-> GetTaskPriority(to)]

(* QueueTask for AnyThread: the incoming queue, by thread priority, and the *)
(* index within it; has is the set of priorities with threads in use.       *)
Route(to, has) ==
  LET thread == GetThreadPriorityIndex(to) IN
  IF thread = BackgroundThread /\ BackgroundThread \notin has
  THEN [priority |-> NormalThread, queue |-> NormalTask]
  ELSE IF thread = HighThread /\ HighThread \notin has
  THEN [priority |-> NormalThread, queue |-> HighTask]
  ELSE [priority |-> thread, queue |-> GetTaskPriority(to)]
=============================================================================
