SPECIFICATION FairSpec
CONSTANTS
  NumNamedThreads = 4
  NumTaskThreads = 2
  ThreadSets <- MCThreadSets
  OtherTasks <- AnyTask
  NamedThreads = {"game"}
  MaxOthers = 1
  MaxRounds = 1
CHECK_DEADLOCK FALSE
INVARIANT EachWorkerOnce
INVARIANT NothingOutlivesTheCall
INVARIANT PooledEventsAreFree
INVARIANT RoutedToServedSet
PROPERTY BroadcastReturns
