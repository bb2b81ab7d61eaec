SPECIFICATION FairSpec
CONSTANTS
  NumNamedThreads = 4
  NumTaskThreads = 1
  ThreadSets <- MCThreadSets
  OtherTasks <- BothTasks
  NamedThreads = {"game", "render"}
  MaxOthers = 2
  MaxRounds = 1
CHECK_DEADLOCK FALSE
PROPERTY HighTasksFirst
