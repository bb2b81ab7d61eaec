SPECIFICATION FairSpec
CONSTANTS
  game = game
  a = a
  b = b
  AnyThread = AnyThread
  NoJob = NoJob
  Named = {game}
  Workers = {worker}
  Externals = {main}
  Tasks = {a, b}
  Waits = {v, u}
  Target <- MCTarget
  Lots = 1
CHECK_DEADLOCK FALSE
INVARIANT WaitsAreHonoured
INVARIANT StalledMeansWaiting
INVARIANT NoStrandedTask
INVARIANT NeverReentered
INVARIANT ReturnsItsOwnLoop
PROPERTY WaitsReturn
PROPERTY ThreadsQuit
