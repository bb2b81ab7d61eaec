SPECIFICATION FairSpec
CONSTANTS
  NumWorkers = 2
  p1 = p1
  p2 = p2
  t1 = t1
  t2 = t2
  t3 = t3
  Pushers = {p1, p2}
  Tasks = {t1, t2, t3}
  NumPriorities = 2
  TaskPriority <- TwoPriorities
  NoTask = NoTask
INVARIANT NoStrandedTask
