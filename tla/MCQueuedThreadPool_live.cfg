SPECIFICATION FairSpec
CONSTANTS
  s1 = s1
  s2 = s2
  c1 = c1
  c2 = c2
  u = u
  v = v
  w = w
  Threads = {s1, s2}
  Clients = {c1, c2}
  Works = {u, v, w}
  NoWork = NoWork
  Owners = {TRUE, FALSE}
  EraseEndIsFatal = FALSE
CHECK_DEADLOCK FALSE
INVARIANT PooledThreadsAreFree
INVARIANT WokenForAReason
PROPERTY ImplementsWorkPool
PROPERTY QuietDestroyReturns
