SPECIFICATION FairSpec
CONSTANTS
  s1 = s1
  s2 = s2
  c1 = c1
  c2 = c2
  u = u
  v = v
  w = w
  Threads = {s1, s2}
  Clients = {c1}
  Works = {u, v}
  NoWork = NoWork
  Owners = {FALSE}
  EraseEndIsFatal = TRUE
CHECK_DEADLOCK FALSE
INVARIANT NeverCrashes
