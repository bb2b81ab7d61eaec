SPECIFICATION Spec
CONSTANTS
  p1 = p1
  p2 = p2
  p3 = p3
  x = x
  y = y
  z = z
  l1 = l1
  l2 = l2
  l3 = l3
  l4 = l4
  Threads = {p1, p2, p3}
  Items = {x, y}
  Links = {l1, l2, l3}
  NoLink = NoLink
  NoItem = NoItem
SYMMETRY Symmetry
INVARIANT EveryLinkHasOneOwner
INVARIANT NullMeansEmpty
PROPERTY ImplementsAtomicQueue
INVARIANT AloneItGetsThrough
