SPECIFICATION MCSpec
CONSTANTS
  t1 = t1
  t2 = t2
  Threads = {t1, t2}
  NoBlock = NoBlock
  PerBundle = 2
  ItemsPerPage = 4
  MaxTotalItems = 7
  a = a
  b = b
  c = c
  ga = ga
  gb = gb
  gc = gc
  Tasks = {a, b, c}
  Gathers = {ga, gb, gc}
  GatherOf <- MCGatherOf
  Rank <- MCRank
  Workers = {1, 2}
  NoJob = NoJob
  MaxDeps = 2
  MaxWaits = 1
CHECK_DEADLOCK FALSE
INVARIANT BundlesAreFull
INVARIANT OneHome
INVARIANT StorageStays
INVARIANT NoLostWakeUp
PROPERTY ImplementsTaskDag
