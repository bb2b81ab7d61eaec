SPECIFICATION FairSpec
CONSTANTS
  a = a
  b = b
  c = c
  ga = ga
  gb = gb
  gc = gc
  main = main
  Tasks = {a, b, c}
  Gathers = {ga, gb, gc}
  GatherOf <- MCGatherOf
  Forget = {c}
  Externals = {main}
  Rank <- MCRank
  MaxPrereqs = 1
  MaxWaits = 2
INVARIANT TypeOK
INVARIANT CountIsExact
INVARIANT RunsAfterPrereqs
INVARIANT FiresAfterWaits
INVARIANT ClosedOnce
PROPERTY ImplementsTaskDag
