\* Two timers, every interleaving of adds, deletes, polls and clock ticks,
\* under the fairness of FairSpec.
CONSTANTS
  f = f
  g = g
  Null = Null
  Deletable = {g}
  Callbacks = {f, g}
  MaxTimerNum = 2
  Modulus = 11
  Quarter = 5
  Pre = 1
  Post = 4
  Horizon = 2
  TicksPerUs = 1
  IntervalsUs = {3}
  ResultsUs = {2}
  PollBound = 1
  CbOps = {}
SPECIFICATION FairSpec
PROPERTIES EveryTimerFires
