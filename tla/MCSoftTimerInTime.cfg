\* Three slots, callbacks that add and delete timers themselves, and windows as
\* wide as the theorems about order and missed timers ask for.
CONSTANTS
  f = f
  g = g
  Null = Null
  Callbacks = {f}
  Deletable = {f}
  MaxTimerNum = 3
  Modulus = 15
  Quarter = 7
  Pre = 1
  Post = 6
  Horizon = 2
  TicksPerUs = 1
  IntervalsUs = {1, 2}
  ResultsUs = {}
  PollBound = 1
  CbOps = {"add", "delete"}
SPECIFICATION Spec
INVARIANTS TypeOK WakeMatchesHead SortSorts OrderedWhenIdle NoneMissed
