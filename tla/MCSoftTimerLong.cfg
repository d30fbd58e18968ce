\* Intervals longer than a quarter of the range of the system timer.
CONSTANTS
  f = f
  g = g
  Null = Null
  Callbacks = {f}
  Deletable = {f}
  MaxTimerNum = 3
  Modulus = 32
  Quarter = 8
  Pre = 1
  Post = 4
  Horizon = 2
  TicksPerUs = 1
  IntervalsUs = {1, 12}
  ResultsUs = {}
  PollBound = 1
  CbOps = {"add", "delete"}
SPECIFICATION Spec
INVARIANTS TimersInTurn
