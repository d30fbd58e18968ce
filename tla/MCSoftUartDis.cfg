\* The receiver is turned off while the status of an interrupt can still be set.
CONSTANTS
  NBits = 2
  DoneNum = 3
  CountMod = 4
  DataSize = 2
  MaxBytes = 2
  MaxRest = 4
  MaxDisables = 1
SPECIFICATION Spec
INVARIANTS QuietWhenDisabled
