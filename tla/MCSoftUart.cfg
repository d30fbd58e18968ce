\* Three bytes of two bits, a buffer for two bytes, and a receiver that may be
\* turned off and on again at any point.
CONSTANTS
  NBits = 2
  DoneNum = 3
  CountMod = 4
  DataSize = 2
  MaxBytes = 3
  MaxRest = 4
  MaxDisables = 1
SPECIFICATION Spec
INVARIANTS TypeOK InOrder DeliveredInTime RoomForByte NeverStuck
PROPERTIES OnlyCutWhenDone
