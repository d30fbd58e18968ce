\* A buffer of 260 bytes in small: data_size is the range of data_count.
CONSTANTS
  NBits = 2
  DoneNum = 3
  CountMod = 2
  DataSize = 2
  MaxBytes = 2
  MaxRest = 4
  MaxDisables = 0
SPECIFICATION Spec
INVARIANTS PacketFitsBuffer
