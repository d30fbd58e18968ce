\* Two timers started and stopped in turn.
CONSTANTS
  ea = ea
  eb = eb
  ec = ec
  none = none
  Parts = {"timers"}
  Elems = {ea, eb, ec}
  FullSize = {ec}
  NoElem = none
  Num = 4
  PtrMod = 8
  MainTmrCalls <- MCTwoTimers
  IsrTmrCalls <- MCNoCalls
  FifoSize = 2
  MaxLen = 7
  SpiCalls <- MCSpiCalls
  AddrLens = {0, 1, 2, 3}
  SlaveSize = 7
  I2cCalls <- MCI2cCalls
  BitClocks <- MCBitClocks
  KsMatrices <- MCMatrices
  AdcCodes <- MCAdcCodes
  TornReads = 2
  FW_READ_SIZE = 32
  FwSizes = {20, 36, 84}
  GpCalls <- MCPinCalls
  MaxGpCalls = 2
SPECIFICATION DriversSpec
PROPERTIES TickKept
