\* A full duplex transfer of as many bytes as the FIFO holds.
CONSTANTS
  ea = ea
  eb = eb
  ec = ec
  none = none
  Parts = {"spi"}
  Elems = {ea, eb, ec}
  FullSize = {ec}
  NoElem = none
  Num = 4
  PtrMod = 8
  MainTmrCalls <- MCMainCalls
  IsrTmrCalls <- MCIsrCalls
  FifoSize = 2
  MaxLen = 7
  SpiCalls <- MCOneChunk
  AddrLens = {0, 1, 2, 3}
  SlaveSize = 7
  I2cCalls <- MCI2cCalls
  BitClocks <- MCBitClocks
  KsMatrices <- MCMatrices
  AdcCodes <- MCAdcCodes
  TornReads = 2
  FW_READ_SIZE = 32
  FwSizes = {20, 36, 84}
  GpCalls <- MCPinCalls
  MaxGpCalls = 2
SPECIFICATION DriversSpec
INVARIANTS SpiExchanged
