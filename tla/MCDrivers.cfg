\* The queue and eight drivers.  A queue of four slots whose indices wrap at
\* eight, FIFOs of two bytes, an I2C memory of seven bytes, the key scanner's
\* and the ADC's own numbers, and firmware blocks of 32 bytes.
CONSTANTS
  ea = ea
  eb = eb
  ec = ec
  none = none
  Parts = {"queue", "timers", "spi", "i2c", "uart", "keyscan", "adc", "firmware", "pins"}
  Elems = {ea, eb, ec}
  FullSize = {ec}
  NoElem = none
  Num = 4
  PtrMod = 8
  MainTmrCalls <- MCMainCalls
  IsrTmrCalls <- MCIsrCalls
  FifoSize = 2
  MaxLen = 7
  SpiCalls <- MCSpiCalls
  AddrLens = {0, 1, 2, 3}
  SlaveSize = 7
  I2cCalls <- MCI2cCalls
  BitClocks <- MCBitClocks
  KsMatrices <- MCMatrices
  AdcCodes <- MCAdcCodes
  TornReads = 2
  FW_READ_SIZE = 32
  FwSizes = {20, 36, 84}
  GpCalls <- MCPinCalls
  MaxGpCalls = 2
SPECIFICATION DriversSpec
INVARIANTS TypeOK SettingsKept SpiExchanged I2cTransferred BaudAccurate KeysDecoded MiddleAverage ImageChecked PinsAsAsked
PROPERTIES Implements HeldSlotKept
