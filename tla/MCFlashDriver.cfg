\* Two pages of two bytes, each a sector, and one page of security registers.
CONSTANTS
  Bits = {0}
  PageSize = 2
  PageSizeOtp = 2
  SectorSize = 2
  FlashSize = 4
  OtpSize = 2
  LowBits = {"bp", "srp"}
  HighBits = {"cmp", "lb"}
  BpBits = {"bp", "cmp"}
  OtpLock = "lb"
  Wps = "wps"
  OtherConfig = {"drv"}
  Area <- MCArea
  Calls <- MCCalls
  MaxBusy = 1
  MaxPolls = 2
SPECIFICATION Spec
INVARIANTS TypeOK XipSafe IrqKept ReadWhole
PROPERTIES LockedKept OtherBitsKept Implements
