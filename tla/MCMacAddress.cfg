\* A byte has two bits and a page three bytes; the public address ends in the
\* middle of the second page.
CONSTANTS
  Bits = {0, 1}
  RandLen = 1
  PublicLen = 3
  MacLen = 5
  CompanyByte <- MCCompanyByte
  PageSize = 3
  FlashSize = 6
  FlashAddr = 1
SPECIFICATION Spec
INVARIANTS TypeOK PublicStable StaticStable StoredIsUsed
PROPERTIES UsesFlash
