SPECIFICATION ExchangeSpec
CONSTANTS
  Requests <- NamesAlike
  Files <- WebRoot
  Dotted <- WithDots
  MaxRequests = 2
  SizeMod = 256
  HeadUnits = 2
  MaxHead = 3
  MaxFile = 2
  NoFile = NoFile
INVARIANT AllExtracted
