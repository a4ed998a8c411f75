SPECIFICATION ExchangeSpec
CONSTANTS
  Requests <- WholeRequests
  Files <- WebRoot
  Dotted <- WithDots
  MaxRequests = 2
  SizeMod = 256
  HeadUnits = 2
  MaxHead = 3
  MaxFile = 2
  NoFile = NoFile
INVARIANTS TypeOK ExtractedExact AllExtracted WireExact
INVARIANTS RepliesRight ServiceAsked Delimited CloseAnnounced PreparedAsBuilt
