SPECIFICATION ServiceFairSpec
CONSTANTS
  PoolSizes = {1, 2}
  Workers = {1, 2, 3}
  Main = Main
  None = None
  NoFile = NoFile
  Files <- NoFiles
  Dotted = {}
  MaxUses = 1
  MaxFaults = 2
  Calls <- AnnTwice
INVARIANTS ServiceTypeOK LeaseExclusive EnoughNotified NoHandleLeak
INVARIANTS AnswersTrue SeesEarlier
PROPERTY CallReturns
