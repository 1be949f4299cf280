SPECIFICATION FairSpec
CONSTANTS
  Originals = 1
  MaxDebits = 3
  MaxRetries = 1
  PageSize = 2
  MaxOdd = 1
  MaxBoots = 2
CHECK_DEADLOCK FALSE
INVARIANTS
  RetryDebitedOnce
PROPERTIES
  ListedIngested
  TicksGoOn
  StopIsFinal
