SPECIFICATION Spec
CONSTANTS
  Ids = {1, 2, 3, 4}
  Filters <- MCFilters
  Limits = {1, 2}
  MaxTime = 2
  MaxChanges = 2
CHECK_DEADLOCK FALSE
INVARIANTS
  TypeOK
  UntouchedOnce
PROPERTIES
  NextPageIsAhead
