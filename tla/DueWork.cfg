SPECIFICATION FairSpec
CONSTANTS
  m = m  r1 = r1  r2 = r2  off = off
  w1 = w1  w2 = w2
  Attempts = {m, r1, r2, off}
  Workers = {w1, w2}
  Kind <- MCKind
  Time <- MCTime
  Nobody = Nobody
  Settlement = 1
  LastTime = 3
  MaxRequests = 1
  MaxCrashes = 1
CHECK_DEADLOCK FALSE
INVARIANTS
  TypeOK
  WorksOnLockedRows
  PresentedOnce
  PresentedIsRecorded
PROPERTIES
  DueWorkIsDone
