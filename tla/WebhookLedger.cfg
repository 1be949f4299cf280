SPECIFICATION FairSpec
CONSTANTS
  e1 = e1  e2 = e2  e3 = e3  e4 = e4
  p1 = p1  p2 = p2
  c1 = c1  c2 = c2
  s1 = s1  s2 = s2
  Events = {e1, e2, e3, e4}
  Payments = {p1, p2}
  Customers = {c1, c2}
  NoPayer = NoPayer
  Batch <- MCBatch
  Sessions = {s1, s2}
  Malformed = {e4}
  NoEvent = NoEvent
  MaxCrashes = 1
INVARIANTS
  TypeOK
  AppliedOnce
  AckedIsRecorded
  SettledStaysRecovered
  RecordedLeavesRows
PROPERTIES
  ImplementsSettlement
  EveryEventRecorded
