SPECIFICATION Spec
CONSTANTS
  r1 = r1  r2 = r2  off = off
  d1 = d1  c1 = c1
  Drivers = {d1}
  Callers = {c1}
  Poller = Poller
  Delays = {0, 8}
  Attempts = {r1, r2, off}
  Kind <- MCKind
  Time <- MCTime
  Settlement = 8
  Minds <- MCMinds
  FailsAt = 14
  Leaps = {12, 24}
  Horizon = 24
  MaxRounds = 25
  MaxSteps = 4
  MaxUpsets = 1
CHECK_DEADLOCK FALSE
INVARIANTS
  LedgerIsOfItsTime
  NothingSwallowed
  SettledOnReturn
