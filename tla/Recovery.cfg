SPECIFICATION FairSpec
CONSTANTS
  p1 = p1  p2 = p2
  Payments = {p1, p2}
  Codes = {"insufficient-funds", "technical-error", "invalid-account", "payment-stopped"}
  Monthly = {p2}
  Payday = 7
  Refusable = {p1, p2}
  MaxFailed = 1
  MaxReruns = 1
  Answers <- MCAnyAnswer
  Start <- MCStart
  HolidayTable <- MCHolidays
CHECK_DEADLOCK FALSE
INVARIANTS
  RecoveredHasEvidence
  MessagesMatchAttempts
  MaxAttemptsIsKept
  OpenFileHasItsEnd
PROPERTIES
  ClosedStaysClosed
  EveryFileCloses
  KeepsFileLifecycle
