SPECIFICATION Spec
CONSTANTS
  p1 = p1  p2 = p2
  Payments = {p1}
  Codes = {"insufficient-funds", "payment-stopped"}
  Monthly = {}
  Payday = 7
  Refusable = {}
  MaxFailed = 1
  MaxReruns = 0
  Answers <- MCAnyAnswer
  Start <- MCStart
  HolidayTable <- MCHolidays
CHECK_DEADLOCK FALSE
INVARIANTS
  HardNeverPresented
