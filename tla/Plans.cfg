SPECIFICATION Walks
CONSTANTS
  FirstYear = 2000
  LastYear = 2027
  Step = 11
  PlanFirst = 2024
  PlanLast = 2027
  PlanStep = 79
  TriedCodes = {"insufficient-funds", "technical-error", "invalid-account", "authority-cancelled", "payment-stopped", "invalid-card", "blocked-by-bank", "no-such-code"}
  Sizes = {TRUE, FALSE}
  HolidayTable <- MCHolidays
  TriedPaydays <- MCPaydays
  TriedBudgets <- MCBudgets
  TriedContacts <- MCContacts
CHECK_DEADLOCK FALSE
INVARIANTS
  RollsToFirstOpenDay
  PaydayIsNextAndMovesOn
  MonthStepKeepsBillingDay
  EasterIsSundayAfterMoon
  SubstitutesAreApart
  RetriesOnOpenDays
  RetriesKeepInterval
  MessagesADayApart
  LongHorizonIsUsed
