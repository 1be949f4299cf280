------------------------------ MODULE Calendar ------------------------------
(***************************************************************************)
(* The dates a debit can be presented on: core/holidays.py and the date    *)
(* helpers of services/scheduler.py, with the part of Python's datetime    *)
(* they stand on.                                                          *)
(*                                                                         *)
(* A date is its proleptic Gregorian ordinal, as date.toordinal() counts   *)
(* it: 1 is Monday, 1 January of year 1.  An instant is a whole number of  *)
(* hours, 24 * ordinal + hour, in UTC; local time is AEST, a fixed +10.    *)
(* Nothing here depends on minutes: the helpers carry them along.          *)
(***************************************************************************)
EXTENDS Integers, FiniteSets

CONSTANT HolidayTable   \* the closed days of each year in use (the _cache)

EarliestOf(S) == CHOOSE x \in S : \A y \in S : x <= y

-----------------------------------------------------------------------------
(* Python's date arithmetic. *)
IsLeap(y) == y % 4 = 0 /\ (y % 100 # 0 \/ y % 400 = 0)

DaysIn(y, m) ==
  IF m = 2 THEN (IF IsLeap(y) THEN 29 ELSE 28)
  ELSE IF m \in {4, 6, 9, 11} THEN 30 ELSE 31

(* Days of a year that come before month m. *)
DaysBeforeMonth(y, m) ==
  LET common == <<0, 31, 59, 90, 120, 151, 181, 212, 243, 273, 304, 334>>
  IN common[m] + (IF m > 2 /\ IsLeap(y) THEN 1 ELSE 0)

DaysBeforeYear(y) ==
  365 * (y - 1) + (y - 1) \div 4 - (y - 1) \div 100 + (y - 1) \div 400

Date(y, m, d) == DaysBeforeYear(y) + DaysBeforeMonth(y, m) + d

YearOf(date) ==
  CHOOSE y \in (date \div 366)..(date \div 365 + 1) :
    DaysBeforeYear(y) < date /\ date <= DaysBeforeYear(y + 1)

MonthOf(date) ==
  LET y == YearOf(date)
      inYear == date - DaysBeforeYear(y)
  IN CHOOSE m \in 1..12 :
       /\ DaysBeforeMonth(y, m) < inYear
       /\ inYear <= DaysBeforeMonth(y, m) + DaysIn(y, m)

DayOf(date) == date - Date(YearOf(date), MonthOf(date), 1) + 1

Weekday(date) == (date + 6) % 7     \* Monday is 0

AEST == 10

LocalDate(at)   == (at + AEST) \div 24
LocalHour(at)   == (at + AEST) % 24
Instant(date, hour) == 24 * date + hour - AEST   \* hour is a local one

-----------------------------------------------------------------------------
(* core/holidays.py *)
Monday   == 0
Saturday == 5

(* Anonymous Gregorian computus. *)
(* Fault: the correction for the two late full moons is left out. *)
UncorrectedEaster(y) ==
  LET b == y \div 100   c == y % 100
      h == (19 * (y % 19) + b - b \div 4 - ((b - (b + 8) \div 25 + 1) \div 3) + 15) % 30
      l == (32 + 2 * (b % 4) + 2 * (c \div 4) - h - (c % 4)) % 7
  IN Date(y, (h + l + 114) \div 31, ((h + l + 114) % 31) + 1)
EasterSunday(y) ==
  LET a == y % 19
      b == y \div 100   c == y % 100
      d == b \div 4     e == b % 4
      f == (b + 8) \div 25
      g == (b - f + 1) \div 3
      h == (19 * a + b - d - g + 15) % 30
      i == c \div 4     k == c % 4
      l == (32 + 2 * e + 2 * i - h - k) % 7
      m == (a + 11 * h + 22 * l) \div 451
      n == h + l - 7 * m + 114
  IN Date(y, n \div 31, (n % 31) + 1)

NthWeekday(y, month, weekday, n) ==
  LET first == Date(y, month, 1)
  IN first + ((weekday - Weekday(first)) % 7) + 7 * (n - 1)

(* A weekend holiday is observed on the next Monday, or on the first day *)
(* after it that no other holiday has taken.                             *)
(* Fault: Saturday and Sunday are both observed on that Monday.          *)
NextMonday(day, taken) ==
  IF Weekday(day) < Saturday THEN day ELSE day + 7 - Weekday(day)
WeekendSubstitute(day, taken) ==
  IF Weekday(day) < Saturday THEN day
  ELSE LET monday == day + 7 - Weekday(day)
       IN EarliestOf((monday..(monday + Cardinality(taken))) \ taken)

(* The four substituted holidays, in the order the table takes them. *)
Substituted(y) ==
  LET newYear   == WeekendSubstitute(Date(y, 1, 1), {})
      australia == WeekendSubstitute(Date(y, 1, 26), {newYear})
      christmas == WeekendSubstitute(Date(y, 12, 25), {newYear, australia})
      boxing    == WeekendSubstitute(Date(y, 12, 26), {newYear, australia, christmas})
  IN [newYear |-> newYear, australia |-> australia,
      christmas |-> christmas, boxing |-> boxing]

Holidays(y) ==
  LET easter == EasterSunday(y)
  IN {Substituted(y)[name] : name \in DOMAIN Substituted(y)} \cup
     {Date(y, 4, 25), easter - 2, easter - 1, easter + 1,
      NthWeekday(y, 6, Monday, 2), NthWeekday(y, 8, Monday, 1),
      NthWeekday(y, 10, Monday, 1)}

(* The cache holds what _holidays computes, for the years it was asked. *)
ASSUME TableAssumption ==
  \A y \in DOMAIN HolidayTable : HolidayTable[y] = Holidays(y)

IsBusinessDay(date) ==
  Weekday(date) < Saturday /\ date \notin HolidayTable[YearOf(date)]

SearchDays == 14   \* the bound of next_business_day

NextBusinessDay(date) ==
  LET open == {d \in date..(date + SearchDays - 1) : IsBusinessDay(d)}
  IN IF open = {} THEN date + SearchDays ELSE EarliestOf(open)

(* Fault: the date that is rolled is the UTC one. *)
RollUTCDate(at) ==
  LET day == at \div 24 IN at + 24 * (NextBusinessDay(day) - day)
RollToBusinessDay(at) ==
  LET day == LocalDate(at) IN Instant(NextBusinessDay(day), LocalHour(at))

-----------------------------------------------------------------------------
(* services/scheduler.py *)
PaydayHour       == 8
PaydaySearchDays == 15

(* The next 08:00 local on one of the weekdays, strictly after `after`. *)
(* Fault: a payday morning collapses to itself. *)
PaydayOrNow(after, weekdays) ==
  LET mornings == {Instant(LocalDate(after) + o, PaydayHour) :
                     o \in {p \in 0..(PaydaySearchDays - 1) :
                              Weekday(LocalDate(after) + p) \in weekdays}}
      later == {m \in mornings : m >= after}
  IN IF later = {} THEN after ELSE EarliestOf(later)
NextPayday(after, weekdays) ==
  LET mornings == {Instant(LocalDate(after) + o, PaydayHour) :
                     o \in {p \in 0..(PaydaySearchDays - 1) :
                              Weekday(LocalDate(after) + p) \in weekdays}}
      later == {m \in mornings : m > after}
  IN IF later = {} THEN after ELSE EarliestOf(later)

(* Same local day and time next month; a day the month lacks is clamped. *)
(* Fault: a day past the 28th overflows into the month after. *)
OverflowingMonth(after) ==
  LET date == LocalDate(after)
      y == YearOf(date) + MonthOf(date) \div 12
      m == (MonthOf(date) % 12) + 1
  IN Instant(Date(y, m, 1) + DayOf(date) - 1, LocalHour(after))
NextMonthEquivalent(after) ==
  LET date == LocalDate(after)
      y == YearOf(date) + MonthOf(date) \div 12
      m == (MonthOf(date) % 12) + 1
      day == CHOOSE d \in 1..DayOf(date) :
               /\ d <= DaysIn(y, m)
               /\ d < DayOf(date) => d >= 28 /\ d + 1 > DaysIn(y, m)
  IN Instant(Date(y, m, day), LocalHour(after))
=============================================================================
