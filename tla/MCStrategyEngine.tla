-------------------------- MODULE MCStrategyEngine --------------------------
(***************************************************************************)
(* Two walks through time.  The first asks, at every instant it visits,    *)
(* what the calendar helpers return for it, and compares that with         *)
(* definitions that do not share their arithmetic.  The second makes the   *)
(* plans of failures on its dates, for every class of dishonour code and   *)
(* the customers that change the outcome, and checks them against what the *)
(* table and the rules say.                                                *)
(***************************************************************************)
EXTENDS StrategyEngine

CONSTANTS FirstYear, LastYear,
          Step,      \* hours from one instant of the first walk to the next
          PlanFirst, PlanLast,   \* the years of the second
          PlanStep,  \* hours from one failure that is tried to the next
          TriedCodes, \* dishonour codes that are tried
          Sizes,     \* whether the debit reads as a monthly one
          TriedPaydays,  \* for each code, the observed paydays that are tried,
          TriedBudgets,  \* and how many retries the customer has had
          TriedContacts  \* the last message, in hours after the failure

(* The years are those of the table of full moons below, the cache has the *)
(* holidays of each of them, and no code is the name for having none.      *)
ASSUME WalkAssumption ==
  /\ {FirstYear, PlanFirst, PlanLast, LastYear} \subseteq Nat
  /\ 1900 + 84 <= FirstYear /\ FirstYear <= PlanFirst
  /\ PlanFirst <= PlanLast /\ PlanLast <= LastYear /\ LastYear <= 2199 - 168
  /\ (FirstYear - 1)..(LastYear + 1) \subseteq DOMAIN HolidayTable
  /\ Step \in Nat /\ PlanStep \in Nat
  /\ Sizes \subseteq BOOLEAN /\ "none" \notin TriedCodes
  /\ TriedPaydays \in [TriedCodes -> SUBSET (0..NoWeekday)]
  /\ TriedBudgets \in [TriedCodes -> SUBSET Nat]
  /\ \A hours \in TriedContacts :
       hours \in Int /\ Instant(Date(PlanFirst, 1, 1), 0) + hours \in Nat

VARIABLES payment, customer, at, plan

walkVars == <<payment, customer, at, plan>>

(* The years of the walks, and those around them. *)
MCHolidays == [y \in (FirstYear - 1)..(LastYear + 1) |-> Holidays(y)]

NoPayment == [code |-> "none", monthly |-> FALSE]
OfDates == payment = NoPayment
OfPlans == payment # NoPayment

(* Only a class that retries looks at the payday and the budget. *)
MCPaydays ==
  [code \in TriedCodes |->
     IF code = "insufficient-funds" THEN {NoWeekday, 2, 5} ELSE {NoWeekday}]
MCBudgets ==
  [code \in TriedCodes |->
     IF AllowsRetries(Classify(code)) THEN {0, 2, 3, 4, 5} ELSE {0}]

(* A last message later than the failure: planning can run long after it. *)
MCContacts == {-1, 30}

CustomersFor(code, t) ==
  [payday : TriedPaydays[code], used : TriedBudgets[code],
   contact : {NoTime} \cup {t + hours : hours \in TriedContacts}]

StartOfDates ==
  /\ at = Instant(Date(FirstYear, 1, 1), 0)
  /\ payment = NoPayment
  /\ customer = [payday |-> NoWeekday, used |-> 0, contact |-> NoTime]
  /\ plan = <<>>

StartOfPlans ==
  /\ at = Instant(Date(PlanFirst, 1, 1), 0)
  /\ \E code \in TriedCodes, monthly \in Sizes :
       payment = [code |-> code, monthly |-> monthly]
  /\ customer \in CustomersFor(payment.code, at)
  /\ plan = Plan(payment, customer, at)

Outset == StartOfDates \/ StartOfPlans

NextInstant ==
  /\ OfDates
  /\ LocalDate(at + Step) <= Date(LastYear, 12, 31)
  /\ at' = at + Step
  /\ UNCHANGED <<payment, customer, plan>>

(* The same payment, failing later. *)
FailLater ==
  /\ OfPlans
  /\ LocalDate(at + PlanStep) <= Date(PlanLast, 12, 31)
  /\ at' = at + PlanStep
  /\ customer' = [customer EXCEPT !.contact = IF @ = NoTime THEN NoTime ELSE @ + PlanStep]
  /\ plan' = Plan(payment, customer', at')
  /\ UNCHANGED payment

Onward == NextInstant \/ FailLater

Walks == Outset /\ [][Onward]_walkVars

-----------------------------------------------------------------------------
(* The date of the ecclesiastical full moon for a golden number, in days   *)
(* after 21 March; the Gregorian table in force from 1900 to 2199.         *)
PaschalMoon ==
  <<24, 13, 2, 21, 10, 28, 18, 7, 26, 15, 4, 23, 12, 1, 20, 9, 27, 17, 6>>

(* The computus agrees with the church's definition of Easter, the first   *)
(* Sunday strictly after the paschal full moon, in the year of the walk    *)
(* and in those 28 years apart from it in both directions.                 *)
EasterIsSundayAfterMoon ==
  OfDates => \A k \in -3..6 :
    LET y == YearOf(LocalDate(at)) + 28 * k
        moon == Date(y, 3, 21) + PaschalMoon[(y % 19) + 1]
    IN EasterSunday(y) = EarliestOf({d \in (moon + 1)..(moon + 7) : Weekday(d) = 6})

(* Good Friday to Anzac Day: the one time five days in a row are closed. *)
LongEaster(y) == EasterSunday(y) = Date(y, 4, 23)

(* Anything rolled lands on an open day at the same local time, skipping   *)
(* no open day on the way and never by more than four days, or five when   *)
(* the day after Easter Monday is a holiday too: the roll is what makes    *)
(* the date shown and the date presented the same date, and its fourteen-  *)
(* day bound is never what stops it.                                       *)
RollsToFirstOpenDay ==
  OfDates => LET to == RollToBusinessDay(at) IN
    /\ to \in {at + 24 * n : n \in 0..(IF LongEaster(YearOf(LocalDate(at))) THEN 5 ELSE 4)}
    /\ IsBusinessDay(LocalDate(to))
    /\ \A d \in LocalDate(at)..(LocalDate(to) - 1) : ~ IsBusinessDay(d)

(* The payday found is the soonest 08:00 on such a weekday after the given *)
(* time, at most a week away, and asking again from it moves on: retries   *)
(* chained through it never stack on one instant.                          *)
PaydayIsNextAndMovesOn ==
  OfDates => \A weekdays \in {{3, 4}, {0}, {2}, {6}, {0, 1, 2, 3, 4, 5, 6}} :
    LET next == NextPayday(at, weekdays) IN
      /\ next \in (at + 1)..(at + 7 * 24)
      /\ LocalHour(next) = 8 /\ Weekday(LocalDate(next)) \in weekdays
      /\ \A t \in (at + 1)..(next - 1) :
           ~ (LocalHour(t) = 8 /\ Weekday(LocalDate(t)) \in weekdays)
      /\ NextPayday(next, weekdays) > next

(* The monthly step lands in the very next month, at the same local hour,  *)
(* on the same day or, when that month is too short, on its last one.      *)
MonthStepKeepsBillingDay ==
  OfDates =>
  LET to == NextMonthEquivalent(at)
      from == LocalDate(at)   date == LocalDate(to)
  IN /\ LocalHour(to) = LocalHour(at)
     /\ (MonthOf(date) - MonthOf(from)) % 12 = 1
     /\ date - from \in 28..31
     /\ DayOf(date) = DayOf(from) \/ MonthOf(date + 1) # MonthOf(date)

(* Four substituted holidays close four different days, whatever weekdays  *)
(* they fall on, and none is lost to another's Monday.  The year in which  *)
(* Christmas is a Sunday is excepted: Boxing Day is then a Monday, and     *)
(* holidays.py lets both be observed on it.                                *)
SubstitutesAreApart ==
  OfDates =>
    LET y == YearOf(LocalDate(at))   s == Substituted(y) IN
      Weekday(Date(y, 12, 25)) # 6 =>
        /\ Cardinality({s[name] : name \in DOMAIN s}) = 4
        /\ \A name \in DOMAIN s : Weekday(s[name]) < Saturday

-----------------------------------------------------------------------------
Class == Classify(payment.code)

Planned(action) == {i \in DOMAIN plan : plan[i].action = action /\ plan[i].at # NoTime}

Closing == plan[Len(plan)].at

(* Non-negotiable 6: every retry is on a day the banks are open, after the *)
(* failure, and none is due after the file closes, whichever of the fixed  *)
(* interval, the payday or the monthly step chose its date.                *)
RetriesOnOpenDays ==
  \A i \in Planned("retry") :
    /\ IsBusinessDay(LocalDate(plan[i].at))
    /\ plan[i].at > at /\ plan[i].at <= Closing

(* Alignment and holidays never push two retries of a ladder together:     *)
(* they keep the action's own delay (a day, or five on paydays).  A ladder *)
(* with a monthly step does not: its third date is counted from the        *)
(* failure.                                                                *)
RetriesKeepInterval ==
  OfPlans /\ ~ payment.monthly =>
    \A i, j \in Planned("retry") :
      i < j => plan[i].at + StrategyTable[Class].retry.delay <= plan[j].at

(* At most one message per day reaches the customer, the last one before   *)
(* this failure included, whatever holds the offer back.                   *)
MessagesADayApart ==
  LET contacts == {i \in DOMAIN plan : plan[i].channel # "none" /\ plan[i].at # NoTime}
  IN /\ \A i, j \in contacts : i < j => plan[i].at + MessageGap <= plan[j].at
     /\ customer.contact # NoTime =>
          \A i \in contacts : customer.contact + MessageGap <= plan[i].at

(* strategies.yaml: the 35-day horizon applies only when the monthly       *)
(* attempt is really scheduled, it is not a longer life for large amounts. *)
(* A month and a roll of five days are 36: where Easter is on 23 April the *)
(* attempt of a failure on 21 March is planned past the horizon.           *)
LongHorizonIsUsed ==
  OfPlans /\ Closing = at + MonthlyWriteOffAfter /\ ~ LongEaster(YearOf(LocalDate(at))) =>
    \E i \in Planned("retry") : plan[i].at > at + WriteOffAfter
=============================================================================
