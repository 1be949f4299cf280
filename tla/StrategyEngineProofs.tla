------------------------ MODULE StrategyEngineProofs ------------------------
(***************************************************************************)
(* The calendar and the plans for every date, customer and table of        *)
(* holidays: what the helpers of Calendar return, what a plan looks like,  *)
(* and the distances its attempts keep.                                    *)
(***************************************************************************)
EXTENDS MCStrategyEngine, FiniteSetTheorems, TLAPS

-----------------------------------------------------------------------------
(* Induction over the naturals, for a set: the intervals up to the numbers *)
(* that are missing would be an endless descent of finite sets.            *)
LEMMA SetInduction ==
  ASSUME NEW S, 0 \in S, \A n \in Nat : n \in S => n + 1 \in S
  PROVE  \A n \in Nat : n \in S
<1>. DEFINE T == {0..x : x \in Nat \ S}
<1>1. SUFFICES ASSUME T # {} PROVE FALSE OBVIOUS
<1>2. T \subseteq FiniteSubsetsOf(Nat)
  <2>. SUFFICES ASSUME NEW x \in Nat PROVE 0..x \in FiniteSubsetsOf(Nat) OBVIOUS
  <2>. QED BY FS_Interval DEF FiniteSubsetsOf
<1>3. \E m \in T : \A t \in T : ~ (<<t, m>> \in StrictSubsetOrdering(Nat))
  <2>. HIDE DEF T
  <2>. QED BY <1>1, <1>2, WFMin, FS_StrictSubsetOrderingWellFounded
<1>4. PICK x \in Nat \ S : \A t \in T : ~ (<<t, 0..x>> \in StrictSubsetOrdering(Nat))
  BY <1>3
<1>5. x - 1 \in Nat \ S OBVIOUS
<1>6. 0..(x - 1) \in T BY <1>5
<1>7. <<0..(x - 1), 0..x>> \in StrictSubsetOrdering(Nat) BY <1>5 DEF StrictSubsetOrdering
<1>. QED BY <1>4, <1>6, <1>7

(* A set of numbers with a lower bound has an earliest one. *)
LEMMA EarliestExists ==
  ASSUME NEW S \in SUBSET Int, S # {}, NEW low \in Int, \A x \in S : low <= x
  PROVE  EarliestOf(S) \in S /\ \A y \in S : EarliestOf(S) <= y
<1>1. \E x \in S : \A y \in S : x <= y
  <2>. SUFFICES ASSUME \A x \in S : \E y \in S : y < x PROVE FALSE OBVIOUS
  <2>. DEFINE T == {n \in Nat : \A x \in S : low + n < x}
  <2>1. 0 \in T OBVIOUS
  <2>2. \A n \in Nat : n \in T => n + 1 \in T
    <3>. SUFFICES ASSUME NEW n \in T, NEW x \in S PROVE low + n + 1 < x OBVIOUS
    <3>1. PICK y \in S : y < x OBVIOUS
    <3>. QED BY <3>1
  <2>3. \A n \in Nat : n \in T
    <3>. HIDE DEF T
    <3>. QED BY <2>1, <2>2, SetInduction
  <2>4. PICK x \in S : TRUE OBVIOUS
  <2>5. x - low \in Nat OBVIOUS
  <2>. QED BY <2>3, <2>5
<1>. QED BY <1>1 DEF EarliestOf

StepsOf(n, V) == [1..n -> [V -> V]]

Follows(f, n, V, zero, step) ==
  /\ f \in [0..n -> V]
  /\ f[0] = zero /\ \A i \in 1..n : f[i] = step[i][f[i - 1]]

(* A function of 0..n may be defined step by step. *)
LEMMA StepwiseExists ==
  ASSUME NEW n \in Nat, NEW V, NEW zero \in V, NEW step \in StepsOf(n, V)
  PROVE  \E f : Follows(f, n, V, zero, step)
<1>. DEFINE Fits(f, k) == f[0] = zero /\ \A i \in 1..k : f[i] = step[i][f[i - 1]]
            K == {k \in Nat : k <= n => \E f \in [0..k -> V] : Fits(f, k)}
<1>1. 0 \in K
  <2>1. [i \in 0..0 |-> zero] \in [0..0 -> V] /\ Fits([i \in 0..0 |-> zero], 0) OBVIOUS
  <2>. QED BY <2>1
<1>2. \A k \in Nat : k \in K => k + 1 \in K
  <2>. SUFFICES ASSUME NEW k \in Nat, k \in K, k + 1 <= n
       PROVE  \E g \in [0..(k + 1) -> V] : Fits(g, k + 1)
    <3>. HIDE DEF Fits
    <3>. QED OBVIOUS
  <2>0. PICK f \in [0..k -> V] : Fits(f, k) OBVIOUS
  <2>. DEFINE g == [i \in 0..(k + 1) |-> IF i <= k THEN f[i] ELSE step[k + 1][f[k]]]
  <2>1. k + 1 \in 1..n /\ f[k] \in V OBVIOUS
  <2>2. step[k + 1][f[k]] \in V BY <2>1 DEF StepsOf
  <2>3. g \in [0..(k + 1) -> V] BY <2>2
  <2>4. g[0] = zero BY <2>0
  <2>5. \A i \in 0..k : g[i] = f[i] OBVIOUS
  <2>6. \A i \in 1..k : g[i] = step[i][g[i - 1]]
    <3>. HIDE DEF g
    <3>. TAKE i \in 1..k
    <3>1. i \in 0..k /\ i - 1 \in 0..k OBVIOUS
    <3>2. f[i] = step[i][f[i - 1]] BY <2>0
    <3>. QED BY <2>5, <3>1, <3>2
  <2>7. g[k + 1] = step[k + 1][g[k]] OBVIOUS
  <2>8. \A i \in 1..(k + 1) : i \in 1..k \/ i = k + 1 OBVIOUS
  <2>9. Fits(g, k + 1)
    <3>. HIDE DEF g
    <3>1. \A i \in 1..(k + 1) : g[i] = step[i][g[i - 1]]
      <4>. TAKE i \in 1..(k + 1)
      <4>1. CASE i \in 1..k BY <2>6, <4>1
      <4>2. CASE i = k + 1
        <5>1. i - 1 = k BY <4>2
        <5>. QED BY <2>7, <4>2, <5>1
      <4>. QED BY <2>8, <4>1, <4>2
    <3>. QED BY <2>4, <3>1
  <2>. QED BY <2>3, <2>9
<1>3. n \in K
  <2>. HIDE DEF K
  <2>. QED BY <1>1, <1>2, SetInduction
<1>. QED BY <1>3 DEF Follows

-----------------------------------------------------------------------------
(* Local dates and hours split an instant. *)
LEMMA InstantSplits ==
  ASSUME NEW t \in Int
  PROVE  /\ LocalDate(t) \in Int /\ LocalHour(t) \in 0..23
         /\ Instant(LocalDate(t), LocalHour(t)) = t
BY DEF LocalDate, LocalHour, Instant, AEST

LEMMA InstantJoins ==
  ASSUME NEW d \in Int, NEW h \in 0..23
  PROVE  /\ Instant(d, h) \in Int
         /\ LocalDate(Instant(d, h)) = d /\ LocalHour(Instant(d, h)) = h
BY DEF LocalDate, LocalHour, Instant, AEST

(* The search for an open day stops at the first one, or after 14 days. *)
LEMMA NextBusinessDayIsFirst ==
  ASSUME NEW d \in Int
  PROVE  /\ NextBusinessDay(d) \in d..(d + SearchDays)
         /\ NextBusinessDay(d) # d + SearchDays => IsBusinessDay(NextBusinessDay(d))
         /\ \A x \in d..(NextBusinessDay(d) - 1) : ~ IsBusinessDay(x)
<1>. DEFINE open == {x \in d..(d + SearchDays - 1) : IsBusinessDay(x)}
<1>1. CASE open = {}
  <2>1. NextBusinessDay(d) = d + SearchDays BY <1>1 DEF NextBusinessDay
  <2>. QED BY <1>1, <2>1 DEF SearchDays
<1>2. CASE open # {}
  <2>1. NextBusinessDay(d) = EarliestOf(open) BY <1>2 DEF NextBusinessDay
  <2>2. open \in SUBSET Int /\ \A x \in open : d <= x BY DEF SearchDays
  <2>3. EarliestOf(open) \in open /\ \A y \in open : EarliestOf(open) <= y
    <3>. HIDE DEF open
    <3>. QED BY <1>2, <2>2, EarliestExists
  <2>. QED BY <2>1, <2>3 DEF SearchDays
<1>. QED BY <1>1, <1>2

(* holidays.py, roll_to_business_day: a roll goes forward by whole days,   *)
(* passes no open day, and lands on an open one unless the fourteen days   *)
(* it searches are all closed.                                             *)
LEMMA RollIsForward ==
  ASSUME NEW t \in Int
  PROVE  /\ RollToBusinessDay(t) \in Int
         /\ LocalDate(RollToBusinessDay(t)) = NextBusinessDay(LocalDate(t))
         /\ LocalHour(RollToBusinessDay(t)) = LocalHour(t)
         /\ \E n \in 0..SearchDays : RollToBusinessDay(t) = t + 24 * n
<1>. DEFINE d == LocalDate(t)
            h == LocalHour(t)
            b == NextBusinessDay(d)
<1>1. d \in Int /\ h \in 0..23 /\ Instant(d, h) = t BY InstantSplits
<1>2. RollToBusinessDay(t) = Instant(b, h) BY DEF RollToBusinessDay
<1>. HIDE DEF d, h
<1>3. b \in d..(d + SearchDays) BY <1>1, NextBusinessDayIsFirst
<1>. HIDE DEF b
<1>4. b \in Int /\ b - d \in 0..SearchDays BY <1>1, <1>3 DEF SearchDays
<1>5. Instant(b, h) = t + 24 * (b - d) BY <1>1, <1>4 DEF Instant, AEST
<1>6. Instant(b, h) \in Int /\ LocalDate(Instant(b, h)) = b /\ LocalHour(Instant(b, h)) = h
  BY <1>1, <1>4, InstantJoins
<1>. QED BY <1>2, <1>4, <1>5, <1>6 DEF b, d, h

(* scheduler.py, next_payday: the next morning of one of the weekdays,     *)
(* strictly later and at most a week away.                                 *)
LEMMA NextPaydayIsNext ==
  ASSUME NEW t \in Int, NEW weekdays \in SUBSET (0..6), weekdays # {}
  PROVE  LET next == NextPayday(t, weekdays) IN
         /\ next \in (t + 1)..(t + 7 * 24)
         /\ LocalHour(next) = PaydayHour /\ Weekday(LocalDate(next)) \in weekdays
         /\ \A u \in (t + 1)..(next - 1) :
              ~ (LocalHour(u) = PaydayHour /\ Weekday(LocalDate(u)) \in weekdays)
<1>. DEFINE date == LocalDate(t)
            days == {p \in 0..(PaydaySearchDays - 1) : Weekday(date + p) \in weekdays}
            mornings == {Instant(date + o, PaydayHour) : o \in days}
            later == {m \in mornings : m > t}
            next == EarliestOf(later)
<1>1. date \in Int /\ LocalHour(t) \in 0..23 /\ t = 24 * date + LocalHour(t) - 10
  BY InstantSplits DEF Instant, AEST
<1>. HIDE DEF date
<1>2. \A o \in days : /\ o \in 0..14 /\ Instant(date + o, PaydayHour) = 24 * (date + o) - 2
                      /\ Weekday(date + o) \in weekdays
  BY <1>1 DEF Instant, PaydayHour, AEST, PaydaySearchDays
<1>3. later \in SUBSET Int /\ \A m \in later : t <= m
  <2>1. \A m \in mornings : m \in Int
    <3>. TAKE m \in mornings
    <3>1. PICK o \in days : m = Instant(date + o, PaydayHour) OBVIOUS
    <3>. QED BY <1>1, <1>2, <3>1
  <2>. QED BY <2>1
(* Some day of the coming week is a payday, the eighth if only today is. *)
<1>4. \E m \in later : m <= t + 7 * 24
  <2>1. PICK w \in weekdays : TRUE OBVIOUS
  <2>2. w \in 0..6 OBVIOUS
  <2>. DEFINE k == (w - Weekday(date)) % 7
              o == IF 24 * (date + k) - 2 > t THEN k ELSE k + 7
  <2>3. Weekday(date) \in 0..6 BY <1>1 DEF Weekday
  <2>4. k \in 0..6 BY <2>2, <2>3
  <2>5. Weekday(date + k) = w /\ Weekday(date + k + 7) = w BY <1>1, <2>2, <2>3 DEF Weekday
  <2>. HIDE DEF k
  <2>6. /\ o \in 0..13 /\ 24 * (date + o) - 2 > t /\ 24 * (date + o) - 2 <= t + 7 * 24
        /\ Weekday(date + o) = w
    BY <1>1, <2>4, <2>5
  <2>. HIDE DEF o
  <2>7. o \in days BY <2>6 DEF PaydaySearchDays
  <2>8. Instant(date + o, PaydayHour) \in mornings BY <2>7
  <2>. QED BY <1>2, <2>6, <2>7, <2>8
<1>5. next \in later /\ \A m \in later : next <= m
  <2>. HIDE DEF later
  <2>. QED BY <1>3, <1>4, EarliestExists
<1>6. NextPayday(t, weekdays) = next BY <1>4 DEF NextPayday, date
<1>7. PICK o \in days : next = Instant(date + o, PaydayHour) BY <1>5
<1>8. next \in (t + 1)..(t + 7 * 24)
  <2>. HIDE DEF next, later
  <2>1. next \in Int BY <1>3, <1>5
  <2>2. next > t BY <1>5 DEF later
  <2>3. \A m \in later : m \in Int BY <1>3
  <2>. QED BY <1>4, <1>5, <2>1, <2>2, <2>3
<1>9. LocalHour(next) = PaydayHour /\ Weekday(LocalDate(next)) \in weekdays
  <2>. HIDE DEF next
  <2>. QED BY <1>1, <1>2, <1>7, InstantJoins DEF PaydayHour
<1>10. ASSUME NEW u \in (t + 1)..(next - 1),
              LocalHour(u) = PaydayHour, Weekday(LocalDate(u)) \in weekdays
       PROVE  FALSE
  <2>. DEFINE p == LocalDate(u) - date
  <2>. HIDE DEF next
  <2>1. u \in Int /\ LocalDate(u) \in Int /\ u = 24 * LocalDate(u) + 8 - 10
    BY <1>8, <1>10, InstantSplits DEF Instant, PaydayHour, AEST
  <2>2. p \in 0..14 /\ date + p = LocalDate(u) BY <1>1, <1>2, <1>7, <1>8, <2>1
  <2>. HIDE DEF p
  <2>3. p \in days BY <1>10, <2>2 DEF PaydaySearchDays
  <2>4. u \in mornings BY <1>2, <2>1, <2>2, <2>3
  <2>5. u \in later BY <2>4
  <2>. QED BY <1>5, <1>8, <2>5
<1>. QED BY <1>6, <1>8, <1>9, <1>10

-----------------------------------------------------------------------------
(* The Gregorian calendar: years and months divide the dates. *)
Years == Nat \ {0}
Dates1 == Nat \ {0}

LeapDay(y) == IF IsLeap(y) THEN 1 ELSE 0

LEMMA YearLength ==
  ASSUME NEW y \in Years
  PROVE  /\ DaysBeforeYear(y) \in Nat
         /\ DaysBeforeYear(y + 1) = DaysBeforeYear(y) + 365 + LeapDay(y)
         /\ 365 * (y - 1) <= DaysBeforeYear(y) /\ DaysBeforeYear(y) <= 366 * (y - 1)
<1>1. /\ y \div 4 = (y - 1) \div 4 + (IF y % 4 = 0 THEN 1 ELSE 0)
      /\ y \div 100 = (y - 1) \div 100 + (IF y % 100 = 0 THEN 1 ELSE 0)
      /\ y \div 400 = (y - 1) \div 400 + (IF y % 400 = 0 THEN 1 ELSE 0)
  BY DEF Years
<1>2. (y % 400 = 0 => y % 100 = 0) /\ (y % 100 = 0 => y % 4 = 0) BY DEF Years
<1>3. (y + 1) - 1 = y BY DEF Years
<1>. QED BY <1>1, <1>2, <1>3 DEF Years, DaysBeforeYear, LeapDay, IsLeap

LEMMA YearsFollow ==
  ASSUME NEW y \in Years, NEW z \in Years, y < z
  PROVE  DaysBeforeYear(y + 1) <= DaysBeforeYear(z)
BY DEF Years, DaysBeforeYear

(* The range YearOf searches holds exactly one year that fits. *)
LEMMA YearOfIsTheYear ==
  ASSUME NEW date \in Dates1
  PROVE  /\ YearOf(date) \in Years
         /\ DaysBeforeYear(YearOf(date)) < date /\ date <= DaysBeforeYear(YearOf(date) + 1)
         /\ \A y \in Years : DaysBeforeYear(y) < date /\ date <= DaysBeforeYear(y + 1)
                               => y = YearOf(date)
<1>. DEFINE Fits(y) == DaysBeforeYear(y) < date /\ date <= DaysBeforeYear(y + 1)
            range == (date \div 366)..(date \div 365 + 1)
<1>1. \E y \in Years : Fits(y)
  <2>. DEFINE S == {y \in Years : date <= DaysBeforeYear(y + 1)}
  <2>1. date + 1 \in S
    <3>1. date + 1 \in Years /\ (date + 1) + 1 \in Years BY DEF Years, Dates1
    <3>2. /\ 365 * (((date + 1) + 1) - 1) <= DaysBeforeYear((date + 1) + 1)
          /\ DaysBeforeYear((date + 1) + 1) \in Nat
      BY <3>1, YearLength
    <3>3. date <= 365 * (((date + 1) + 1) - 1) BY DEF Dates1
    <3>4. date <= DaysBeforeYear((date + 1) + 1) BY <3>2, <3>3 DEF Dates1
    <3>. QED BY <3>1, <3>4
  <2>2. S \in SUBSET Int /\ \E low \in Int : \A y \in S : low <= y BY DEF Years
  <2>. DEFINE y == EarliestOf(S)
  <2>3. y \in S /\ \A z \in S : y <= z
    <3>. HIDE DEF S
    <3>. QED BY <2>1, <2>2, EarliestExists
  <2>. HIDE DEF y
  <2>4. DaysBeforeYear(y) < date
    <3>1. CASE y = 1 BY <3>1 DEF DaysBeforeYear, Dates1
    <3>2. CASE y # 1
      <4>1. y - 1 \in Years /\ (y - 1) + 1 = y BY <2>3, <3>2 DEF Years
      <4>2. y - 1 \notin S BY <2>3, <4>1 DEF Years
      <4>3. ~ (date <= DaysBeforeYear(y)) BY <4>1, <4>2
      <4>. QED BY <2>3, <4>3, YearLength DEF Dates1
    <3>. QED BY <3>1, <3>2
  <2>. QED BY <2>3, <2>4
<1>2. \A y \in Years : Fits(y) => y \in range
  <2>. SUFFICES ASSUME NEW y \in Years, Fits(y) PROVE y \in range OBVIOUS
  <2>1. y + 1 \in Years BY DEF Years
  <2>2. 365 * (y - 1) < date
    BY YearLength DEF Years, Dates1
  <2>3. date <= 366 * y
    <3>1. DaysBeforeYear(y + 1) \in Nat /\ DaysBeforeYear(y + 1) <= 366 * ((y + 1) - 1)
      BY <2>1, YearLength
    <3>. QED BY <3>1 DEF Years, Dates1
  <2>. QED BY <2>2, <2>3 DEF Years, Dates1
<1>3. \A y \in range : Fits(y) => y \in Years
  <2>. SUFFICES ASSUME NEW y \in range, Fits(y), y = 0 PROVE FALSE
    BY DEF Years, Dates1
  <2>. QED BY DEF DaysBeforeYear, Dates1
<1>4. \A y, z \in Years : Fits(y) /\ Fits(z) => y = z
  <2>. SUFFICES ASSUME NEW y \in Years, NEW z \in Years, Fits(y), Fits(z), y < z PROVE FALSE
    BY DEF Years
  <2>1. y + 1 \in Years BY DEF Years
  <2>. QED BY <2>1, YearsFollow, YearLength DEF Dates1
<1>5. YearOf(date) = CHOOSE y \in range : Fits(y) BY DEF YearOf
<1>6. \E y \in range : Fits(y) BY <1>1, <1>2
<1>. HIDE DEF range, Fits
<1>7. YearOf(date) \in range /\ Fits(YearOf(date)) BY <1>5, <1>6
<1>8. YearOf(date) \in Years BY <1>3, <1>7
<1>. QED BY <1>4, <1>7, <1>8 DEF Fits

LEMMA MonthTable ==
  ASSUME NEW y \in Years
  PROVE  /\ DaysBeforeMonth(y, 1) = 0 /\ DaysBeforeMonth(y, 2) = 31
         /\ DaysBeforeMonth(y, 3) = 59 + LeapDay(y) /\ DaysBeforeMonth(y, 4) = 90 + LeapDay(y)
         /\ DaysBeforeMonth(y, 5) = 120 + LeapDay(y) /\ DaysBeforeMonth(y, 6) = 151 + LeapDay(y)
         /\ DaysBeforeMonth(y, 7) = 181 + LeapDay(y) /\ DaysBeforeMonth(y, 8) = 212 + LeapDay(y)
         /\ DaysBeforeMonth(y, 9) = 243 + LeapDay(y) /\ DaysBeforeMonth(y, 10) = 273 + LeapDay(y)
         /\ DaysBeforeMonth(y, 11) = 304 + LeapDay(y) /\ DaysBeforeMonth(y, 12) = 334 + LeapDay(y)
         /\ \A m \in 1..12 : DaysIn(y, m) = IF m = 2 THEN 28 + LeapDay(y)
                                            ELSE IF m \in {4, 6, 9, 11} THEN 30 ELSE 31
BY DEF DaysBeforeMonth, DaysIn, LeapDay

LEMMA MonthsFollow ==
  ASSUME NEW y \in Years, NEW m \in 1..12
  PROVE  /\ DaysBeforeMonth(y, m) \in 0..(334 + LeapDay(y)) /\ DaysIn(y, m) \in 28..31
         /\ DaysBeforeMonth(y, m) + DaysIn(y, m) <= 365 + LeapDay(y)
         /\ \A n \in 1..12 : m < n => DaysBeforeMonth(y, m) + DaysIn(y, m) <= DaysBeforeMonth(y, n)
         /\ m < 12 => DaysBeforeMonth(y, m) + DaysIn(y, m) = DaysBeforeMonth(y, m + 1)
         /\ m = 12 => DaysBeforeMonth(y, m) + DaysIn(y, m) = 365 + LeapDay(y)
<1>1. LeapDay(y) \in 0..1 BY DEF LeapDay
<1>2. \A n \in 1..12 : n = 1 \/ n = 2 \/ n = 3 \/ n = 4 \/ n = 5 \/ n = 6 \/ n = 7 \/ n = 8
                        \/ n = 9 \/ n = 10 \/ n = 11 \/ n = 12
  OBVIOUS
<1>. QED BY <1>1, <1>2, MonthTable

(* A date has one year, month and day: Date and YearOf, MonthOf, DayOf are *)
(* inverses of each other.                                                 *)
LEMMA DateSplits ==
  ASSUME NEW date \in Dates1
  PROVE  /\ YearOf(date) \in Years /\ MonthOf(date) \in 1..12
         /\ DayOf(date) \in 1..DaysIn(YearOf(date), MonthOf(date))
         /\ Date(YearOf(date), MonthOf(date), DayOf(date)) = date
<1>. DEFINE y == YearOf(date)
            inYear == date - DaysBeforeYear(y)
            Fits(m) == /\ DaysBeforeMonth(y, m) < inYear
                       /\ inYear <= DaysBeforeMonth(y, m) + DaysIn(y, m)
<1>1. y \in Years /\ DaysBeforeYear(y) < date /\ date <= DaysBeforeYear(y + 1)
  BY YearOfIsTheYear
<1>2. MonthOf(date) = CHOOSE m \in 1..12 : Fits(m) BY DEF MonthOf
<1>. HIDE DEF y
<1>3. inYear \in 1..(365 + LeapDay(y)) /\ LeapDay(y) \in 0..1
  BY <1>1, YearLength DEF LeapDay, Dates1
<1>4. \E m \in 1..12 : Fits(m)
  <2>. HIDE DEF inYear
  <2>1. \/ Fits(1) \/ Fits(2) \/ Fits(3) \/ Fits(4) \/ Fits(5) \/ Fits(6) \/ Fits(7)
        \/ Fits(8) \/ Fits(9) \/ Fits(10) \/ Fits(11) \/ Fits(12)
    BY <1>1, <1>3, MonthTable
  <2>. QED BY <2>1
<1>. DEFINE m == MonthOf(date)
<1>. HIDE DEF Fits
<1>5. m \in 1..12 /\ Fits(m) BY <1>2, <1>4
<1>. HIDE DEF m
<1>6. DaysBeforeMonth(y, m) \in Int /\ DaysBeforeYear(y) \in Int /\ DaysIn(y, m) \in Int
  BY <1>1, <1>5, MonthsFollow, YearLength
<1>7. DayOf(date) = date - (DaysBeforeYear(y) + DaysBeforeMonth(y, m))
  BY <1>6 DEF DayOf, Date, y, m, Dates1
<1>8. DayOf(date) \in 1..DaysIn(y, m) BY <1>5, <1>6, <1>7 DEF Fits, Dates1
<1>9. Date(y, m, DayOf(date)) = date BY <1>6, <1>7 DEF Date, Dates1
<1>. QED BY <1>1, <1>5, <1>8, <1>9 DEF y, m

LEMMA DateJoins ==
  ASSUME NEW y \in Years, NEW m \in 1..12, NEW d \in 1..DaysIn(y, m)
  PROVE  /\ Date(y, m, d) \in Dates1
         /\ YearOf(Date(y, m, d)) = y /\ MonthOf(Date(y, m, d)) = m /\ DayOf(Date(y, m, d)) = d
<1>. DEFINE date == Date(y, m, d)
            day == DaysBeforeMonth(y, m) + d
<1>1. LeapDay(y) \in 0..1 BY DEF LeapDay
<1>2. DaysIn(y, m) \in 28..31 /\ DaysBeforeMonth(y, m) \in Nat /\ day \in 1..(365 + LeapDay(y))
  BY <1>1, MonthsFollow
<1>3. date = DaysBeforeYear(y) + day /\ date \in Dates1
  BY <1>1, <1>2, YearLength DEF Date, Dates1
<1>. HIDE DEF date
<1>4. DaysBeforeYear(y) < date /\ date <= DaysBeforeYear(y + 1)
  BY <1>1, <1>2, <1>3, YearLength DEF Dates1
<1>5. YearOf(date) = y BY <1>3, <1>4, YearOfIsTheYear
<1>. DEFINE n == MonthOf(date)
            k == DayOf(date)
<1>6. n \in 1..12 /\ k \in 1..DaysIn(y, n) /\ Date(y, n, k) = date
  BY <1>3, <1>5, DateSplits
<1>. HIDE DEF n, k
<1>7. DaysIn(y, n) \in 28..31 /\ DaysBeforeMonth(y, n) \in Nat BY <1>6, MonthsFollow
<1>8. DaysBeforeMonth(y, n) + k = DaysBeforeMonth(y, m) + d
  BY <1>2, <1>3, <1>6, <1>7, YearLength DEF Date
<1>9. n = m
  <2>1. ~ (n < m) BY <1>2, <1>6, <1>7, <1>8, MonthsFollow
  <2>2. ~ (m < n) BY <1>2, <1>6, <1>7, <1>8, MonthsFollow
  <2>. QED BY <1>6, <2>1, <2>2
<1>10. k = d BY <1>2, <1>6, <1>7, <1>8, <1>9
<1>. QED BY <1>3, <1>5, <1>9, <1>10 DEF date, n, k

(* scheduler.py, next_month_equivalent: the very next month, the same day  *)
(* or, where that month is too short, its last, at the same local hour.    *)
LEMMA MonthStepIsAMonth ==
  ASSUME NEW t \in Nat, LocalDate(t) \in Dates1
  PROVE  LET to == NextMonthEquivalent(t)
             from == LocalDate(t)   date == LocalDate(to)
         IN /\ to \in Nat /\ LocalHour(to) = LocalHour(t)
            /\ date \in Dates1 /\ date - from \in 28..31
            /\ (MonthOf(date) - MonthOf(from)) % 12 = 1
            /\ DayOf(date) = DayOf(from) \/ MonthOf(date + 1) # MonthOf(date)
<1>. DEFINE from == LocalDate(t)
            y0 == YearOf(from)   m0 == MonthOf(from)   d0 == DayOf(from)
            y == y0 + m0 \div 12
            m == (m0 % 12) + 1
            Clamped(d) == d <= DaysIn(y, m) /\ (d < d0 => d >= 28 /\ d + 1 > DaysIn(y, m))
            day == CHOOSE d \in 1..d0 : Clamped(d)
            date == Date(y, m, day)
<1>1. from \in Dates1 /\ t \in Int OBVIOUS
<1>2. NextMonthEquivalent(t) = Instant(date, LocalHour(t)) BY DEF NextMonthEquivalent
<1>. HIDE DEF from
<1>3. y0 \in Years /\ m0 \in 1..12 /\ d0 \in 1..DaysIn(y0, m0) /\ Date(y0, m0, d0) = from
  BY <1>1, DateSplits
<1>. HIDE DEF y0, m0, d0
<1>4. DaysIn(y0, m0) \in 28..31 BY <1>3, MonthsFollow
<1>5. y \in Years /\ m \in 1..12 /\ m0 \div 12 = (IF m0 = 12 THEN 1 ELSE 0)
      /\ m = (IF m0 = 12 THEN 1 ELSE m0 + 1)
  BY <1>3 DEF Years
<1>6. DaysIn(y, m) \in 28..31
  <2>. HIDE DEF y, m
  <2>. QED BY <1>5, MonthsFollow
<1>7. day \in 1..d0 /\ Clamped(day)
  <2>1. \E d \in 1..d0 : Clamped(d)
    <3>. HIDE DEF y, m
    <3>1. CASE d0 <= DaysIn(y, m) BY <1>3, <1>4, <1>6, <3>1
    <3>2. CASE d0 > DaysIn(y, m) BY <1>3, <1>4, <1>6, <3>2
    <3>. QED BY <1>3, <1>4, <1>6, <3>1, <3>2
  <2>. HIDE DEF Clamped
  <2>. QED BY <2>1
<1>. HIDE DEF day
<1>8. day \in 1..DaysIn(y, m) /\ (day = d0 \/ day = DaysIn(y, m))
  <2>. HIDE DEF y, m
  <2>. QED BY <1>3, <1>4, <1>6, <1>7
<1>9. date \in Dates1 /\ YearOf(date) = y /\ MonthOf(date) = m /\ DayOf(date) = day
  <2>. HIDE DEF y, m
  <2>. QED BY <1>5, <1>8, DateJoins
<1>10. date - from \in 28..31
  <2>1. LeapDay(y0) \in 0..1 /\ DaysBeforeYear(y0) \in Nat BY <1>3, YearLength DEF LeapDay
  <2>2. from = DaysBeforeYear(y0) + DaysBeforeMonth(y0, m0) + d0 BY <1>3 DEF Date
  <2>3. CASE m0 = 12
    <3>1. y = y0 + 1 /\ m = 1 BY <1>3, <1>5, <2>3 DEF Years
    <3>2. DaysBeforeYear(y) = DaysBeforeYear(y0) + 365 + LeapDay(y0) BY <1>3, <3>1, YearLength
    <3>3. DaysBeforeMonth(y, m) = 0 /\ DaysBeforeMonth(y0, m0) = 334 + LeapDay(y0)
          /\ DaysIn(y, m) = 31
      <4>. HIDE DEF y, m
      <4>. QED BY <1>3, <1>5, <2>3, <3>1, MonthTable
    <3>4. day = d0
      <4>. HIDE DEF y, m
      <4>. QED BY <1>3, <1>4, <1>7, <1>8, <3>3
    <3>5. date = DaysBeforeYear(y) + DaysBeforeMonth(y, m) + day BY DEF Date
    <3>. HIDE DEF y, m, date
    <3>. QED BY <1>3, <1>4, <2>1, <2>2, <3>2, <3>3, <3>4, <3>5
  <2>4. CASE m0 # 12
    <3>1. y = y0 /\ m = m0 + 1 BY <1>3, <1>5, <2>4 DEF Years
    <3>2. DaysBeforeMonth(y, m) = DaysBeforeMonth(y0, m0) + DaysIn(y0, m0)
          /\ DaysBeforeMonth(y0, m0) \in Int
      BY <1>3, <2>1, <2>4, <3>1, MonthsFollow
    <3>3. date = DaysBeforeYear(y0) + DaysBeforeMonth(y, m) + day BY <3>1 DEF Date
    <3>4. date - from = DaysIn(y0, m0) + day - d0
      <4>. HIDE DEF y, m, date
      <4>. QED BY <1>3, <1>4, <1>7, <2>1, <2>2, <3>2, <3>3
    <3>5. DaysIn(y0, m0) + day - d0 \in 28..31
      <4>. HIDE DEF y, m, date
      <4>. QED BY <1>3, <1>4, <1>6, <1>7, <1>8
    <3>. QED BY <3>4, <3>5
  <2>. QED BY <2>3, <2>4
<1>11. (m - m0) % 12 = 1 BY <1>3, <1>5
<1>12. day = d0 \/ MonthOf(date + 1) # m
  <2>. SUFFICES ASSUME day # d0 PROVE MonthOf(date + 1) # m OBVIOUS
  <2>1. day = DaysIn(y, m)
    <3>. HIDE DEF y, m
    <3>. QED BY <1>8
  <2>. HIDE DEF date
  <2>2. date + 1 \in Dates1 BY <1>9 DEF Dates1
  <2>. DEFINE y2 == YearOf(date + 1)   m2 == MonthOf(date + 1)   d2 == DayOf(date + 1)
  <2>3. y2 \in Years /\ m2 \in 1..12 /\ d2 \in 1..DaysIn(y2, m2) /\ Date(y2, m2, d2) = date + 1
    BY <2>2, DateSplits
  <2>. HIDE DEF y2, m2, d2, y, m
  <2>. SUFFICES ASSUME m2 = m PROVE FALSE BY DEF m2
  <2>4. date = Date(y, m, DaysIn(y, m)) BY <2>1 DEF date
  <2>5. LeapDay(y) \in 0..1 /\ DaysBeforeYear(y) \in Nat /\ DaysBeforeMonth(y, m) \in Nat
        /\ DaysBeforeMonth(y, m) + DaysIn(y, m) <= 365 + LeapDay(y)
        /\ DaysBeforeYear(y + 1) = DaysBeforeYear(y) + 365 + LeapDay(y)
    BY <1>5, YearLength, MonthsFollow DEF LeapDay
  <2>6. LeapDay(y2) \in 0..1 /\ DaysBeforeYear(y2) \in Nat /\ DaysBeforeMonth(y2, m) \in Nat
        /\ DaysIn(y2, m) \in 28..31
    BY <2>3, YearLength, MonthsFollow DEF LeapDay
  <2>7. DaysBeforeYear(y2) + DaysBeforeMonth(y2, m) + d2
          = DaysBeforeYear(y) + DaysBeforeMonth(y, m) + DaysIn(y, m) + 1
    BY <1>6, <2>3, <2>4, <2>5, <2>6 DEF Date, m2
  <2>8. CASE y2 = y BY <1>6, <2>3, <2>5, <2>6, <2>7, <2>8
  <2>9. CASE y2 < y
    <3>1. DaysBeforeYear(y2 + 1) <= DaysBeforeYear(y)
          /\ DaysBeforeYear(y2 + 1) = DaysBeforeYear(y2) + 365 + LeapDay(y2)
          /\ DaysBeforeMonth(y2, m) + DaysIn(y2, m) <= 365 + LeapDay(y2)
      BY <1>5, <2>3, <2>9, YearsFollow, YearLength, MonthsFollow
    <3>. QED BY <1>6, <2>3, <2>5, <2>6, <2>7, <3>1
  <2>10. CASE y < y2
    <3>1. DaysBeforeYear(y + 1) <= DaysBeforeYear(y2)
      BY <1>5, <2>3, <2>10, YearsFollow
    <3>2. m = 1
      <4>1. m > 1 => DaysBeforeMonth(y2, m) >= 31
        BY <1>5, <2>3, MonthsFollow, MonthTable
      <4>. QED BY <1>5, <1>6, <2>3, <2>5, <2>6, <2>7, <3>1, <4>1
    <3>3. DaysBeforeMonth(y, m) = 0 /\ DaysIn(y, m) = 31 BY <1>5, <3>2, MonthTable
    <3>. QED BY <2>3, <2>5, <2>6, <2>7, <3>1, <3>3
  <2>. QED BY <1>5, <2>3, <2>8, <2>9, <2>10 DEF Years
<1>13. LocalHour(t) \in 0..23 /\ t = Instant(from, LocalHour(t)) BY <1>1, InstantSplits DEF from
<1>. HIDE DEF date, y, m
<1>14. /\ Instant(date, LocalHour(t)) \in Nat
       /\ LocalDate(Instant(date, LocalHour(t))) = date
       /\ LocalHour(Instant(date, LocalHour(t))) = LocalHour(t)
  <2>. DEFINE h == LocalHour(t)
  <2>1. date \in Int /\ date >= 1 /\ h \in 0..23 BY <1>9, <1>13 DEF Dates1
  <2>. HIDE DEF h
  <2>2. Instant(date, h) >= 0 BY <2>1 DEF Instant, AEST
  <2>3. /\ Instant(date, h) \in Int
        /\ LocalDate(Instant(date, h)) = date /\ LocalHour(Instant(date, h)) = h
    BY <2>1, InstantJoins
  <2>4. Instant(date, h) \in Nat BY <2>2, <2>3
  <2>. QED BY <2>3, <2>4 DEF h
<1>. QED BY <1>2, <1>9, <1>10, <1>11, <1>12, <1>14 DEF from, d0, m0

-----------------------------------------------------------------------------
(* The table: what every strategy of strategies.yaml has in common. *)
Instants == {t \in Nat : LocalDate(t) \in Dates1}

Actions == {"retry", "request_details_update", "offer_split", "save_offer",
            "notify_human", "write_off"}

CustomerMessages ==
  [action : {"request_details_update", "offer_split", "save_offer"},
   channel : {"email", "sms"}, delay : Nat]

RetryRules == [delay : Nat, align : BOOLEAN]

CustomerRecords == [payday : 0..NoWeekday, used : Nat, contact : Nat]

LEMMA MessagesTyped ==
  /\ \A channel \in {"email", "sms"} : \A delay \in Nat : Details(channel, delay) \in CustomerMessages
  /\ Message("offer_split", "email", 240) \in CustomerMessages
  /\ Message("save_offer", "email", 0) \in CustomerMessages
BY DEF Details, Message, CustomerMessages

LEMMA ShortSequences ==
  ASSUME NEW S
  PROVE  /\ << >> \in Seq(S)
         /\ \A a \in S : <<a>> \in Seq(S)
         /\ \A a, b \in S : <<a, b>> \in Seq(S)
OBVIOUS

StrategyShape ==
  [max : 0..4, retry : RetryRules, messages : Seq(CustomerMessages), humans : Seq(0..96)]

LEMMA TableShape ==
  ASSUME NEW class \in FailureClass
  PROVE  /\ StrategyTable[class] \in StrategyShape
         /\ StrategyTable[class].max > 0 => StrategyTable[class].retry.delay > 0
<1>. DEFINE short == <<Details("email", 0), Details("sms", 48)>>
            offers == <<Details("email", 0), Message("offer_split", "email", 240)>>
            saves == <<Message("save_offer", "email", 0)>>
<1>1. /\ short \in Seq(CustomerMessages) /\ offers \in Seq(CustomerMessages)
      /\ saves \in Seq(CustomerMessages) /\ << >> \in Seq(CustomerMessages)
  BY MessagesTyped, ShortSequences
<1>2. /\ <<96>> \in Seq(0..96) /\ <<24>> \in Seq(0..96) /\ <<0>> \in Seq(0..96)
      /\ << >> \in Seq(0..96)
  OBVIOUS
<1>3. /\ NoRetry \in RetryRules /\ [delay |-> 120, align |-> TRUE] \in RetryRules
      /\ [delay |-> 24, align |-> FALSE] \in RetryRules
      /\ [delay |-> 72, align |-> FALSE] \in RetryRules
  BY DEF NoRetry, RetryRules
<1>4. \A max, retry, messages, humans :
        /\ Strategy(max, retry, messages, humans).max = max
        /\ Strategy(max, retry, messages, humans).retry = retry
        /\ max \in 0..4 /\ retry \in RetryRules /\ messages \in Seq(CustomerMessages)
             /\ humans \in Seq(0..96)
             => Strategy(max, retry, messages, humans) \in StrategyShape
  BY DEF Strategy, StrategyShape
<1>5. \/ StrategyTable[class] = Strategy(4, [delay |-> 120, align |-> TRUE], offers, << >>)
      \/ StrategyTable[class] = Strategy(0, NoRetry, short, <<96>>)
      \/ StrategyTable[class] = Strategy(0, NoRetry, saves, <<24>>)
      \/ StrategyTable[class] = Strategy(0, NoRetry, << >>, <<0>>)
      \/ StrategyTable[class] = Strategy(2, [delay |-> 24, align |-> FALSE], << >>, << >>)
      \/ StrategyTable[class] = Strategy(0, NoRetry, short, << >>)
      \/ StrategyTable[class] = Strategy(1, [delay |-> 72, align |-> FALSE], << >>, <<0>>)
  BY DEF StrategyTable, FailureClass
<1>. HIDE DEF short, offers, saves
<1>6. StrategyTable[class] \in StrategyShape
  <2>1. Strategy(4, [delay |-> 120, align |-> TRUE], offers, << >>) \in StrategyShape
    BY <1>1, <1>2, <1>3 DEF Strategy, StrategyShape
  <2>2. Strategy(0, NoRetry, short, <<96>>) \in StrategyShape BY <1>1, <1>2, <1>3 DEF Strategy, StrategyShape
  <2>3. Strategy(0, NoRetry, saves, <<24>>) \in StrategyShape BY <1>1, <1>2, <1>3 DEF Strategy, StrategyShape
  <2>4. Strategy(0, NoRetry, << >>, <<0>>) \in StrategyShape BY <1>1, <1>2, <1>3 DEF Strategy, StrategyShape
  <2>5. Strategy(2, [delay |-> 24, align |-> FALSE], << >>, << >>) \in StrategyShape
    BY <1>1, <1>2, <1>3 DEF Strategy, StrategyShape
  <2>6. Strategy(0, NoRetry, short, << >>) \in StrategyShape BY <1>1, <1>2, <1>3 DEF Strategy, StrategyShape
  <2>7. Strategy(1, [delay |-> 72, align |-> FALSE], << >>, <<0>>) \in StrategyShape
    BY <1>1, <1>2, <1>3 DEF Strategy, StrategyShape
  <2>. QED BY <1>5, <2>1, <2>2, <2>3, <2>4, <2>5, <2>6, <2>7
<1>7. \A messages, humans :
        /\ ~ (Strategy(0, NoRetry, messages, humans).max > 0)
        /\ Strategy(4, [delay |-> 120, align |-> TRUE], messages, humans).retry.delay > 0
        /\ Strategy(2, [delay |-> 24, align |-> FALSE], messages, humans).retry.delay > 0
        /\ Strategy(1, [delay |-> 72, align |-> FALSE], messages, humans).retry.delay > 0
  BY <1>4
<1>. QED BY <1>5, <1>6, <1>7

(* classifier.py: every code has a class, and the table has a row for it. *)
LEMMA ClassifyTyped == \A code : Classify(code) \in FailureClass
<1>. TAKE code
<1>. DEFINE rows == {class \in DOMAIN CodeIndex : code \in CodeIndex[class]}
<1>1. DOMAIN CodeIndex \subseteq FailureClass BY DEF CodeIndex, FailureClass
<1>2. CASE rows = {} BY <1>2 DEF Classify, FailureClass
<1>3. CASE rows # {}
  <2>1. Classify(code) = CHOOSE class \in rows : TRUE BY <1>3 DEF Classify
  <2>2. Classify(code) \in rows BY <1>3, <2>1
  <2>. QED BY <1>1, <2>2
<1>. QED BY <1>2, <1>3

LEMMA RepeatsTyped ==
  ASSUME NEW class \in FailureClass, NEW who \in CustomerRecords
  PROVE  /\ BudgetLeft(who) \in Nat
         /\ Repeats(class, who) \in 0..4
         /\ Repeats(class, who) > 0 => AllowsRetries(class) /\ BudgetLeft(who) > 0
<1>1. BudgetLeft(who) \in Nat
  BY DEF BudgetLeft, CustomerRecords, MaxRetriesInWindow
<1>2. CASE ~ AllowsRetries(class) BY <1>1, <1>2 DEF Repeats
<1>3. CASE AllowsRetries(class)
  <2>. DEFINE S == {StrategyTable[class].max, BudgetLeft(who)}
  <2>1. Repeats(class, who) = EarliestOf(S) BY <1>3 DEF Repeats
  <2>2. StrategyTable[class].max \in 0..4 BY TableShape DEF StrategyShape
  <2>3. S \in SUBSET Int /\ S # {} /\ \E low \in Int : \A x \in S : low <= x
    <3>1. \A x \in S : 0 <= x BY <1>1, <2>2
    <3>. QED BY <1>1, <2>2, <3>1
  <2>4. EarliestOf(S) \in S /\ \A x \in S : EarliestOf(S) <= x
    <3>. HIDE DEF S
    <3>. QED BY <2>3, EarliestExists
  <2>. QED BY <1>1, <1>3, <2>1, <2>2, <2>4
<1>. QED BY <1>2, <1>3

-----------------------------------------------------------------------------
(* Where a retry is aimed at, and where it is presented. *)
LEMMA AimedIsLater ==
  ASSUME NEW retry \in RetryRules, NEW who \in CustomerRecords, NEW t \in Instants
  PROVE  /\ Aimed(retry, who, t) \in Instants
         /\ Aimed(retry, who, t) >= t + retry.delay
<1>. DEFINE from == t + retry.delay
<1>1. t \in Nat /\ LocalDate(t) >= 1 /\ retry.delay \in Nat BY DEF Instants, Dates1, RetryRules
<1>2. from \in Nat /\ LocalDate(from) \in Dates1 BY <1>1 DEF LocalDate, AEST, Dates1
<1>3. CASE ~ retry.align BY <1>2, <1>3 DEF Aimed, Instants
<1>4. CASE retry.align
  <2>. DEFINE to == NextPayday(from, Paydays(who))
  <2>1. Paydays(who) \in SUBSET (0..6) /\ Paydays(who) # {}
    BY DEF Paydays, DefaultPaydays, CustomerRecords, NoWeekday
  <2>2. Aimed(retry, who, t) = to BY <1>4 DEF Aimed
  <2>. HIDE DEF from
  <2>3. to \in (from + 1)..(from + 7 * 24) BY <1>2, <2>1, NextPaydayIsNext
  <2>. HIDE DEF to
  <2>4. to \in Nat /\ to > from /\ LocalDate(to) \in Dates1
    BY <1>2, <2>3 DEF LocalDate, AEST, Dates1
  <2>. QED BY <1>2, <2>2, <2>4 DEF Instants, from
<1>. QED BY <1>3, <1>4

LEMMA PresentableIsLater ==
  ASSUME NEW retry, NEW t \in Instants
  PROVE  /\ Presentable(retry, t) \in Instants
         /\ Presentable(retry, t) >= t
<1>1. t \in Int /\ t >= 0 /\ LocalDate(t) >= 1 BY DEF Instants, Dates1
<1>2. PICK n \in 0..SearchDays : RollToBusinessDay(t) = t + 24 * n BY <1>1, RollIsForward
<1>. QED BY <1>1, <1>2 DEF Presentable, Instants, LocalDate, AEST, Dates1, SearchDays

LEMMA MonthStepIsLater ==
  ASSUME NEW t \in Instants
  PROVE  /\ NextMonthEquivalent(t) \in Instants
         /\ NextMonthEquivalent(t) - t \in (28 * 24)..(31 * 24)
<1>. DEFINE to == NextMonthEquivalent(t)
<1>1. t \in Nat /\ LocalDate(t) \in Dates1 BY DEF Instants
<1>2. /\ to \in Nat /\ LocalHour(to) = LocalHour(t)
      /\ LocalDate(to) \in Dates1 /\ LocalDate(to) - LocalDate(t) \in 28..31
  BY <1>1, MonthStepIsAMonth
<1>. HIDE DEF to
<1>3. /\ t = 24 * LocalDate(t) + LocalHour(t) - 10
      /\ to = 24 * LocalDate(to) + LocalHour(to) - 10 /\ LocalHour(t) \in 0..23
  BY <1>1, <1>2, InstantSplits DEF Instant, AEST
<1>. QED BY <1>1, <1>2, <1>3 DEF Instants, Dates1, to

-----------------------------------------------------------------------------
(* The ladder: the time of each retry follows from the one it is counted   *)
(* from, for as many repeats as there are.                                 *)
Stepped(retry, escalates, who, n, previous) ==
  Presentable(retry, IF escalates /\ n >= MonthlyAttempt THEN NextMonthEquivalent(previous)
                     ELSE Aimed(retry, who, previous))

LEMMA SteppedIsLater ==
  ASSUME NEW retry \in RetryRules, NEW escalates \in BOOLEAN, NEW who \in CustomerRecords,
         NEW n \in Nat, NEW t \in Instants
  PROVE  /\ Stepped(retry, escalates, who, n, t) \in Instants
         /\ Stepped(retry, escalates, who, n, t) >= t
         /\ ~ (escalates /\ n >= MonthlyAttempt) =>
              Stepped(retry, escalates, who, n, t) >= t + retry.delay
         /\ escalates /\ n >= MonthlyAttempt =>
              Stepped(retry, escalates, who, n, t) >= t + 28 * 24
         /\ \E u \in Instants : Stepped(retry, escalates, who, n, t) = RollToBusinessDay(u)
<1>. DEFINE u == IF escalates /\ n >= MonthlyAttempt THEN NextMonthEquivalent(t)
                 ELSE Aimed(retry, who, t)
<1>1. t \in Nat /\ retry.delay \in Nat BY DEF Instants, RetryRules
<1>2. /\ u \in Instants
      /\ ~ (escalates /\ n >= MonthlyAttempt) => u >= t + retry.delay
      /\ escalates /\ n >= MonthlyAttempt => u >= t + 28 * 24
  <2>1. CASE escalates /\ n >= MonthlyAttempt
    <3>1. u = NextMonthEquivalent(t) BY <2>1
    <3>2. NextMonthEquivalent(t) \in Instants /\ NextMonthEquivalent(t) >= t + 28 * 24
      BY <1>1, MonthStepIsLater DEF Instants
    <3>. QED BY <2>1, <3>1, <3>2
  <2>2. CASE ~ (escalates /\ n >= MonthlyAttempt)
    <3>1. u = Aimed(retry, who, t) BY <2>2
    <3>. QED BY <2>2, <3>1, AimedIsLater
  <2>. QED BY <2>1, <2>2
<1>3. Stepped(retry, escalates, who, n, t) = Presentable(retry, u) BY DEF Stepped
<1>. HIDE DEF u
<1>4. Presentable(retry, u) \in Instants /\ Presentable(retry, u) >= u
  BY <1>2, PresentableIsLater
<1>5. u \in Nat /\ Presentable(retry, u) \in Nat BY <1>2, <1>4 DEF Instants
<1>6. Presentable(retry, u) = RollToBusinessDay(u) BY DEF Presentable
<1>. QED BY <1>1, <1>2, <1>3, <1>4, <1>5, <1>6

LEMMA RetryTimesStep ==
  ASSUME NEW retry \in RetryRules, NEW repeats \in Nat, NEW escalates \in BOOLEAN,
         NEW who \in CustomerRecords, NEW t \in Instants
  PROVE  LET times == RetryTimes(retry, repeats, escalates, who, t) IN
         /\ times \in [0..repeats -> Instants]
         /\ times[0] = t
         /\ \A n \in 1..repeats :
              times[n] = Stepped(retry, escalates, who, n, CountedFrom(times, n, escalates))
<1>. DEFINE times == RetryTimes(retry, repeats, escalates, who, t)
            From(n, x) == IF escalates /\ n = MonthlyAttempt THEN t ELSE x
            step == [n \in 1..repeats |->
                       [x \in Instants |-> Stepped(retry, escalates, who, n, From(n, x))]]
            Fits(g) == g = [n \in 0..repeats |->
                              IF n = 0 THEN t
                              ELSE Presentable(retry,
                                     IF escalates /\ n >= MonthlyAttempt
                                     THEN NextMonthEquivalent(CountedFrom(g, n, escalates))
                                     ELSE Aimed(retry, who, CountedFrom(g, n, escalates)))]
<1>1. times = CHOOSE g : Fits(g) BY DEF RetryTimes
<1>2. step \in StepsOf(repeats, Instants)
  <2>. SUFFICES ASSUME NEW n \in 1..repeats, NEW x \in Instants
       PROVE  Stepped(retry, escalates, who, n, From(n, x)) \in Instants
    BY DEF StepsOf
  <2>. QED BY SteppedIsLater
<1>3. \E g : Fits(g)
  <2>. HIDE DEF step
  <2>0. PICK f : Follows(f, repeats, Instants, t, step)
    BY <1>2, StepwiseExists
  <2>1. /\ f \in [0..repeats -> Instants]
        /\ f[0] = t /\ \A n \in 1..repeats : f[n] = step[n][f[n - 1]]
    BY <2>0 DEF Follows
  <2>2. f[0] = t BY <2>1
  <2>3. ASSUME NEW n \in 1..repeats
        PROVE  f[n] = Stepped(retry, escalates, who, n, CountedFrom(f, n, escalates))
    <3>1. f[n] = step[n][f[n - 1]] /\ n - 1 \in 0..repeats BY <2>1
    <3>2. f[n - 1] \in Instants BY <2>1, <3>1
    <3>3. step[n][f[n - 1]] = Stepped(retry, escalates, who, n, From(n, f[n - 1]))
      BY <3>2 DEF step
    <3>4. CountedFrom(f, n, escalates) = From(n, f[n - 1]) BY <2>2 DEF CountedFrom
    <3>. QED BY <3>1, <3>3, <3>4
  <2>4. \A n \in 0..repeats :
          f[n] = IF n = 0 THEN t
                 ELSE Presentable(retry, IF escalates /\ n >= MonthlyAttempt
                                         THEN NextMonthEquivalent(CountedFrom(f, n, escalates))
                                         ELSE Aimed(retry, who, CountedFrom(f, n, escalates)))
    <3>. TAKE n \in 0..repeats
    <3>1. CASE n = 0 BY <2>2, <3>1
    <3>2. CASE n # 0
      <4>1. n \in 1..repeats BY <3>2
      <4>. QED BY <2>3, <3>2, <4>1 DEF Stepped
    <3>. QED BY <3>1, <3>2
  <2>5. Fits(f) BY <2>1, <2>4
  <2>. QED BY <2>5
<1>4. Fits(times)
  <2>. HIDE DEF Fits, times
  <2>. QED BY <1>1, <1>3
<1>. HIDE DEF times
<1>5. times[0] = t /\ DOMAIN times = 0..repeats BY <1>4
<1>6. \A n \in 1..repeats :
        times[n] = Stepped(retry, escalates, who, n, CountedFrom(times, n, escalates))
  BY <1>4 DEF Stepped
<1>7. \A n \in Nat : n \in {k \in Nat : k <= repeats => times[k] \in Instants}
  <2>. DEFINE K == {k \in Nat : k <= repeats => times[k] \in Instants}
  <2>1. 0 \in K BY <1>5
  <2>2. \A k \in Nat : k \in K => k + 1 \in K
    <3>. SUFFICES ASSUME NEW k \in Nat, k + 1 <= repeats, times[k] \in Instants
         PROVE  times[k + 1] \in Instants
      OBVIOUS
    <3>1. k + 1 \in 1..repeats /\ (k + 1) - 1 = k OBVIOUS
    <3>2. CountedFrom(times, k + 1, escalates) \in Instants BY <1>5, <3>1 DEF CountedFrom
    <3>. QED BY <1>6, <3>1, <3>2, SteppedIsLater
  <2>. HIDE DEF K
  <2>3. \A n \in Nat : n \in K BY <2>1, <2>2, SetInduction
  <2>. QED BY <2>3 DEF K
<1>8. times \in [0..repeats -> Instants]
  <2>1. \A n \in 0..repeats : times[n] \in Instants BY <1>7
  <2>2. times = [n \in 0..repeats |-> times[n]] BY <1>4
  <2>. QED BY <2>1, <2>2
<1>. QED BY <1>5, <1>6, <1>8 DEF times

LEMMA StepsAddUp ==
  ASSUME NEW n \in Nat, NEW f \in [0..n -> Int], \A k \in 1..n : f[k - 1] <= f[k]
  PROVE  \A i, j \in 0..n : i <= j => f[i] <= f[j]
<1>. DEFINE K == {j \in Nat : j <= n => \A i \in 0..j : f[i] <= f[j]}
<1>1. 0 \in K
  <2>1. \A i \in 0..0 : i = 0 OBVIOUS
  <2>. QED BY <2>1
<1>2. \A j \in Nat : j \in K => j + 1 \in K
  <2>. TAKE j \in Nat
  <2>. HAVE j \in K
  <2>. SUFFICES j + 1 <= n => \A i \in 0..(j + 1) : f[i] <= f[j + 1] OBVIOUS
  <2>. HAVE j + 1 <= n
  <2>. TAKE i \in 0..(j + 1)
  <2>1. j + 1 \in 1..n /\ (j + 1) - 1 = j /\ j \in 0..n /\ j + 1 \in 0..n /\ i \in 0..n OBVIOUS
  <2>2. f[j] <= f[j + 1] /\ f[j] \in Int /\ f[j + 1] \in Int /\ f[i] \in Int BY <2>1
  <2>3. CASE i = j + 1 BY <2>2, <2>3
  <2>4. CASE i # j + 1 BY <2>2, <2>4
  <2>. QED BY <2>3, <2>4
<1>3. \A j \in Nat : j \in K
  <2>. HIDE DEF K
  <2>. QED BY <1>1, <1>2, SetInduction
<1>. QED BY <1>3

PlannedAttempts == [action : Actions, channel : {"none", "email", "sms"}, at : Nat]

(* What becomes of a time: it is kept up to the write-off. *)
LEMMA WithinTyped ==
  ASSUME NEW writeOff \in Nat, NEW t \in Nat
  PROVE  /\ Within(writeOff, t) \in 0..writeOff
         /\ Within(writeOff, t) # NoTime => Within(writeOff, t) = t
BY DEF Within, NoTime

(* strategy_engine.py, plan(): the retries of a plan are debits without a  *)
(* channel, on business days after the failure and not after the write-off *)
(* when they have a date at all; without a monthly step they keep the      *)
(* interval of their class.                                                *)
LEMMA RetriesShape ==
  ASSUME NEW class \in FailureClass, NEW debit, debit.monthly \in BOOLEAN,
         NEW who \in CustomerRecords, NEW t \in Instants
  PROVE  LET retries == Retries(class, debit, who, t)
             escalates == Escalates(class, debit, who)
             retry == StrategyTable[class].retry
         IN /\ retries \in Seq(PlannedAttempts)
            /\ \A i \in DOMAIN retries :
                 /\ retries[i].action = "retry" /\ retries[i].channel = "none"
                 /\ retries[i].at \in 0..WriteOffAt(escalates, t)
                 /\ retries[i].at # NoTime =>
                      /\ retries[i].at > t
                      /\ \E u \in Instants : retries[i].at = RollToBusinessDay(u)
            /\ ~ escalates => \A i, j \in DOMAIN retries :
                 i < j /\ retries[i].at # NoTime /\ retries[j].at # NoTime =>
                   retries[i].at + retry.delay <= retries[j].at
<1>. DEFINE retries == Retries(class, debit, who, t)
            retry == StrategyTable[class].retry
            repeats == Repeats(class, who)
            escalates == Escalates(class, debit, who)
            writeOff == WriteOffAt(escalates, t)
            times == RetryTimes(retry, repeats, escalates, who, t)
<1>1. /\ retry \in RetryRules /\ repeats \in 0..4
      /\ repeats > 0 => retry.delay > 0
  BY TableShape, RepeatsTyped DEF StrategyShape, AllowsRetries
<1>2. escalates \in BOOLEAN BY <1>1 DEF Escalates, RetryRules
<1>3. writeOff \in Nat /\ t \in Nat
  BY <1>2 DEF WriteOffAt, Instants, WriteOffAfter, MonthlyWriteOffAfter
<1>4. CASE AllowsRetries(class) /\ BudgetLeft(who) = 0
  <2>1. retries = <<Attempt("retry", "none", NoTime)>> BY <1>4 DEF Retries
  <2>2. DOMAIN retries = {1} /\ retries[1] = Attempt("retry", "none", NoTime) BY <2>1
  <2>3. Attempt("retry", "none", NoTime) \in PlannedAttempts
    BY DEF Attempt, PlannedAttempts, Actions, NoTime
  <2>4. retries \in Seq(PlannedAttempts) BY <2>1, <2>3
  <2>5. retries[1].action = "retry" /\ retries[1].channel = "none" /\ retries[1].at = NoTime
    BY <2>2 DEF Attempt
  <2>. HIDE DEF retries, writeOff, escalates
  <2>. QED BY <1>3, <2>2, <2>4, <2>5 DEF NoTime, retries, writeOff, escalates
<1>5. CASE ~ (AllowsRetries(class) /\ BudgetLeft(who) = 0)
  <2>1. retries = Ladder(times, repeats, writeOff) BY <1>5 DEF Retries
  <2>. HIDE DEF retries, writeOff, repeats, retry
  <2>2. /\ times \in [0..repeats -> Instants] /\ times[0] = t
        /\ \A n \in 1..repeats :
             times[n] = Stepped(retry, escalates, who, n, CountedFrom(times, n, escalates))
    <3>1. repeats \in Nat BY <1>1
    <3>. HIDE DEF escalates
    <3>. QED BY <1>1, <1>2, <3>1, RetryTimesStep
  <2>. HIDE DEF times, escalates
  <2>3. \A n \in 1..repeats :
          /\ times[n] \in Nat
          /\ CountedFrom(times, n, escalates) \in Instants
          /\ times[n] > CountedFrom(times, n, escalates)
          /\ ~ escalates => times[n] >= times[n - 1] + retry.delay
          /\ \E u \in Instants : times[n] = RollToBusinessDay(u)
    <3>. TAKE n \in 1..repeats
    <3>. DEFINE from == CountedFrom(times, n, escalates)
    <3>1. n \in Nat /\ n \in 0..repeats /\ n - 1 \in 0..repeats /\ 0 \in 0..repeats BY <1>1
    <3>2. from \in Instants BY <2>2, <3>1 DEF CountedFrom
    <3>3. ~ escalates => from = times[n - 1] BY DEF CountedFrom
    <3>4. times[n] = Stepped(retry, escalates, who, n, from) /\ times[n] \in Instants
      BY <2>2, <3>1
    <3>. HIDE DEF from
    <3>5. /\ ~ (escalates /\ n >= MonthlyAttempt) => times[n] >= from + retry.delay
          /\ escalates /\ n >= MonthlyAttempt => times[n] >= from + 28 * 24
          /\ \E u \in Instants : times[n] = RollToBusinessDay(u)
      BY <1>1, <1>2, <3>1, <3>2, <3>4, SteppedIsLater
    <3>6. retry.delay \in Nat /\ retry.delay > 0 BY <1>1 DEF RetryRules
    <3>7. times[n] \in Nat /\ from \in Nat BY <3>2, <3>4 DEF Instants
    <3>8. times[n] > from
      <4>1. CASE escalates /\ n >= MonthlyAttempt BY <3>5, <3>7, <4>1
      <4>2. CASE ~ (escalates /\ n >= MonthlyAttempt) BY <3>5, <3>6, <3>7, <4>2
      <4>. QED BY <4>1, <4>2
    <3>. QED BY <3>2, <3>3, <3>5, <3>7, <3>8 DEF from
  <2>4. \A n \in 0..repeats : times[n] >= t /\ times[n] \in Nat
    <3>. DEFINE K == {n \in Nat : n <= repeats => times[n] >= t}
    <3>1. \A n \in 0..repeats : times[n] \in Nat BY <2>2 DEF Instants
    <3>2. 0 \in K BY <1>3, <2>2
    <3>3. \A n \in Nat : n \in K => n + 1 \in K
      <4>. SUFFICES ASSUME NEW n \in Nat, n + 1 <= repeats, times[n] >= t
           PROVE  times[n + 1] >= t
        BY <1>1
      <4>1. n + 1 \in 1..repeats /\ (n + 1) - 1 = n /\ n \in 0..repeats /\ n + 1 \in 0..repeats
        BY <1>1
      <4>2. times[n + 1] > CountedFrom(times, n + 1, escalates) BY <2>3, <4>1
      <4>3. CountedFrom(times, n + 1, escalates) \in {t, times[n]}
        BY <2>2, <4>1 DEF CountedFrom
      <4>. QED BY <1>3, <3>1, <4>1, <4>2, <4>3
    <3>4. \A n \in Nat : n \in K
      <4>. HIDE DEF K
      <4>. QED BY <3>2, <3>3, SetInduction
    <3>. QED BY <1>1, <3>1, <3>4
  <2>5. \A n \in 1..repeats : times[n] > t
    <3>. TAKE n \in 1..repeats
    <3>1. n \in 0..repeats /\ n - 1 \in 0..repeats BY <1>1
    <3>2. CountedFrom(times, n, escalates) \in {t, times[n - 1]} BY <2>2 DEF CountedFrom
    <3>. QED BY <1>3, <2>3, <2>4, <3>1, <3>2
  <2>6. /\ DOMAIN retries = 1..repeats
        /\ \A n \in 1..repeats :
             retries[n] = Attempt("retry", "none", Within(writeOff, times[n]))
    BY <2>1 DEF Ladder
  <2>7. \A n \in 1..repeats :
          /\ retries[n].action = "retry" /\ retries[n].channel = "none"
          /\ retries[n].at = Within(writeOff, times[n])
          /\ retries[n].at \in 0..writeOff
          /\ retries[n].at # NoTime => retries[n].at = times[n]
          /\ retries[n] \in PlannedAttempts
    <3>. TAKE n \in 1..repeats
    <3>1. retries[n] = Attempt("retry", "none", Within(writeOff, times[n])) BY <2>6
    <3>2. times[n] \in Nat BY <2>3
    <3>3. Within(writeOff, times[n]) \in 0..writeOff
          /\ (Within(writeOff, times[n]) # NoTime => Within(writeOff, times[n]) = times[n])
      BY <1>3, <3>2, WithinTyped
    <3>. QED BY <1>3, <3>1, <3>3 DEF Attempt, PlannedAttempts, Actions
  <2>8. retries \in Seq(PlannedAttempts)
    <3>1. retries = [n \in 1..repeats |-> retries[n]] BY <2>1 DEF Ladder
    <3>2. repeats \in Nat BY <1>1
    <3>. QED BY <2>7, <3>1, <3>2
  <2>9. ASSUME ~ escalates, NEW i \in DOMAIN retries, NEW j \in DOMAIN retries, i < j,
               retries[i].at # NoTime, retries[j].at # NoTime
        PROVE  retries[i].at + retry.delay <= retries[j].at
    <3>1. \A k \in 1..repeats : times[k - 1] + retry.delay <= times[k] BY <2>3, <2>9
    <3>2. times \in [0..repeats -> Int] /\ repeats \in Nat /\ retry.delay \in Nat
      BY <1>1, <2>2 DEF Instants, RetryRules
    <3>3. \A k \in 1..repeats : times[k - 1] <= times[k]
      <4>. TAKE k \in 1..repeats
      <4>1. k - 1 \in 0..repeats /\ k \in 0..repeats BY <3>2
      <4>. QED BY <3>1, <3>2, <4>1
    <3>4. i \in 1..repeats /\ j \in 1..repeats /\ i <= j - 1 /\ j - 1 \in 0..repeats
      BY <2>6, <2>9, <3>2
    <3>5. times[i] <= times[j - 1]
      <4>1. \A a, b \in 0..repeats : a <= b => times[a] <= times[b]
        BY <3>2, <3>3, StepsAddUp
      <4>2. i \in 0..repeats BY <3>2, <3>4
      <4>. QED BY <3>4, <4>1, <4>2
    <3>6. times[j - 1] + retry.delay <= times[j] BY <3>1, <3>4
    <3>7. times[i] \in Int /\ times[j] \in Int /\ times[j - 1] \in Int BY <3>2, <3>4
    <3>. QED BY <2>7, <2>9, <3>2, <3>4, <3>5, <3>6, <3>7
  <2>. QED BY <2>3, <2>5, <2>6, <2>7, <2>8, <2>9 DEF retries, writeOff, retry, escalates
<1>. QED BY <1>4, <1>5

-----------------------------------------------------------------------------
(* The messages: each is walked from the contact before it. *)
LEMMA LatestExists ==
  ASSUME NEW S \in SUBSET Int, S # {}, NEW high \in Int, \A x \in S : x <= high
  PROVE  \E x \in S : \A y \in S : y <= x
<1>. DEFINE T == {high - x : x \in S}
<1>1. T \in SUBSET Int /\ T # {} /\ \A x \in T : 0 <= x
  <2>1. \A x \in S : high - x \in Int /\ 0 <= high - x OBVIOUS
  <2>2. PICK x \in S : TRUE OBVIOUS
  <2>3. high - x \in T OBVIOUS
  <2>. QED BY <2>1, <2>3
<1>2. EarliestOf(T) \in T /\ \A y \in T : EarliestOf(T) <= y
  <2>1. 0 \in Int OBVIOUS
  <2>. HIDE DEF T
  <2>. QED BY <1>1, <2>1, EarliestExists
<1>3. PICK x \in S : EarliestOf(T) = high - x BY <1>2
<1>4. \A y \in S : high - x <= high - y BY <1>2, <1>3
<1>. QED BY <1>4

BoundedDates(dates) == \E high \in Nat : dates \in SUBSET (0..high)

(* An offer to split is held until a day after every retry that has a date. *)
LEMMA HeldIsLater ==
  ASSUME NEW message, NEW dates, BoundedDates(dates), NEW t \in Nat
  PROVE  /\ Held(message, dates, t) \in Nat
         /\ Held(message, dates, t) # NoTime => Held(message, dates, t) >= t
         /\ message.action = "offer_split" /\ Held(message, dates, t) # NoTime =>
              \A r \in dates : Held(message, dates, t) >= r + 24
<1>1. CASE message.action # "offer_split" BY <1>1 DEF Held
<1>2. CASE message.action = "offer_split" /\ dates = {} BY <1>2 DEF Held, NoTime
<1>3. CASE message.action = "offer_split" /\ dates # {}
  <2>. DEFINE S == {t} \cup {r + 24 : r \in dates}
              Fits(h) == h >= t /\ \A r \in dates : h >= r + 24
  <2>0. PICK high \in Nat : dates \in SUBSET (0..high) BY DEF BoundedDates
  <2>1. Held(message, dates, t) = CHOOSE h \in S : Fits(h) BY <1>3 DEF Held
  <2>2. S \in SUBSET Nat /\ S # {} /\ \A x \in S : x <= t + high + 24 BY <2>0
  <2>3. \E x \in S : \A y \in S : y <= x
    <3>1. S \in SUBSET Int /\ t + high + 24 \in Int BY <2>2
    <3>. HIDE DEF S
    <3>. QED BY <2>2, <3>1, LatestExists
  <2>4. \E h \in S : Fits(h) BY <2>3
  <2>5. Held(message, dates, t) \in S /\ Fits(Held(message, dates, t))
    <3>. HIDE DEF S, Fits
    <3>. QED BY <2>1, <2>4
  <2>. QED BY <2>2, <2>5
<1>. QED BY <1>1, <1>2, <1>3

ContactRecords == [at : Nat, contact : Nat]

Contacted(message, dates, contact, t, writeOff) ==
  LET u == Within(writeOff, Apart(contact, Held(message, dates, t + message.delay)))
  IN [at |-> u, contact |-> NoteContact(contact, u)]

LEMMA ContactedIsLater ==
  ASSUME NEW message \in CustomerMessages, NEW dates, BoundedDates(dates),
         NEW contact \in Nat, NEW t \in Nat, NEW writeOff \in Nat
  PROVE  LET c == Contacted(message, dates, contact, t, writeOff) IN
         /\ c \in ContactRecords
         /\ c.at \in 0..writeOff
         /\ contact <= c.contact
         /\ c.at # NoTime =>
              /\ c.at >= t /\ c.contact = c.at
              /\ contact # NoTime => contact + MessageGap <= c.at
              /\ message.action = "offer_split" => \A r \in dates : c.at >= r + 24
<1>. DEFINE held == Held(message, dates, t + message.delay)
            apart == Apart(contact, held)
            u == Within(writeOff, apart)
            c == Contacted(message, dates, contact, t, writeOff)
<1>1. message.delay \in Nat /\ t + message.delay \in Nat BY DEF CustomerMessages
<1>2. /\ held \in Nat
      /\ held # NoTime => held >= t
      /\ message.action = "offer_split" /\ held # NoTime => \A r \in dates : held >= r + 24
  BY <1>1, HeldIsLater
<1>. HIDE DEF held
<1>3. /\ apart \in Nat /\ apart >= held
      /\ apart # NoTime => held # NoTime
      /\ apart # NoTime /\ contact # NoTime => contact + MessageGap <= apart
  BY <1>2 DEF Apart, NoTime, MessageGap
<1>. HIDE DEF apart
<1>4. u \in 0..writeOff /\ (u # NoTime => u = apart) BY <1>3, WithinTyped
<1>5. c.at = u /\ c.contact = NoteContact(contact, u) /\ c = [at |-> c.at, contact |-> c.contact]
  BY DEF Contacted, held, apart
<1>. HIDE DEF u, c
<1>6. /\ u \in Nat /\ NoteContact(contact, u) \in Nat /\ contact <= NoteContact(contact, u)
      /\ u # NoTime => NoteContact(contact, u) = u
  <2>1. CASE u = NoTime BY <2>1 DEF NoteContact, NoTime
  <2>2. CASE u # NoTime
    <3>1. u = apart /\ NoteContact(contact, u) = u BY <1>4, <2>2 DEF NoteContact
    <3>2. contact <= apart BY <1>3, <2>2, <3>1 DEF NoTime, MessageGap
    <3>. QED BY <1>3, <3>1, <3>2
  <2>. QED BY <2>1, <2>2
<1>7. c \in ContactRecords BY <1>5, <1>6 DEF ContactRecords
<1>8. u # NoTime /\ message.action = "offer_split" => \A r \in dates : u >= r + 24
  <2>1. PICK high \in Nat : dates \in SUBSET (0..high) BY DEF BoundedDates
  <2>. QED BY <1>2, <1>3, <1>4, <2>1
<1>. QED BY <1>2, <1>3, <1>4, <1>5, <1>6, <1>7, <1>8 DEF c

LEMMA ContactWalkStep ==
  ASSUME NEW messages \in Seq(CustomerMessages), NEW dates, BoundedDates(dates),
         NEW contact \in Nat, NEW t \in Nat, NEW writeOff \in Nat
  PROVE  LET walk == ContactWalk(messages, dates, contact, t, writeOff) IN
         /\ walk \in [0..Len(messages) -> ContactRecords]
         /\ walk[0] = [at |-> NoTime, contact |-> contact]
         /\ \A i \in 1..Len(messages) :
              walk[i] = Contacted(messages[i], dates, walk[i - 1].contact, t, writeOff)
<1>. DEFINE count == Len(messages)
            walk == ContactWalk(messages, dates, contact, t, writeOff)
            start == [at |-> NoTime, contact |-> contact]
            step == [i \in 1..count |-> [x \in ContactRecords |->
                       Contacted(messages[i], dates, x.contact, t, writeOff)]]
            Fits(g) == g = [i \in 0..count |->
              IF i = 0 THEN [at |-> NoTime, contact |-> contact]
              ELSE LET u == Within(writeOff, Apart(g[i - 1].contact,
                                   Held(messages[i], dates, t + messages[i].delay)))
                   IN [at |-> u, contact |-> NoteContact(g[i - 1].contact, u)]]
<1>1. walk = CHOOSE g : Fits(g) BY DEF ContactWalk
<1>2. count \in Nat /\ \A i \in 1..count : messages[i] \in CustomerMessages OBVIOUS
<1>. HIDE DEF count
<1>3. start \in ContactRecords BY DEF ContactRecords, NoTime
<1>4. step \in StepsOf(count, ContactRecords)
  <2>. SUFFICES ASSUME NEW i \in 1..count, NEW x \in ContactRecords
       PROVE  Contacted(messages[i], dates, x.contact, t, writeOff) \in ContactRecords
    BY DEF StepsOf
  <2>1. x.contact \in Nat BY DEF ContactRecords
  <2>. QED BY <1>2, <2>1, ContactedIsLater
<1>5. \E g : Fits(g)
  <2>. HIDE DEF step, start
  <2>0. PICK f : Follows(f, count, ContactRecords, start, step)
    BY <1>2, <1>3, <1>4, StepwiseExists
  <2>1. /\ f \in [0..count -> ContactRecords]
        /\ f[0] = start /\ \A i \in 1..count : f[i] = step[i][f[i - 1]]
    BY <2>0 DEF Follows
  <2>2. \A i \in 1..count : f[i] = Contacted(messages[i], dates, f[i - 1].contact, t, writeOff)
    <3>. TAKE i \in 1..count
    <3>1. f[i] = step[i][f[i - 1]] /\ f[i - 1] \in ContactRecords BY <1>2, <2>1
    <3>. QED BY <3>1 DEF step
  <2>3. \A i \in 0..count :
          f[i] = IF i = 0 THEN [at |-> NoTime, contact |-> contact]
                 ELSE LET u == Within(writeOff, Apart(f[i - 1].contact,
                                      Held(messages[i], dates, t + messages[i].delay)))
                      IN [at |-> u, contact |-> NoteContact(f[i - 1].contact, u)]
    <3>. TAKE i \in 0..count
    <3>1. CASE i = 0 BY <2>1, <3>1 DEF start
    <3>2. CASE i # 0
      <4>1. i \in 1..count BY <1>2, <3>2
      <4>. QED BY <2>2, <3>2, <4>1 DEF Contacted
    <3>. QED BY <3>1, <3>2
  <2>4. Fits(f) BY <2>1, <2>3
  <2>. QED BY <2>4
<1>6. Fits(walk)
  <2>. HIDE DEF Fits, walk
  <2>. QED BY <1>1, <1>5
<1>. HIDE DEF walk
<1>7. walk[0] = start /\ DOMAIN walk = 0..count BY <1>2, <1>6
<1>8. \A i \in 1..count : walk[i] = Contacted(messages[i], dates, walk[i - 1].contact, t, writeOff)
  BY <1>2, <1>6 DEF Contacted
<1>9. \A i \in 0..count : walk[i] \in ContactRecords
  <2>. DEFINE K == {k \in Nat : k <= count => walk[k] \in ContactRecords}
  <2>1. 0 \in K BY <1>3, <1>7
  <2>2. \A k \in Nat : k \in K => k + 1 \in K
    <3>. SUFFICES ASSUME NEW k \in Nat, k + 1 <= count, walk[k] \in ContactRecords
         PROVE  walk[k + 1] \in ContactRecords
      BY <1>2
    <3>1. k + 1 \in 1..count /\ (k + 1) - 1 = k BY <1>2
    <3>2. walk[k].contact \in Nat BY DEF ContactRecords
    <3>3. walk[k + 1] = Contacted(messages[k + 1], dates, walk[k].contact, t, writeOff)
      BY <1>8, <3>1
    <3>4. messages[k + 1] \in CustomerMessages BY <1>2, <3>1
    <3>. QED BY <3>2, <3>3, <3>4, ContactedIsLater
  <2>3. \A k \in Nat : k \in K
    <3>. HIDE DEF K
    <3>. QED BY <2>1, <2>2, SetInduction
  <2>. QED BY <1>2, <2>3
<1>10. walk \in [0..count -> ContactRecords]
  <2>1. walk = [i \in 0..count |-> walk[i]] BY <1>6
  <2>. QED BY <1>9, <2>1
<1>. QED BY <1>7, <1>8, <1>10 DEF walk, count

(* strategy_engine.py, plan(): messages have a channel, are not before the *)
(* failure and not after the write-off, keep a day from the last contact   *)
(* and from each other, and an offer waits for the retries.                *)
LEMMA MessagesShape ==
  ASSUME NEW messages \in Seq(CustomerMessages), NEW dates, BoundedDates(dates),
         NEW contact \in Nat, NEW t \in Nat, NEW writeOff \in Nat
  PROVE  LET sent == Messages(messages, dates, contact, t, writeOff) IN
         /\ sent \in Seq(PlannedAttempts)
         /\ \A i \in DOMAIN sent :
              /\ sent[i].action \in {"request_details_update", "offer_split", "save_offer"}
              /\ sent[i].channel \in {"email", "sms"}
              /\ sent[i].at \in 0..writeOff
              /\ sent[i].at # NoTime =>
                   /\ sent[i].at >= t
                   /\ contact # NoTime => contact + MessageGap <= sent[i].at
                   /\ sent[i].action = "offer_split" => \A r \in dates : sent[i].at >= r + 24
         /\ \A i, j \in DOMAIN sent :
              i < j /\ sent[i].at # NoTime /\ sent[j].at # NoTime =>
                sent[i].at + MessageGap <= sent[j].at
<1>. DEFINE n == Len(messages)
            walk == ContactWalk(messages, dates, contact, t, writeOff)
            sent == Messages(messages, dates, contact, t, writeOff)
            last == [i \in 0..n |-> walk[i].contact]
<1>1. /\ n \in Nat /\ DOMAIN messages = 1..n
      /\ \A i \in 1..n : messages[i] \in CustomerMessages
  OBVIOUS
<1>2. /\ walk \in [0..n -> ContactRecords]
      /\ walk[0] = [at |-> NoTime, contact |-> contact]
      /\ \A i \in 1..n : walk[i] = Contacted(messages[i], dates, walk[i - 1].contact, t, writeOff)
  BY ContactWalkStep
<1>3. sent = [i \in 1..n |-> Attempt(messages[i].action, messages[i].channel, walk[i].at)]
  BY <1>1 DEF Messages
<1>. HIDE DEF n, walk, sent
<1>4. \A i \in 1..n :
        /\ walk[i].at \in 0..writeOff
        /\ walk[i - 1].contact \in Nat /\ walk[i].contact \in Nat
        /\ walk[i - 1].contact <= walk[i].contact
        /\ walk[i].at # NoTime =>
             /\ walk[i].at >= t /\ walk[i].contact = walk[i].at
             /\ walk[i - 1].contact # NoTime => walk[i - 1].contact + MessageGap <= walk[i].at
             /\ messages[i].action = "offer_split" => \A r \in dates : walk[i].at >= r + 24
  <2>. TAKE i \in 1..n
  <2>1. walk[i - 1].contact \in Nat /\ walk[i].contact \in Nat
    BY <1>1, <1>2 DEF ContactRecords
  <2>. DEFINE before == walk[i - 1].contact
  <2>2. walk[i] = Contacted(messages[i], dates, before, t, writeOff) BY <1>2
  <2>3. messages[i] \in CustomerMessages /\ before \in Nat BY <1>1, <2>1
  <2>. HIDE DEF before
  <2>4. LET c == Contacted(messages[i], dates, before, t, writeOff) IN
         /\ c.at \in 0..writeOff
         /\ before <= c.contact
         /\ c.at # NoTime =>
              /\ c.at >= t /\ c.contact = c.at
              /\ before # NoTime => before + MessageGap <= c.at
              /\ messages[i].action = "offer_split" => \A r \in dates : c.at >= r + 24
    BY <2>3, ContactedIsLater
  <2>. QED BY <2>1, <2>2, <2>4 DEF before
<1>5. \A i, j \in 0..n : i <= j => walk[i].contact <= walk[j].contact
  <2>1. last \in [0..n -> Int] BY <1>2 DEF ContactRecords
  <2>2. \A k \in 1..n : last[k - 1] <= last[k]
    <3>. TAKE k \in 1..n
    <3>1. k - 1 \in 0..n /\ k \in 0..n BY <1>1
    <3>. QED BY <1>4, <3>1
  <2>3. \A i, j \in 0..n : i <= j => last[i] <= last[j]
    <3>. HIDE DEF last
    <3>. QED BY <1>1, <2>1, <2>2, StepsAddUp
  <2>. QED BY <2>3
<1>6. \A i \in 1..n :
        /\ sent[i] \in PlannedAttempts /\ sent[i].action = messages[i].action
        /\ sent[i].channel = messages[i].channel /\ sent[i].at = walk[i].at
  <2>. TAKE i \in 1..n
  <2>1. walk[i].at \in Nat BY <1>4
  <2>2. messages[i] \in CustomerMessages BY <1>1
  <2>. QED BY <1>3, <2>1, <2>2 DEF Attempt, PlannedAttempts, Actions, CustomerMessages
<1>7. sent \in Seq(PlannedAttempts)
  <2>1. sent = [i \in 1..n |-> sent[i]] BY <1>3
  <2>. QED BY <1>1, <1>6, <2>1
<1>8. DOMAIN sent = 1..n BY <1>3
<1>9. \A i \in 1..n : contact <= walk[i - 1].contact
  <2>. TAKE i \in 1..n
  <2>1. 0 \in 0..n /\ i - 1 \in 0..n /\ 0 <= i - 1 BY <1>1
  <2>. QED BY <1>2, <1>5, <2>1
<1>10. ASSUME NEW i \in 1..n, NEW j \in 1..n, i < j, walk[i].at # NoTime, walk[j].at # NoTime
       PROVE  walk[i].at + MessageGap <= walk[j].at
  <2>1. i \in 0..n /\ j - 1 \in 0..n /\ i <= j - 1 BY <1>1, <1>10
  <2>2. walk[i].contact <= walk[j - 1].contact BY <1>5, <2>1
  <2>3. walk[i].contact = walk[i].at /\ walk[i].at > 0 BY <1>4, <1>10 DEF NoTime
  <2>4. walk[j - 1].contact \in Nat /\ walk[j - 1].contact # NoTime
    BY <1>4, <1>10, <2>2, <2>3 DEF NoTime
  <2>5. walk[j - 1].contact + MessageGap <= walk[j].at BY <1>4, <1>10, <2>4
  <2>6. walk[j].at \in Nat /\ walk[i].at \in Nat BY <1>4
  <2>7. \A a, b, c \in Nat : a <= b /\ b + MessageGap <= c => a + MessageGap <= c
    BY ONLY SMT DEF MessageGap
  <2>8. walk[i].at <= walk[j - 1].contact BY <2>2, <2>3
  <2>. QED BY ONLY <2>4, <2>5, <2>6, <2>7, <2>8
<1>11. \A i \in 1..n : /\ messages[i].action \in {"request_details_update", "offer_split", "save_offer"}
                       /\ messages[i].channel \in {"email", "sms"}
  BY <1>1 DEF CustomerMessages
<1>12. \A i \in 1..n : walk[i].at # NoTime /\ contact # NoTime => contact + MessageGap <= walk[i].at
  BY <1>4, <1>9 DEF NoTime, MessageGap
<1>. QED BY <1>4, <1>6, <1>7, <1>8, <1>10, <1>11, <1>12 DEF sent

-----------------------------------------------------------------------------
(* A whole plan. *)
LEMMA HumansShape ==
  ASSUME NEW delays \in Seq(0..96), NEW t \in Nat
  PROVE  /\ Humans(delays, t) \in Seq(PlannedAttempts)
         /\ \A i \in DOMAIN Humans(delays, t) :
              /\ Humans(delays, t)[i].action = "notify_human"
              /\ Humans(delays, t)[i].channel = "none"
              /\ Humans(delays, t)[i].at \in t..(t + 96)
<1>. DEFINE n == Len(delays)
            h == Humans(delays, t)
<1>1. n \in Nat /\ DOMAIN delays = 1..n /\ \A i \in 1..n : delays[i] \in 0..96
  <2>. DEFINE D == 0..96
  <2>1. delays \in Seq(D) OBVIOUS
  <2>. HIDE DEF D
  <2>2. Len(delays) \in Nat /\ DOMAIN delays = 1..Len(delays)
        /\ \A i \in 1..Len(delays) : delays[i] \in D
    BY <2>1
  <2>. QED BY <2>2 DEF D
<1>2. h = [i \in 1..n |-> Attempt("notify_human", "none", t + delays[i])]
  BY <1>1 DEF Humans
<1>. HIDE DEF n, h
<1>3. \A i \in 1..n : /\ h[i] \in PlannedAttempts
                      /\ h[i].action = "notify_human" /\ h[i].channel = "none"
                      /\ h[i].at \in t..(t + 96)
  <2>. TAKE i \in 1..n
  <2>. DEFINE d == delays[i]
  <2>3. d \in 0..96 BY <1>1
  <2>4. \A e \in 0..96 : t + e \in Nat /\ t + e \in t..(t + 96) OBVIOUS
  <2>1. t + d \in Nat /\ t + d \in t..(t + 96) 
    <3>. HIDE DEF d
    <3>. QED BY <2>3, <2>4
  <2>2. h[i] = Attempt("notify_human", "none", t + delays[i]) BY <1>2
  <2>. QED BY <2>1, <2>2 DEF Attempt, PlannedAttempts, Actions
<1>4. h \in Seq(PlannedAttempts)
  <2>1. h = [i \in 1..n |-> h[i]] BY <1>2
  <2>. QED BY <1>1, <1>3, <2>1
<1>5. DOMAIN h = 1..n BY <1>2
<1>. QED BY <1>3, <1>4, <1>5 DEF h

LEMMA Concatenation ==
  ASSUME NEW S, NEW a \in Seq(S), NEW b \in Seq(S)
  PROVE  /\ a \o b \in Seq(S) /\ Len(a \o b) = Len(a) + Len(b)
         /\ \A i \in DOMAIN a : i \in DOMAIN (a \o b) /\ (a \o b)[i] = a[i]
         /\ \A i \in DOMAIN (a \o b) :
              \/ i \in DOMAIN a /\ (a \o b)[i] = a[i]
              \/ i - Len(a) \in DOMAIN b /\ (a \o b)[i] = b[i - Len(a)]
OBVIOUS

(* strategy_engine.py, plan(): the retries come first, then the messages,  *)
(* then the alerts, and the last attempt is the one write-off; nothing is  *)
(* later than it.                                                          *)
PlanParts(p, retries, sent, alerts, writeOff) ==
  /\ p \in Seq(PlannedAttempts)
  /\ Len(p) = Len(retries) + Len(sent) + Len(alerts) + 1
  /\ p[Len(p)] = Attempt("write_off", "none", writeOff)
  /\ \A i \in DOMAIN retries : i \in DOMAIN p /\ p[i] = retries[i]
  /\ \A i \in DOMAIN p :
       /\ p[i].at \in 0..writeOff
       /\ p[i].action = "write_off" => i = Len(p)
       /\ p[i].action = "retry" => i \in DOMAIN retries /\ p[i] = retries[i]
       /\ p[i].channel # "none" =>
            /\ p[i].action # "retry" /\ p[i].action # "write_off"
            /\ i - Len(retries) \in DOMAIN sent /\ p[i] = sent[i - Len(retries)]

LEMMA PlanHasParts ==
  ASSUME NEW debit, debit.monthly \in BOOLEAN, NEW who \in CustomerRecords, NEW t \in Instants
  PROVE  LET class == Classify(debit.code)
             writeOff == WriteOffAt(Escalates(class, debit, who), t)
             retries == Retries(class, debit, who, t)
         IN /\ writeOff \in {t + WriteOffAfter, t + MonthlyWriteOffAfter}
            /\ BoundedDates(Dates(retries))
            /\ PlanParts(Plan(debit, who, t), retries,
                         Messages(StrategyTable[class].messages, Dates(retries), who.contact,
                                  t, writeOff),
                         Humans(StrategyTable[class].humans, t), writeOff)
<1>. DEFINE class == Classify(debit.code)
            escalates == Escalates(class, debit, who)
            writeOff == WriteOffAt(escalates, t)
            retries == Retries(class, debit, who, t)
            strategy == StrategyTable[class]
            sent == Messages(strategy.messages, Dates(retries), who.contact, t, writeOff)
            alerts == Humans(strategy.humans, t)
            last == Attempt("write_off", "none", writeOff)
            p == Plan(debit, who, t)
<1>1. p = retries \o sent \o alerts \o <<last>> BY DEF Plan, PlanFor, Completed
<1>2. class \in FailureClass BY ClassifyTyped
<1>. HIDE DEF class
<1>3. strategy \in StrategyShape BY <1>2, TableShape
<1>4. t \in Nat /\ who.contact \in Nat BY DEF Instants, CustomerRecords
<1>5. writeOff \in {t + WriteOffAfter, t + MonthlyWriteOffAfter} BY DEF WriteOffAt
<1>6. writeOff \in Nat /\ t + 96 <= writeOff
  BY <1>4, <1>5 DEF WriteOffAfter, MonthlyWriteOffAfter
<1>7. /\ retries \in Seq(PlannedAttempts)
      /\ \A i \in DOMAIN retries : /\ retries[i].action = "retry" /\ retries[i].channel = "none"
                                   /\ retries[i].at \in 0..writeOff
  BY <1>2, RetriesShape
<1>. HIDE DEF strategy, writeOff, retries
<1>8. BoundedDates(Dates(retries)) BY <1>6, <1>7 DEF BoundedDates, Dates
<1>9. /\ sent \in Seq(PlannedAttempts)
      /\ \A i \in DOMAIN sent :
           /\ sent[i].action \in {"request_details_update", "offer_split", "save_offer"}
           /\ sent[i].at \in 0..writeOff
  <2>1. strategy.messages \in Seq(CustomerMessages) BY <1>3 DEF StrategyShape
  <2>. QED BY <1>4, <1>6, <1>8, <2>1, MessagesShape
<1>10. /\ alerts \in Seq(PlannedAttempts)
       /\ \A i \in DOMAIN alerts :
            /\ alerts[i].action = "notify_human" /\ alerts[i].channel = "none"
            /\ alerts[i].at \in t..(t + 96)
  <2>1. strategy.humans \in Seq(0..96) BY <1>3 DEF StrategyShape
  <2>. QED BY <1>4, <2>1, HumansShape
<1>11. \A i \in DOMAIN alerts : alerts[i].at \in 0..writeOff BY <1>4, <1>6, <1>10
<1>12. /\ last \in PlannedAttempts /\ last.at = writeOff
       /\ last.action = "write_off" /\ last.channel = "none"
  BY <1>6 DEF Attempt, PlannedAttempts, Actions
<1>. HIDE DEF sent, alerts, last, p
<1>. DEFINE q == retries \o sent
            r == q \o alerts
<1>13. /\ q \in Seq(PlannedAttempts) /\ Len(q) = Len(retries) + Len(sent)
       /\ \A i \in DOMAIN retries : i \in DOMAIN q /\ q[i] = retries[i]
       /\ \A i \in DOMAIN q :
            \/ i \in DOMAIN retries /\ q[i] = retries[i]
            \/ i - Len(retries) \in DOMAIN sent /\ q[i] = sent[i - Len(retries)]
  BY <1>7, <1>9, Concatenation
<1>. HIDE DEF q
<1>14. /\ r \in Seq(PlannedAttempts) /\ Len(r) = Len(q) + Len(alerts)
       /\ \A i \in DOMAIN q : i \in DOMAIN r /\ r[i] = q[i]
       /\ \A i \in DOMAIN r : \/ i \in DOMAIN q /\ r[i] = q[i]
                              \/ i - Len(q) \in DOMAIN alerts /\ r[i] = alerts[i - Len(q)]
  <2>1. q \in Seq(PlannedAttempts) BY <1>13
  <2>2. alerts \in Seq(PlannedAttempts) BY <1>10
  <2>. QED BY ONLY <2>1, <2>2, Concatenation
<1>15. p = r \o <<last>> BY <1>1 DEF q
<1>. HIDE DEF r
<1>16. /\ p \in Seq(PlannedAttempts) /\ Len(p) = Len(r) + 1 /\ p[Len(p)] = last
       /\ \A i \in DOMAIN r : i \in DOMAIN p /\ p[i] = r[i]
       /\ \A i \in DOMAIN p : (i \in DOMAIN r /\ p[i] = r[i]) \/ (i = Len(p) /\ p[i] = last)
  BY <1>12, <1>14, <1>15
<1>17. ASSUME NEW i \in DOMAIN p
       PROVE  /\ p[i].at \in 0..writeOff
              /\ p[i].action = "write_off" => i = Len(p)
              /\ p[i].action = "retry" => i \in DOMAIN retries /\ p[i] = retries[i]
              /\ p[i].channel # "none" =>
                   /\ p[i].action # "retry" /\ p[i].action # "write_off"
                   /\ i - Len(retries) \in DOMAIN sent /\ p[i] = sent[i - Len(retries)]
  <2>1. CASE i = Len(p) /\ p[i] = last BY <1>6, <1>12, <2>1
  <2>2. CASE i \in DOMAIN r /\ p[i] = r[i]
    <3>1. CASE i - Len(q) \in DOMAIN alerts /\ r[i] = alerts[i - Len(q)]
      BY <1>10, <1>11, <2>2, <3>1
    <3>2. CASE i \in DOMAIN q /\ r[i] = q[i]
      <4>1. CASE i \in DOMAIN retries /\ q[i] = retries[i] BY <1>7, <2>2, <3>2, <4>1
      <4>2. CASE i - Len(retries) \in DOMAIN sent /\ q[i] = sent[i - Len(retries)]
        BY <1>9, <2>2, <3>2, <4>2
      <4>. QED BY <1>13, <3>2, <4>1, <4>2
    <3>. QED BY <1>14, <2>2, <3>1, <3>2
  <2>. QED BY <1>16, <2>1, <2>2
<1>18. Len(p) = Len(retries) + Len(sent) + Len(alerts) + 1 BY <1>13, <1>14, <1>16
<1>19. \A i \in DOMAIN retries : i \in DOMAIN p /\ p[i] = retries[i]
  BY <1>13, <1>14, <1>16
<1>20. PlanParts(p, retries, sent, alerts, writeOff)
  BY <1>16, <1>17, <1>18, <1>19 DEF PlanParts, last
<1>. QED BY <1>5, <1>8, <1>20 DEF class, writeOff, retries, strategy, sent, alerts, p

-----------------------------------------------------------------------------
(* The walks: an instant is one the calendar knows, and what is planned is *)
(* the plan of the payment, the customer and the instant of the state.     *)
WalkInv ==
  /\ at \in Instants /\ YearOf(LocalDate(at)) \in FirstYear..LastYear
  /\ payment.monthly \in BOOLEAN
  /\ customer \in CustomerRecords
  /\ IF OfDates THEN plan = <<>> ELSE plan = Plan(payment, customer, at)

LEMMA LaterInstant ==
  ASSUME NEW t \in Instants, NEW n \in Nat
  PROVE  t + n \in Instants
BY DEF Instants, Dates1, LocalDate, AEST

LEMMA YearBounds ==
  ASSUME NEW date \in Dates1, NEW y \in Years
  PROVE  /\ DaysBeforeYear(y) < date => YearOf(date) >= y
         /\ date <= DaysBeforeYear(y + 1) => YearOf(date) <= y
<1>. DEFINE z == YearOf(date)
<1>1. z \in Years /\ DaysBeforeYear(z) < date /\ date <= DaysBeforeYear(z + 1)
  BY YearOfIsTheYear
<1>. HIDE DEF z
<1>2. z + 1 \in Years /\ y + 1 \in Years BY <1>1 DEF Years
<1>3. DaysBeforeYear(z) \in Nat /\ DaysBeforeYear(z + 1) \in Nat /\ DaysBeforeYear(y) \in Nat
      /\ DaysBeforeYear(y + 1) \in Nat
  BY <1>1, <1>2, YearLength
<1>4. z < y => DaysBeforeYear(z + 1) <= DaysBeforeYear(y) BY <1>1, YearsFollow
<1>5. y < z => DaysBeforeYear(y + 1) <= DaysBeforeYear(z) BY <1>1, YearsFollow
<1>. QED BY <1>1, <1>3, <1>4, <1>5 DEF z, Years, Dates1

LEMMA YearsInOrder ==
  ASSUME NEW d \in Dates1, NEW e \in Dates1, d <= e
  PROVE  YearOf(d) <= YearOf(e)
<1>1. YearOf(d) \in Years /\ DaysBeforeYear(YearOf(d)) < d BY YearOfIsTheYear
<1>. DEFINE y == YearOf(d)
<1>. HIDE DEF y
<1>2. DaysBeforeYear(y) < e /\ y \in Years
  <2>1. DaysBeforeYear(y) \in Nat BY <1>1, YearLength DEF y
  <2>. QED BY <1>1, <2>1 DEF Dates1, y
<1>3. YearOf(e) >= y /\ YearOf(e) \in Years BY <1>2, YearBounds, YearOfIsTheYear
<1>. QED BY <1>2, <1>3 DEF y, Years

LEMMA FirstInstant ==
  ASSUME NEW y \in Years
  PROVE  /\ Instant(Date(y, 1, 1), 0) \in Instants
         /\ YearOf(LocalDate(Instant(Date(y, 1, 1), 0))) = y
<1>1. DaysBeforeYear(y) \in Nat /\ DaysBeforeMonth(y, 1) = 0 BY YearLength, MonthTable
<1>2. Date(y, 1, 1) \in Nat /\ Date(y, 1, 1) >= 1 BY <1>1 DEF Date
<1>. DEFINE d == Date(y, 1, 1)
<1>. HIDE DEF d
<1>3. \A n \in Nat : n >= 1 => Instant(n, 0) \in Instants /\ LocalDate(Instant(n, 0)) = n
  BY DEF Instant, Instants, Dates1, LocalDate, AEST
<1>4. YearOf(d) = y
  <2>1. d = DaysBeforeYear(y) + 1 BY <1>1 DEF d, Date
  <2>2. d <= DaysBeforeYear(y + 1) /\ DaysBeforeYear(y) < d
    BY <1>1, <2>1, YearLength DEF LeapDay
  <2>3. d \in Dates1 BY <1>2 DEF Dates1, d
  <2>4. y \in Years OBVIOUS
  <2>. QED BY <2>2, <2>3, <2>4, YearOfIsTheYear
<1>. QED BY <1>2, <1>3, <1>4 DEF d

(* A later instant that is not past the end of a year is in the years up   *)
(* to that one.                                                            *)
LEMMA StillInTheYears ==
  ASSUME NEW t \in Instants, NEW n \in Nat, NEW first \in Nat, NEW y \in Years,
         YearOf(LocalDate(t)) >= first, LocalDate(t + n) <= Date(y, 12, 31)
  PROVE  YearOf(LocalDate(t + n)) \in first..y
<1>. DEFINE d == LocalDate(t)   e == LocalDate(t + n)
<1>1. d \in Dates1 /\ e \in Dates1 /\ d <= e
  BY DEF Instants, Dates1, LocalDate, AEST
<1>2. e <= Date(y, 12, 31) OBVIOUS
<1>. HIDE DEF d, e
<1>3. YearOf(d) <= YearOf(e) /\ YearOf(d) \in Years /\ YearOf(e) \in Years
  BY <1>1, YearsInOrder, YearOfIsTheYear
<1>4. Date(y, 12, 31) = DaysBeforeYear(y + 1)
  <2>1. DaysBeforeYear(y) \in Nat /\ LeapDay(y) \in 0..1 BY YearLength DEF LeapDay
  <2>2. DaysBeforeYear(y + 1) = DaysBeforeYear(y) + 365 + LeapDay(y) BY YearLength
  <2>3. DaysBeforeMonth(y, 12) = 334 + LeapDay(y) BY MonthTable
  <2>. QED BY <2>1, <2>2, <2>3 DEF Date
<1>5. YearOf(e) <= y BY <1>1, <1>2, <1>4, YearBounds
<1>. QED BY <1>3, <1>5 DEF d, e, Years

(* In every walk the state is one the calendar knows, and what is planned  *)
(* is the plan of that state.                                              *)
THEOREM WalkInvHolds == Walks => []WalkInv
<1>1. Outset => WalkInv
  <2>1. FirstYear \in Years /\ PlanFirst \in Years BY WalkAssumption DEF Years
  <2>2. StartOfDates => WalkInv
    <3>. SUFFICES ASSUME StartOfDates PROVE WalkInv OBVIOUS
    <3>1. at \in Instants /\ YearOf(LocalDate(at)) \in FirstYear..LastYear
      <4>1. at \in Instants /\ YearOf(LocalDate(at)) = FirstYear
        BY <2>1, FirstInstant DEF StartOfDates
      <4>. QED BY <4>1, WalkAssumption
    <3>2. customer \in CustomerRecords
      BY DEF StartOfDates, CustomerRecords, NoWeekday, NoTime
    <3>3. payment.monthly \in BOOLEAN /\ OfDates /\ plan = <<>>
      BY DEF StartOfDates, OfDates, NoPayment
    <3>. QED BY <3>1, <3>2, <3>3 DEF WalkInv
  <2>3. StartOfPlans => WalkInv
    <3>. SUFFICES ASSUME StartOfPlans PROVE WalkInv OBVIOUS
    <3>1. at \in Instants /\ YearOf(LocalDate(at)) \in FirstYear..LastYear
      <4>1. at \in Instants /\ YearOf(LocalDate(at)) = PlanFirst
        BY <2>1, FirstInstant DEF StartOfPlans
      <4>. QED BY <4>1, WalkAssumption
    <3>2. payment.monthly \in BOOLEAN BY WalkAssumption DEF StartOfPlans
    <3>3. customer \in CustomerRecords
      <4>. DEFINE contacts == {NoTime} \cup {at + hours : hours \in TriedContacts}
      <4>1. contacts \subseteq Nat BY WalkAssumption DEF StartOfPlans, NoTime
      <4>2. payment.code \in TriedCodes BY DEF StartOfPlans
      <4>3. /\ TriedPaydays[payment.code] \subseteq 0..NoWeekday
            /\ TriedBudgets[payment.code] \subseteq Nat
        BY <4>2, WalkAssumption
      <4>4. customer \in [payday : TriedPaydays[payment.code], used : TriedBudgets[payment.code],
                          contact : contacts]
        BY DEF StartOfPlans, CustomersFor
      <4>. HIDE DEF contacts
      <4>. QED BY <4>1, <4>3, <4>4 DEF CustomerRecords
    <3>4. ~ OfDates BY WalkAssumption DEF StartOfPlans, OfDates, NoPayment
    <3>. QED BY <3>1, <3>2, <3>3, <3>4 DEF StartOfPlans, WalkInv
  <2>. QED BY <2>2, <2>3 DEF Outset
<1>2. WalkInv /\ [Onward]_walkVars => WalkInv'
  <2>. SUFFICES ASSUME WalkInv, [Onward]_walkVars PROVE WalkInv' OBVIOUS
  <2>. USE DEF WalkInv
  <2>1. CASE NextInstant
    <3>1. at' \in Instants BY <2>1, LaterInstant, WalkAssumption DEF NextInstant
    <3>2. YearOf(LocalDate(at)) >= FirstYear /\ FirstYear \in Nat /\ LastYear \in Years
      BY WalkAssumption DEF Years
    <3>3. YearOf(LocalDate(at')) \in FirstYear..LastYear
      BY <2>1, <3>2, StillInTheYears, WalkAssumption DEF NextInstant
    <3>. QED BY <2>1, <3>1, <3>3 DEF NextInstant, OfDates
  <2>2. CASE FailLater
    <3>1. at' \in Instants BY <2>2, LaterInstant, WalkAssumption DEF FailLater
    <3>3. YearOf(LocalDate(at')) \in FirstYear..LastYear
      <4>1. YearOf(LocalDate(at)) >= FirstYear /\ FirstYear \in Nat /\ PlanLast \in Years
            /\ PlanLast <= LastYear /\ LastYear \in Nat
        BY WalkAssumption DEF Years
      <4>2. YearOf(LocalDate(at')) \in FirstYear..PlanLast
        BY <2>2, <4>1, StillInTheYears, WalkAssumption DEF FailLater
      <4>. QED BY <4>1, <4>2 DEF Years
    <3>2. customer' \in CustomerRecords
      <4>. DEFINE contact == IF customer.contact = NoTime THEN NoTime
                             ELSE customer.contact + PlanStep
      <4>1. contact \in Nat BY WalkAssumption DEF CustomerRecords, NoTime
      <4>2. customer' = [customer EXCEPT !.contact = contact] BY <2>2 DEF FailLater
      <4>. HIDE DEF contact
      <4>. QED BY <4>1, <4>2 DEF CustomerRecords
    <3>4. payment' = payment /\ plan' = Plan(payment', customer', at') /\ ~ OfDates
      BY <2>2 DEF FailLater, OfDates, OfPlans
    <3>. QED BY <3>1, <3>2, <3>3, <3>4 DEF OfDates
  <2>3. CASE UNCHANGED walkVars BY <2>3 DEF walkVars, OfDates
  <2>. QED BY <2>1, <2>2, <2>3 DEF Onward
<1>. QED BY <1>1, <1>2, PTL DEF Walks

(* What WalkInv says of a plan, in the parts the properties speak of. *)
PlanOfWalk ==
  LET class == Classify(payment.code)
      escalates == Escalates(class, payment, customer)
      retries == Retries(class, payment, customer, at)
      writeOff == WriteOffAt(escalates, at)
      sent == Messages(StrategyTable[class].messages, Dates(retries), customer.contact,
                       at, writeOff)
  IN /\ PlanParts(plan, retries, sent, Humans(StrategyTable[class].humans, at), writeOff)
     /\ BoundedDates(Dates(retries)) /\ writeOff \in Nat
     /\ StrategyTable[class].messages \in Seq(CustomerMessages)
     /\ retries \in Seq(PlannedAttempts)

LEMMA WalkHasParts == WalkInv /\ OfPlans => PlanOfWalk
<1>. SUFFICES ASSUME WalkInv, OfPlans PROVE PlanOfWalk OBVIOUS
<1>. DEFINE class == Classify(payment.code)
            writeOff == WriteOffAt(Escalates(class, payment, customer), at)
<1>1. plan = Plan(payment, customer, at) BY DEF WalkInv, OfPlans, OfDates
<1>2. /\ at \in Instants /\ at \in Nat /\ customer \in CustomerRecords
      /\ payment.monthly \in BOOLEAN
  BY DEF WalkInv, Instants
<1>3. /\ writeOff \in {at + WriteOffAfter, at + MonthlyWriteOffAfter}
      /\ BoundedDates(Dates(Retries(class, payment, customer, at)))
      /\ PlanParts(Plan(payment, customer, at), Retries(class, payment, customer, at),
                   Messages(StrategyTable[class].messages,
                            Dates(Retries(class, payment, customer, at)),
                            customer.contact, at, writeOff),
                   Humans(StrategyTable[class].humans, at), writeOff)
  <2>. HIDE DEF class, writeOff
  <2>. QED BY <1>2, PlanHasParts DEF class, writeOff
<1>4. writeOff \in Nat BY <1>2, <1>3 DEF WriteOffAfter, MonthlyWriteOffAfter
<1>5. StrategyTable[class].messages \in Seq(CustomerMessages)
  BY ClassifyTyped, TableShape DEF StrategyShape
<1>6. Retries(class, payment, customer, at) \in Seq(PlannedAttempts)
  <2>1. class \in FailureClass BY ClassifyTyped
  <2>. HIDE DEF class
  <2>. QED BY <1>2, <2>1, RetriesShape
<1>. QED BY <1>1, <1>3, <1>4, <1>5, <1>6 DEF PlanOfWalk

(* strategy_engine.py, _apply_message_gap: at most one message a day, the  *)
(* last one before the failure included, in every plan that can be made.   *)
THEOREM MessagesAreADayApart == Walks => []MessagesADayApart
<1>1. WalkInv => MessagesADayApart
  <2>. SUFFICES ASSUME WalkInv PROVE MessagesADayApart OBVIOUS
  <2>1. CASE OfDates BY <2>1 DEF WalkInv, MessagesADayApart
  <2>2. CASE OfPlans
    <3>. DEFINE class == Classify(payment.code)
                writeOff == WriteOffAt(Escalates(class, payment, customer), at)
                retries == Retries(class, payment, customer, at)
                messages == StrategyTable[class].messages
                sent == Messages(messages, Dates(retries), customer.contact, at, writeOff)
                n == Len(retries)
                contacts == {i \in DOMAIN plan : plan[i].channel # "none"
                                                 /\ plan[i].at # NoTime}
    <3>1. /\ PlanParts(plan, retries, sent, Humans(StrategyTable[class].humans, at), writeOff)
          /\ BoundedDates(Dates(retries)) /\ writeOff \in Nat
          /\ messages \in Seq(CustomerMessages) /\ retries \in Seq(PlannedAttempts)
      BY <2>2, WalkHasParts DEF PlanOfWalk
    <3>2. at \in Nat /\ customer.contact \in Nat BY DEF WalkInv, Instants, CustomerRecords
    <3>. HIDE DEF messages, retries, writeOff
    <3>3. /\ \A i \in DOMAIN sent : sent[i].at # NoTime /\ customer.contact # NoTime =>
                customer.contact + MessageGap <= sent[i].at
          /\ \A i, j \in DOMAIN sent :
                i < j /\ sent[i].at # NoTime /\ sent[j].at # NoTime =>
                  sent[i].at + MessageGap <= sent[j].at
      BY <3>1, <3>2, MessagesShape
    <3>. HIDE DEF sent
    <3>4. \A i \in contacts : i - n \in DOMAIN sent /\ plan[i] = sent[i - n]
                              /\ plan[i].at # NoTime
      BY <3>1 DEF PlanParts
    <3>5. contacts \subseteq Int BY <3>1 DEF PlanParts
    <3>6. n \in Int BY <3>1
    <3>7. \A i, j \in contacts : i < j => plan[i].at + MessageGap <= plan[j].at
      BY <3>3, <3>4, <3>5, <3>6
    <3>8. customer.contact # NoTime =>
            \A i \in contacts : customer.contact + MessageGap <= plan[i].at
      BY <3>3, <3>4
    <3>. QED BY <3>7, <3>8 DEF MessagesADayApart
  <2>. QED BY <2>1, <2>2 DEF OfDates, OfPlans
<1>. QED BY <1>1, WalkInvHolds, PTL

(* strategy_engine.py, _schedule_retries: the retries of a ladder without  *)
(* a monthly step stay the action's own delay apart, whatever the payday,  *)
(* the holidays and the budget make of them.                               *)
THEOREM RetriesKeepTheirInterval == Walks => []RetriesKeepInterval
<1>1. WalkInv => RetriesKeepInterval
  <2>. SUFFICES ASSUME WalkInv, OfPlans, ~ payment.monthly,
                       NEW i \in Planned("retry"), NEW j \in Planned("retry"), i < j
       PROVE  plan[i].at + StrategyTable[Class].retry.delay <= plan[j].at
    BY DEF RetriesKeepInterval
  <2>. DEFINE escalates == Escalates(Class, payment, customer)
              writeOff == WriteOffAt(escalates, at)
              retries == Retries(Class, payment, customer, at)
              sent == Messages(StrategyTable[Class].messages, Dates(retries),
                               customer.contact, at, writeOff)
              alerts == Humans(StrategyTable[Class].humans, at)
  <2>1. PlanParts(plan, retries, sent, alerts, writeOff)
    BY WalkHasParts DEF PlanOfWalk, Class
  <2>2. Class \in FailureClass BY ClassifyTyped DEF Class
  <2>3. at \in Instants /\ customer \in CustomerRecords /\ payment.monthly \in BOOLEAN
    BY DEF WalkInv
  <2>4. ~ escalates BY DEF Escalates
  <2>5. \A k, l \in DOMAIN retries :
          k < l /\ retries[k].at # NoTime /\ retries[l].at # NoTime =>
            retries[k].at + StrategyTable[Class].retry.delay <= retries[l].at
    BY <2>2, <2>3, <2>4, RetriesShape
  <2>. HIDE DEF retries, sent, alerts, writeOff
  <2>6. \A k \in Planned("retry") :
          k \in DOMAIN retries /\ plan[k] = retries[k] /\ plan[k].at # NoTime
    BY <2>1 DEF PlanParts, Planned
  <2>. QED BY <2>5, <2>6
<1>. QED BY <1>1, WalkInvHolds, PTL

(* scheduler.py, next_payday: the soonest such morning, at most a week     *)
(* away, and never the one it is asked from.                               *)
THEOREM PaydayMovesOn == Walks => []PaydayIsNextAndMovesOn
<1>1. WalkInv => PaydayIsNextAndMovesOn
  <2>. SUFFICES ASSUME WalkInv,
                       NEW weekdays \in {{3, 4}, {0}, {2}, {6}, {0, 1, 2, 3, 4, 5, 6}}
       PROVE  LET next == NextPayday(at, weekdays) IN
                /\ next \in (at + 1)..(at + 7 * 24)
                /\ LocalHour(next) = 8 /\ Weekday(LocalDate(next)) \in weekdays
                /\ \A t \in (at + 1)..(next - 1) :
                     ~ (LocalHour(t) = 8 /\ Weekday(LocalDate(t)) \in weekdays)
                /\ NextPayday(next, weekdays) > next
    BY DEF PaydayIsNextAndMovesOn
  <2>. DEFINE next == NextPayday(at, weekdays)
  <2>1. at \in Int BY DEF WalkInv, Instants
  <2>2. weekdays \in SUBSET (0..6) /\ weekdays # {} OBVIOUS
  <2>3. /\ next \in (at + 1)..(at + 7 * 24)
        /\ LocalHour(next) = PaydayHour /\ Weekday(LocalDate(next)) \in weekdays
        /\ \A u \in (at + 1)..(next - 1) :
             ~ (LocalHour(u) = PaydayHour /\ Weekday(LocalDate(u)) \in weekdays)
    BY <2>1, <2>2, NextPaydayIsNext
  <2>. HIDE DEF next
  <2>4. next \in Int BY <2>1, <2>3
  <2>5. NextPayday(next, weekdays) \in (next + 1)..(next + 7 * 24)
    BY <2>2, <2>4, NextPaydayIsNext
  <2>6. NextPayday(next, weekdays) > next
    <3>. DEFINE again == NextPayday(next, weekdays)
    <3>. HIDE DEF again
    <3>1. again \in (next + 1)..(next + 7 * 24) BY <2>5 DEF again
    <3>2. again > next BY <2>4, <3>1
    <3>. QED BY <3>2 DEF again
  <2>. QED BY <2>3, <2>6 DEF next, PaydayHour
<1>. QED BY <1>1, WalkInvHolds, PTL

(* scheduler.py, next_month_equivalent: the same day of the very next      *)
(* month, or its last one, at the same local hour, across every month end. *)
THEOREM MonthStepKeepsTheDay == Walks => []MonthStepKeepsBillingDay
<1>1. WalkInv => MonthStepKeepsBillingDay
  BY MonthStepIsAMonth DEF WalkInv, MonthStepKeepsBillingDay, Instants
<1>. QED BY <1>1, WalkInvHolds, PTL

-----------------------------------------------------------------------------
(* The holidays. *)
LEMMA SmallSetsAreFinite ==
  /\ \A a : IsFiniteSet({a})
  /\ \A a, b : IsFiniteSet({a, b})
  /\ \A a, b, c : IsFiniteSet({a, b, c})
<1>1. \A a : IsFiniteSet({a}) BY FS_Singleton
<1>2. \A a, b : IsFiniteSet({a, b})
  <2>. TAKE a, b
  <2>1. {a, b} = {a} \cup {b} OBVIOUS
  <2>2. IsFiniteSet({a} \cup {b}) BY <1>1, FS_AddElement
  <2>. QED BY <2>1, <2>2
<1>3. \A a, b, c : IsFiniteSet({a, b, c})
  <2>. TAKE a, b, c
  <2>1. {a, b, c} = {a, b} \cup {c} OBVIOUS
  <2>2. IsFiniteSet({a, b} \cup {c}) BY <1>2, FS_AddElement
  <2>. QED BY <2>1, <2>2
<1>. QED BY <1>1, <1>2, <1>3

LEMMA WeekdayTyped == \A d \in Int : Weekday(d) \in 0..6
BY DEF Weekday

(* holidays.py, _weekend_substitute: a weekend holiday moves to its Monday *)
(* or past the days that are taken, and never further.                     *)
LEMMA SubstituteShape ==
  ASSUME NEW day \in Int, NEW taken \in SUBSET Int, IsFiniteSet(taken)
  PROVE  LET to == WeekendSubstitute(day, taken)
             monday == day + 7 - Weekday(day)
         IN /\ to \in Int
            /\ Weekday(day) < Saturday => to = day
            /\ Weekday(day) >= Saturday =>
                 /\ to >= monday /\ to \notin taken
                 /\ \A x \in monday..(to - 1) : x \in taken
<1>. DEFINE monday == day + 7 - Weekday(day)
            most == Cardinality(taken)
            free == (monday..(monday + most)) \ taken
<1>1. Weekday(day) \in 0..6 BY WeekdayTyped
<1>2. CASE Weekday(day) < Saturday BY <1>2, <1>1 DEF WeekendSubstitute, Saturday
<1>3. CASE Weekday(day) >= Saturday
  <2>1. WeekendSubstitute(day, taken) = EarliestOf(free)
    BY <1>1, <1>3 DEF WeekendSubstitute, Saturday
  <2>2. monday \in Int BY <1>1
  <2>3. most \in Nat BY FS_CardinalityType
  <2>. HIDE DEF monday
  <2>4. free # {}
    <3>. SUFFICES ASSUME free = {} PROVE FALSE OBVIOUS
    <3>1. monday..(monday + most) \subseteq taken OBVIOUS
    <3>2. Cardinality(monday..(monday + most)) <= most BY <3>1, FS_Subset
    <3>3. monday + most \in Int /\ monday <= monday + most BY <2>2, <2>3
    <3>4. Cardinality(monday..(monday + most)) = (monday + most) - monday + 1
      <4>. DEFINE end == monday + most
      <4>. HIDE DEF end
      <4>. QED BY <2>2, <3>3, FS_Interval DEF end
    <3>5. Cardinality(monday..(monday + most)) = most + 1 BY <2>2, <2>3, <3>4
    <3>. QED BY <2>3, <3>2, <3>5
  <2>5. free \in SUBSET Int /\ \A x \in free : monday <= x BY <2>2, <2>3
  <2>6. EarliestOf(free) \in free /\ \A x \in free : EarliestOf(free) <= x
    <3>. HIDE DEF free
    <3>. QED BY <2>2, <2>4, <2>5, EarliestExists
  <2>7. \A x \in monday..(EarliestOf(free) - 1) : x \in taken
    <3>. SUFFICES ASSUME NEW x \in monday..(EarliestOf(free) - 1), x \notin taken PROVE FALSE
      OBVIOUS
    <3>. DEFINE first == EarliestOf(free)
    <3>1. first \in monday..(monday + most) /\ first \in Int BY <2>2, <2>3, <2>6
    <3>2. \A z \in free : first <= z BY <2>6
    <3>. HIDE DEF first
    <3>3. x \in Int /\ x < first BY <2>2, <3>1 DEF first
    <3>4. x \in monday..(monday + most) BY <2>2, <2>3, <3>1, <3>3
    <3>. QED BY <3>1, <3>2, <3>3, <3>4
  <2>8. EarliestOf(free) \in Int /\ EarliestOf(free) >= monday /\ EarliestOf(free) \notin taken
    BY <2>2, <2>5, <2>6
  <2>. HIDE DEF free
  <2>. QED BY <1>1, <1>3, <2>1, <2>7, <2>8 DEF monday, Saturday
<1>. QED BY <1>1, <1>2, <1>3 DEF Saturday

(* Where the four substituted holidays of a year are. *)
LEMMA SubstitutedDates ==
  ASSUME NEW y \in Years
  PROVE  LET base == DaysBeforeYear(y)
             leap == LeapDay(y)
             s == Substituted(y)
         IN /\ s.newYear \in (base + 1)..(base + 3) /\ Weekday(s.newYear) < Saturday
            /\ s.australia \in (base + 26)..(base + 28) /\ Weekday(s.australia) < Saturday
            /\ s.christmas \in (base + leap + 359)..(base + leap + 361)
            /\ Weekday(s.christmas) < Saturday
            /\ s.boxing \in (base + leap + 360)..(base + leap + 362)
            /\ Weekday(s.boxing) < Saturday
            /\ Weekday(Date(y, 12, 25)) # 6 => s.christmas # s.boxing
<1>. DEFINE base == DaysBeforeYear(y)
            leap == LeapDay(y)
            newYear == WeekendSubstitute(Date(y, 1, 1), {})
            australia == WeekendSubstitute(Date(y, 1, 26), {newYear})
            christmas == WeekendSubstitute(Date(y, 12, 25), {newYear, australia})
            boxing == WeekendSubstitute(Date(y, 12, 26), {newYear, australia, christmas})
<1>1. base \in Nat /\ leap \in 0..1 BY YearLength DEF LeapDay
<1>2. /\ Date(y, 1, 1) = base + 1 /\ Date(y, 1, 26) = base + 26
      /\ Date(y, 12, 25) = base + leap + 359 /\ Date(y, 12, 26) = base + leap + 360
  BY <1>1, MonthTable DEF Date
<1>3. Substituted(y) = [newYear |-> newYear, australia |-> australia,
                        christmas |-> christmas, boxing |-> boxing]
  BY DEF Substituted
<1>. HIDE DEF base, leap
<1>4. newYear \in (base + 1)..(base + 3) /\ Weekday(newYear) < Saturday
  <2>1. {} \in SUBSET Int /\ IsFiniteSet({}) BY FS_EmptySet
  <2>2. base + 1 \in Int BY <1>1
  <2>3. LET d == base + 1   monday == d + 7 - Weekday(d) IN
          /\ newYear \in Int
          /\ Weekday(d) < Saturday => newYear = d
          /\ Weekday(d) >= Saturday =>
               newYear >= monday /\ \A x \in monday..(newYear - 1) : FALSE
    <3>. DEFINE d == base + 1
    <3>. HIDE DEF d
    <3>1. d \in Int /\ Date(y, 1, 1) = d BY <1>2, <2>2 DEF d
    <3>. QED BY <2>1, <3>1, SubstituteShape DEF d
  <2>. HIDE DEF newYear
  <2>. QED BY <1>1, <2>3 DEF Weekday, Saturday
<1>. HIDE DEF newYear
<1>5. australia \in (base + 26)..(base + 28) /\ Weekday(australia) < Saturday
  <2>1. {newYear} \in SUBSET Int /\ IsFiniteSet({newYear})
    <3>1. newYear \in Int BY <1>1, <1>4
    <3>. QED BY <3>1, SmallSetsAreFinite
  <2>2. LET d == base + 26   monday == d + 7 - Weekday(d) IN
          /\ australia \in Int
          /\ Weekday(d) < Saturday => australia = d
          /\ Weekday(d) >= Saturday =>
               australia >= monday /\ \A x \in monday..(australia - 1) : x = newYear
    <3>. DEFINE d == base + 26
    <3>. HIDE DEF d
    <3>1. d \in Int /\ Date(y, 1, 26) = d BY <1>1, <1>2 DEF d
    <3>. QED BY <2>1, <3>1, SubstituteShape DEF d
  <2>. HIDE DEF australia
  <2>. QED BY <1>1, <1>4, <2>2 DEF Weekday, Saturday
<1>. HIDE DEF australia
<1>6. /\ christmas \in (base + leap + 359)..(base + leap + 361) /\ Weekday(christmas) < Saturday
      /\ Weekday(base + leap + 359) = 5 => christmas = base + leap + 361
      /\ Weekday(base + leap + 359) < 5 => christmas = base + leap + 359
  <2>1. {newYear, australia} \in SUBSET Int /\ IsFiniteSet({newYear, australia})
    <3>1. newYear \in Int /\ australia \in Int BY <1>1, <1>4, <1>5
    <3>. QED BY <3>1, SmallSetsAreFinite
  <2>2. LET d == base + leap + 359   monday == d + 7 - Weekday(d) IN
          /\ christmas \in Int
          /\ Weekday(d) < Saturday => christmas = d
          /\ Weekday(d) >= Saturday =>
               /\ christmas >= monday
               /\ \A x \in monday..(christmas - 1) : x \in {newYear, australia}
    <3>. DEFINE d == base + leap + 359
    <3>. HIDE DEF d
    <3>1. d \in Int /\ Date(y, 12, 25) = d BY <1>1, <1>2 DEF d
    <3>. QED BY <2>1, <3>1, SubstituteShape DEF d
  <2>. HIDE DEF christmas
  <2>. QED BY <1>1, <1>4, <1>5, <2>2 DEF Weekday, Saturday
<1>. HIDE DEF christmas
<1>7. /\ boxing \in (base + leap + 360)..(base + leap + 362) /\ Weekday(boxing) < Saturday
      /\ Weekday(base + leap + 359) # 6 => christmas # boxing
  <2>1. /\ {newYear, australia, christmas} \in SUBSET Int
        /\ IsFiniteSet({newYear, australia, christmas})
    <3>1. newYear \in Int /\ australia \in Int /\ christmas \in Int BY <1>1, <1>4, <1>5, <1>6
    <3>. QED BY <3>1, SmallSetsAreFinite
  <2>2. LET d == base + leap + 360   monday == d + 7 - Weekday(d) IN
          /\ boxing \in Int
          /\ Weekday(d) < Saturday => boxing = d
          /\ Weekday(d) >= Saturday =>
               /\ boxing >= monday /\ boxing # christmas
               /\ \A x \in monday..(boxing - 1) : x \in {newYear, australia, christmas}
    <3>. DEFINE d == base + leap + 360
    <3>. HIDE DEF d
    <3>1. d \in Int /\ Date(y, 12, 26) = d BY <1>1, <1>2 DEF d
    <3>. QED BY <2>1, <3>1, SubstituteShape DEF d
  <2>. HIDE DEF boxing
  <2>. QED BY <1>1, <1>4, <1>5, <1>6, <2>2 DEF Weekday, Saturday
<1>. HIDE DEF boxing
<1>. QED BY <1>2, <1>3, <1>4, <1>5, <1>6, <1>7 DEF base, leap

LEMMA FourApart ==
  \A a, b, c, d : a # b /\ a # c /\ a # d /\ b # c /\ b # d /\ c # d =>
    Cardinality({a, b, c, d}) = 4
<1>. TAKE a, b, c, d
<1>. HAVE a # b /\ a # c /\ a # d /\ b # c /\ b # d /\ c # d
<1>1. IsFiniteSet({a}) /\ Cardinality({a}) = 1 BY FS_Singleton
<1>2. {a, b} = {a} \cup {b} /\ {a, b, c} = {a, b} \cup {c} /\ {a, b, c, d} = {a, b, c} \cup {d}
  OBVIOUS
<1>3. IsFiniteSet({a, b}) /\ Cardinality({a, b}) = 2
  <2>1. IsFiniteSet({a} \cup {b}) /\ Cardinality({a} \cup {b}) = 1 + 1
    BY <1>1, FS_AddElement
  <2>. QED BY <1>2, <2>1
<1>4. IsFiniteSet({a, b, c}) /\ Cardinality({a, b, c}) = 3
  <2>1. c \notin {a, b} OBVIOUS
  <2>2. IsFiniteSet({a, b} \cup {c}) /\ Cardinality({a, b} \cup {c}) = 2 + 1
    BY <1>3, <2>1, FS_AddElement
  <2>. QED BY <1>2, <2>2
<1>5. Cardinality({a, b, c} \cup {d}) = 3 + 1
  <2>1. d \notin {a, b, c} OBVIOUS
  <2>. QED BY <1>4, <2>1, FS_AddElement
<1>. QED BY <1>2, <1>5

(* holidays.py, _weekend_substitute: in every year but those in which      *)
(* Christmas is a Sunday four holidays close four different working days.  *)
THEOREM SubstitutesStayApart == Walks => []SubstitutesAreApart
<1>1. WalkInv => SubstitutesAreApart
  <2>. DEFINE y == YearOf(LocalDate(at))
              s == Substituted(y)
  <2>. SUFFICES ASSUME WalkInv, Weekday(Date(y, 12, 25)) # 6
       PROVE  /\ Cardinality({s[name] : name \in DOMAIN s}) = 4
              /\ \A name \in DOMAIN s : Weekday(s[name]) < Saturday
    BY DEF SubstitutesAreApart
  <2>1. y \in Years BY YearOfIsTheYear DEF WalkInv, Instants
  <2>. HIDE DEF y
  <2>2. DOMAIN s = {"newYear", "australia", "christmas", "boxing"} BY DEF Substituted
  <2>. DEFINE base == DaysBeforeYear(y)
              leap == LeapDay(y)
  <2>3. base \in Nat /\ leap \in 0..1 BY <2>1, YearLength DEF LeapDay
  <2>4. /\ s.newYear \in (base + 1)..(base + 3) /\ Weekday(s.newYear) < Saturday
        /\ s.australia \in (base + 26)..(base + 28) /\ Weekday(s.australia) < Saturday
        /\ s.christmas \in (base + leap + 359)..(base + leap + 361)
        /\ Weekday(s.christmas) < Saturday
        /\ s.boxing \in (base + leap + 360)..(base + leap + 362)
        /\ Weekday(s.boxing) < Saturday
        /\ s.christmas # s.boxing
    BY <2>1, SubstitutedDates
  <2>. HIDE DEF base, leap, s
  <2>5. {s[name] : name \in DOMAIN s} = {s.newYear, s.australia, s.christmas, s.boxing}
    BY <2>2
  <2>6. /\ s.newYear # s.australia /\ s.newYear # s.christmas /\ s.newYear # s.boxing
        /\ s.australia # s.christmas /\ s.australia # s.boxing
    BY <2>3, <2>4
  <2>7. Cardinality({s.newYear, s.australia, s.christmas, s.boxing}) = 4
    <3>. DEFINE ny == s.newYear   au == s.australia   ch == s.christmas   bo == s.boxing
    <3>1. ny # au /\ ny # ch /\ ny # bo /\ au # ch /\ au # bo /\ ch # bo BY <2>4, <2>6
    <3>. HIDE DEF ny, au, ch, bo
    <3>2. Cardinality({ny, au, ch, bo}) = 4 BY ONLY <3>1, FourApart
    <3>. QED BY <3>2 DEF ny, au, ch, bo
  <2>. QED BY <2>2, <2>4, <2>5, <2>7 DEF s
<1>. QED BY <1>1, WalkInvHolds, PTL

-----------------------------------------------------------------------------
(* Easter. *)
(* holidays.py, _easter_sunday: with the numbers the computus finds, the   *)
(* date is a Sunday between 22 March and 25 April; March 21 is its zero.   *)
LEMMA EasterIsASunday ==
  ASSUME NEW y \in Years
  PROVE  LET base == DaysBeforeYear(y) + LeapDay(y) + 80
             a == y % 19   b == y \div 100
             h == (19 * a + b - b \div 4 - ((b - (b + 8) \div 25 + 1) \div 3) + 15) % 30
         IN \E l \in 0..6 :
              LET m == (a + 11 * h + 22 * l) \div 451 IN
              /\ EasterSunday(y) = base + h + l - 7 * m + 1
              /\ m \in 0..1 /\ h \in 0..29
              /\ h + l - 7 * m + 1 \in 1..35
              /\ Weekday(EasterSunday(y)) = 6
<1>. DEFINE a == y % 19
            b == y \div 100   c == y % 100
            d == b \div 4     e == b % 4
            f == (b + 8) \div 25
            g == (b - f + 1) \div 3
            h == (19 * a + b - d - g + 15) % 30
            i == c \div 4     k == c % 4
            l == (32 + 2 * e + 2 * i - h - k) % 7
            m == (a + 11 * h + 22 * l) \div 451
            n == h + l - 7 * m + 114
            base == DaysBeforeYear(y) + LeapDay(y) + 80
<1>1. EasterSunday(y) = Date(y, n \div 31, (n % 31) + 1) BY DEF EasterSunday
<1>2. /\ y \in Nat /\ a \in 0..18 /\ b \in Nat /\ c \in 0..99 /\ y = 100 * b + c
      /\ d \in Nat /\ e \in 0..3 /\ b = 4 * d + e
      /\ i \in 0..24 /\ k \in 0..3 /\ c = 4 * i + k
  BY DEF Years
<1>3. f \in Int /\ g \in Int BY <1>2
<1>. HIDE DEF a, b, c, d, e, f, g
<1>4. h \in 0..29 BY <1>2, <1>3
<1>. HIDE DEF h, i, k
<1>5. l \in 0..6 BY <1>2, <1>4
<1>. HIDE DEF l
<1>6. m \in 0..1 /\ h + l - 7 * m + 1 \in 1..35 /\ n \in 114..148 BY <1>2, <1>4, <1>5
<1>. HIDE DEF m
<1>7. base \in Nat /\ DaysBeforeYear(y) \in Nat /\ LeapDay(y) \in 0..1
  BY YearLength DEF LeapDay
<1>8. EasterSunday(y) = base + h + l - 7 * m + 1
  <2>. HIDE DEF n
  <2>1. CASE n \in 114..123
    <3>1. n \div 31 = 3 /\ n % 31 = n - 93 BY <2>1
    <3>2. Date(y, 3, (n - 93) + 1) = DaysBeforeYear(y) + (59 + LeapDay(y)) + (n - 93) + 1
      BY <1>7, <2>1, MonthTable DEF Date
    <3>. QED BY <1>1, <1>4, <1>5, <1>6, <1>7, <3>1, <3>2 DEF n
  <2>2. CASE n \in 124..148
    <3>1. n \div 31 = 4 /\ n % 31 = n - 124 BY <2>2
    <3>2. Date(y, 4, (n - 124) + 1) = DaysBeforeYear(y) + (90 + LeapDay(y)) + (n - 124) + 1
      BY <1>7, <2>2, MonthTable DEF Date
    <3>. QED BY <1>1, <1>4, <1>5, <1>6, <1>7, <3>1, <3>2 DEF n
  <2>. QED BY <1>6, <2>1, <2>2
<1>9. Weekday(EasterSunday(y)) = 6
  <2>1. DaysBeforeYear(y) + LeapDay(y) = 365 * (y - 1) + y \div 4 - y \div 100 + y \div 400
    BY DEF DaysBeforeYear, LeapDay, IsLeap, Years
  <2>2. y \div 4 = 25 * b + i /\ y \div 100 = b /\ y \div 400 = d
    BY <1>2
  <2>3. DaysBeforeYear(y) + LeapDay(y) = 365 * (100 * b + 4 * i + k - 1) + 24 * b + i + d
    BY <1>2, <2>1, <2>2
  <2>4. \E q \in Int : 32 + 2 * e + 2 * i - h - k = 7 * q + l
    <3>. DEFINE x == 32 + 2 * e + 2 * i - h - k
    <3>1. x \in Int BY <1>2, <1>4
    <3>2. l = x % 7 BY DEF l
    <3>. HIDE DEF x
    <3>3. \E q \in Int : x = 7 * q + l BY ONLY <3>1, <3>2
    <3>. QED BY <3>3 DEF x
  <2>5. PICK q \in Int : 32 + 2 * e + 2 * i - h - k = 7 * q + l BY <2>4
  <2>. DEFINE z == 20871 * d + 5218 * e + 209 * i + 52 * k - 36 - q - m
  <2>6. z \in Int BY <1>2, <1>6
  <2>7. EasterSunday(y) = 7 * z BY <1>2, <1>4, <1>5, <1>6, <1>8, <2>3, <2>5
  <2>. HIDE DEF z
  <2>. QED BY <2>6, <2>7 DEF Weekday
<1>. QED BY <1>4, <1>5, <1>6, <1>8, <1>9 DEF h, m, g, f, d, a, b

(* The first Sunday of a week of days is the one Sunday it has. *)
LEMMA OneSundayAWeek ==
  ASSUME NEW x \in Int, NEW e \in (x + 1)..(x + 7), Weekday(e) = 6
  PROVE  e = EarliestOf({d \in (x + 1)..(x + 7) : Weekday(d) = 6})
<1>. DEFINE S == {d \in (x + 1)..(x + 7) : Weekday(d) = 6}
<1>1. S \in SUBSET Int /\ e \in S /\ \A d \in S : x <= d OBVIOUS
<1>2. EarliestOf(S) \in S
  <2>. HIDE DEF S
  <2>. QED BY <1>1, EarliestExists
<1>3. \A d \in S : d = e BY DEF Weekday
<1>. HIDE DEF S
<1>4. e = EarliestOf(S) BY <1>2, <1>3
<1>. QED BY <1>4 DEF S

(* The full moon by the epact, as the computus reckons it, and the two     *)
(* exceptions of the table.                                                *)
LEMMA MoonTable ==
  \A a \in 0..18 :
    PaschalMoon[a + 1] = LET h == (19 * a + 24) % 30
                         IN IF h = 29 \/ (h = 28 /\ a > 10) THEN h - 1 ELSE h
<1>1. /\ PaschalMoon[1] = 24 /\ PaschalMoon[2] = 13 /\ PaschalMoon[3] = 2
      /\ PaschalMoon[4] = 21 /\ PaschalMoon[5] = 10 /\ PaschalMoon[6] = 28
      /\ PaschalMoon[7] = 18 /\ PaschalMoon[8] = 7 /\ PaschalMoon[9] = 26
      /\ PaschalMoon[10] = 15 /\ PaschalMoon[11] = 4 /\ PaschalMoon[12] = 23
      /\ PaschalMoon[13] = 12 /\ PaschalMoon[14] = 1 /\ PaschalMoon[15] = 20
      /\ PaschalMoon[16] = 9 /\ PaschalMoon[17] = 27 /\ PaschalMoon[18] = 17
      /\ PaschalMoon[19] = 6
  BY DEF PaschalMoon
<1>. TAKE a \in 0..18
<1>2. a = 0 \/ a = 1 \/ a = 2 \/ a = 3 \/ a = 4 \/ a = 5 \/ a = 6 \/ a = 7 \/ a = 8 \/ a = 9
      \/ a = 10 \/ a = 11 \/ a = 12 \/ a = 13 \/ a = 14 \/ a = 15 \/ a = 16 \/ a = 17 \/ a = 18
  OBVIOUS
<1>. QED BY <1>1, <1>2

(* holidays.py, _easter_sunday: the computus finds the Sunday the table of *)
(* full moons gives, for every golden number and every year of the table.  *)
SundayAfterMoon(y) ==
  LET moon == Date(y, 3, 21) + PaschalMoon[(y % 19) + 1]
  IN EarliestOf({d \in (moon + 1)..(moon + 7) : Weekday(d) = 6})

LEMMA EasterFollowsMoon ==
  ASSUME NEW y \in 1900..2199
  PROVE  EasterSunday(y) = SundayAfterMoon(y)
<1>. DEFINE base == DaysBeforeYear(y) + LeapDay(y) + 80
            a == y % 19   b == y \div 100
            h == (19 * a + b - b \div 4 - ((b - (b + 8) \div 25 + 1) \div 3) + 15) % 30
            after == PaschalMoon[a + 1]
            moon == Date(y, 3, 21) + after
<1>1. y \in Years BY DEF Years
<1>2. PICK l \in 0..6 :
        /\ EasterSunday(y) = base + h + l - 7 * ((a + 11 * h + 22 * l) \div 451) + 1
        /\ Weekday(EasterSunday(y)) = 6
  BY <1>1, EasterIsASunday
<1>3. h = (19 * a + 24) % 30
  <2>1. b \in {19, 20, 21} OBVIOUS
  <2>2. b - b \div 4 - ((b - (b + 8) \div 25 + 1) \div 3) + 15 = 24 BY <2>1
  <2>3. a \in Int OBVIOUS
  <2>. HIDE DEF a, b
  <2>4. 19 * a + b - b \div 4 - ((b - (b + 8) \div 25 + 1) \div 3) + 15 = 19 * a + 24
    BY <2>1, <2>2, <2>3
  <2>. QED BY <2>4
<1>4. base \in Nat /\ Date(y, 3, 21) = base
  BY <1>1, YearLength, MonthTable DEF LeapDay, Date
<1>5. a \in 0..18 OBVIOUS
<1>. HIDE DEF base, a, h
<1>6. /\ after = IF h = 29 \/ (h = 28 /\ a > 10) THEN h - 1 ELSE h
      /\ h \in 0..29
  <2>1. after = LET x == (19 * a + 24) % 30
                IN IF x = 29 \/ (x = 28 /\ a > 10) THEN x - 1 ELSE x
    BY <1>5, MoonTable
  <2>2. h \in 0..29 BY <1>3, <1>5
  <2>. QED BY <1>3, <2>1, <2>2
<1>. HIDE DEF after
<1>9. after \in Nat /\ h + l - 7 * ((a + 11 * h + 22 * l) \div 451) \in after..(after + 6)
  BY <1>5, <1>6
<1>7. EasterSunday(y) \in (moon + 1)..(moon + 7) /\ moon \in Int
  <2>. DEFINE n == h + l - 7 * ((a + 11 * h + 22 * l) \div 451)
              m == (a + 11 * h + 22 * l) \div 451
  <2>1. n \in after..(after + 6) /\ after \in Nat BY <1>9
  <2>2. EasterSunday(y) = base + n + 1
    <3>1. m \in Int /\ h \in Int /\ l \in Int BY <1>5, <1>6
    <3>2. EasterSunday(y) = base + h + l - 7 * m + 1 BY <1>2
    <3>3. n = h + l - 7 * m OBVIOUS
    <3>. HIDE DEF m, n
    <3>. QED BY <1>4, <3>1, <3>2, <3>3
  <2>. HIDE DEF n
  <2>3. moon = base + after BY <1>4
  <2>. HIDE DEF moon
  <2>. QED BY <1>4, <2>1, <2>2, <2>3
<1>8. EasterSunday(y) = EarliestOf({d \in (moon + 1)..(moon + 7) : Weekday(d) = 6})
  <2>. HIDE DEF moon
  <2>. QED BY <1>2, <1>7, OneSundayAWeek
<1>. QED BY <1>8 DEF moon, after, a, SundayAfterMoon

(* The computus gives the first Sunday after the paschal full moon.        *)
THEOREM EasterIsAfterTheMoon == Walks => []EasterIsSundayAfterMoon
<1>1. WalkInv => EasterIsSundayAfterMoon
  <2>. SUFFICES ASSUME WalkInv, NEW k \in -3..6
       PROVE  LET y == YearOf(LocalDate(at)) + 28 * k
                  moon == Date(y, 3, 21) + PaschalMoon[(y % 19) + 1]
              IN EasterSunday(y) = EarliestOf({d \in (moon + 1)..(moon + 7) : Weekday(d) = 6})
    BY DEF EasterIsSundayAfterMoon
  <2>. DEFINE y == YearOf(LocalDate(at)) + 28 * k
  <2>1. y \in 1900..2199
    <3>1. k \in Int /\ 0 - 3 <= k /\ k <= 6 OBVIOUS
    <3>2. YearOf(LocalDate(at)) \in FirstYear..LastYear BY DEF WalkInv
    <3>3. /\ FirstYear \in Nat /\ LastYear \in Nat
          /\ 1900 + 84 <= FirstYear /\ LastYear <= 2199 - 168
      BY WalkAssumption
    <3>. QED BY <3>1, <3>2, <3>3
  <2>. HIDE DEF y
  <2>2. EasterSunday(y) = SundayAfterMoon(y) BY <2>1, EasterFollowsMoon
  <2>. QED BY <2>2 DEF y, SundayAfterMoon
<1>. QED BY <1>1, WalkInvHolds, PTL

-----------------------------------------------------------------------------
(* How long the banks can be closed. *)
(* The holidays of a year that can be working days: Easter Saturday is not.*)
OnWorkingDays(y) ==
  LET s == Substituted(y)   e == EasterSunday(y)
  IN {s.newYear, s.australia, s.christmas, s.boxing, Date(y, 4, 25), e - 2, e + 1,
      NthWeekday(y, 6, Monday, 2), NthWeekday(y, 8, Monday, 1), NthWeekday(y, 10, Monday, 1)}

LEMMA WorkingDayHolidays ==
  ASSUME NEW y \in Years, NEW x \in Holidays(y), Weekday(x) < Saturday
  PROVE  x \in OnWorkingDays(y)
<1>1. x = EasterSunday(y) - 1 => Weekday(x) = 5
  <2>. DEFINE e == EasterSunday(y)
  <2>1. e \in Int /\ Weekday(e) = 6
    <3>1. DaysBeforeYear(y) \in Nat /\ LeapDay(y) \in 0..1 BY YearLength DEF LeapDay
    <3>2. \E h \in 0..29, l \in 0..6, m \in 0..1 :
            e = DaysBeforeYear(y) + LeapDay(y) + 80 + h + l - 7 * m + 1
      BY EasterIsASunday
    <3>. QED BY <3>1, <3>2, EasterIsASunday
  <2>. HIDE DEF e
  <2>2. Weekday(e - 1) = 5 BY <2>1 DEF Weekday
  <2>. QED BY <2>2 DEF e
<1>2. x # EasterSunday(y) - 1 BY <1>1 DEF Saturday
<1>3. {Substituted(y)[name] : name \in DOMAIN Substituted(y)} =
        {Substituted(y).newYear, Substituted(y).australia, Substituted(y).christmas,
         Substituted(y).boxing}
  <2>. DEFINE s == Substituted(y)
  <2>1. DOMAIN s = {"newYear", "australia", "christmas", "boxing"} BY DEF Substituted
  <2>. HIDE DEF s
  <2>2. {s[name] : name \in DOMAIN s} = {s.newYear, s.australia, s.christmas, s.boxing}
    BY <2>1
  <2>. QED BY <2>2 DEF s
<1>. QED BY <1>2, <1>3 DEF Holidays, OnWorkingDays

(* Where in the year they are. *)
LEMMA HolidayPlaces ==
  ASSUME NEW y \in Years
  PROVE  LET base == DaysBeforeYear(y)
             late == base + LeapDay(y)
             s == Substituted(y)
             e == EasterSunday(y)
         IN /\ base \in Nat /\ LeapDay(y) \in 0..1
            /\ s.newYear \in (base + 1)..(base + 3)
            /\ s.australia \in (base + 26)..(base + 28)
            /\ s.christmas \in (late + 359)..(late + 361)
            /\ s.boxing \in (late + 360)..(late + 362)
            /\ Date(y, 4, 25) = late + 115 /\ Date(y, 4, 23) = late + 113
            /\ e \in (late + 81)..(late + 115) /\ Weekday(e) = 6
            /\ NthWeekday(y, 6, Monday, 2) \in (late + 159)..(late + 165)
            /\ NthWeekday(y, 8, Monday, 1) \in (late + 213)..(late + 219)
            /\ NthWeekday(y, 10, Monday, 1) \in (late + 274)..(late + 280)
<1>. DEFINE base == DaysBeforeYear(y)
            late == base + LeapDay(y)
<1>1. base \in Nat /\ LeapDay(y) \in 0..1 BY YearLength DEF LeapDay
<1>2. /\ Date(y, 4, 25) = late + 115 /\ Date(y, 4, 23) = late + 113
      /\ Date(y, 6, 1) = late + 152 /\ Date(y, 8, 1) = late + 213 /\ Date(y, 10, 1) = late + 274
  BY <1>1, MonthTable DEF Date
<1>3. \A month \in {6, 8, 10}, n \in {1, 2} :
        NthWeekday(y, month, Monday, n) \in
          (Date(y, month, 1) + 7 * (n - 1))..(Date(y, month, 1) + 7 * (n - 1) + 6)
  <2>. TAKE month \in {6, 8, 10}, n \in {1, 2}
  <2>. DEFINE first == Date(y, month, 1)
  <2>1. first \in Int BY <1>1, <1>2
  <2>2. NthWeekday(y, month, Monday, n) = first + ((0 - Weekday(first)) % 7) + 7 * (n - 1)
    BY DEF NthWeekday, Monday
  <2>. HIDE DEF first
  <2>3. Weekday(first) \in Int BY <2>1, WeekdayTyped
  <2>4. (0 - Weekday(first)) % 7 \in 0..6 BY <2>3
  <2>. QED BY <2>1, <2>2, <2>4 DEF first
<1>4. EasterSunday(y) \in (late + 81)..(late + 115) /\ Weekday(EasterSunday(y)) = 6
  <2>1. \E n \in 1..35 : EasterSunday(y) = late + 80 + n /\ Weekday(EasterSunday(y)) = 6
    <3>. DEFINE a == y % 19   b == y \div 100
                h == (19 * a + b - b \div 4 - ((b - (b + 8) \div 25 + 1) \div 3) + 15) % 30
    <3>1. PICK l \in 0..6 :
            /\ EasterSunday(y) = late + 80 + h + l - 7 * ((a + 11 * h + 22 * l) \div 451) + 1
            /\ h + l - 7 * ((a + 11 * h + 22 * l) \div 451) + 1 \in 1..35
            /\ (a + 11 * h + 22 * l) \div 451 \in 0..1 /\ h \in 0..29
            /\ Weekday(EasterSunday(y)) = 6
      BY EasterIsASunday, ZenonT(60)
    <3>. DEFINE m == (a + 11 * h + 22 * l) \div 451
    <3>2. m \in 0..1 /\ h \in 0..29 /\ EasterSunday(y) = late + 80 + h + l - 7 * m + 1
          /\ h + l - 7 * m + 1 \in 1..35
      BY <3>1
    <3>. HIDE DEF m, h, late
    <3>3. EasterSunday(y) = late + 80 + (h + l - 7 * m + 1)
      BY <1>1, <3>2 DEF late
    <3>. QED BY <3>1, <3>2, <3>3
  <2>. HIDE DEF late
  <2>. QED BY <1>1, <2>1 DEF late
<1>5. /\ NthWeekday(y, 6, Monday, 2) \in (late + 159)..(late + 165)
      /\ NthWeekday(y, 8, Monday, 1) \in (late + 213)..(late + 219)
      /\ NthWeekday(y, 10, Monday, 1) \in (late + 274)..(late + 280)
  BY <1>1, <1>2, <1>3
<1>6. LET s == Substituted(y) IN
        /\ s.newYear \in (base + 1)..(base + 3)
        /\ s.australia \in (base + 26)..(base + 28)
        /\ s.christmas \in (late + 359)..(late + 361)
        /\ s.boxing \in (late + 360)..(late + 362)
  BY SubstitutedDates
<1>. QED BY <1>1, <1>2, <1>4, <1>5, <1>6

(* Only Good Friday, Easter Monday and an Anzac Day that follows it are    *)
(* three closed working days within five days, a new year's day included.  *)
LEMMA ThreeInFive ==
  ASSUME NEW y \in Years, NEW nextYear \in Int,
         NEW late, late = DaysBeforeYear(y) + LeapDay(y),
         nextYear \in (late + 366)..(late + 368),
         NEW a \in OnWorkingDays(y) \cup {nextYear}, NEW b \in OnWorkingDays(y) \cup {nextYear},
         NEW c \in OnWorkingDays(y) \cup {nextYear}, a < b, b < c, c <= a + 4,
         Weekday(b) < Saturday
  PROVE  LongEaster(y) /\ a = late + 111 /\ c = late + 115
<1>. DEFINE ny == Substituted(y).newYear      au == Substituted(y).australia
            ch == Substituted(y).christmas    bo == Substituted(y).boxing
            an == Date(y, 4, 25)              e == EasterSunday(y)
            ju == NthWeekday(y, 6, Monday, 2) ag == NthWeekday(y, 8, Monday, 1)
            oc == NthWeekday(y, 10, Monday, 1)
            names == {ny, au, ch, bo, an, e - 2, e + 1, ju, ag, oc, nextYear}
<1>1. a \in names /\ b \in names /\ c \in names BY DEF OnWorkingDays
<1>2. /\ DaysBeforeYear(y) \in Nat /\ LeapDay(y) \in 0..1
      /\ ny \in (DaysBeforeYear(y) + 1)..(DaysBeforeYear(y) + 3)
      /\ au \in (DaysBeforeYear(y) + 26)..(DaysBeforeYear(y) + 28)
      /\ ch \in (late + 359)..(late + 361) /\ bo \in (late + 360)..(late + 362)
      /\ an = late + 115 /\ Date(y, 4, 23) = late + 113
      /\ e \in (late + 81)..(late + 115) /\ Weekday(e) = 6
      /\ ju \in (late + 159)..(late + 165) /\ ag \in (late + 213)..(late + 219)
      /\ oc \in (late + 274)..(late + 280)
  BY HolidayPlaces
<1>. HIDE DEF ny, au, ch, bo, an, e, ju, ag, oc
<1>3. late \in Nat /\ ny \in (late + 0)..(late + 3) /\ au \in (late + 25)..(late + 28)
  BY <1>2
<1>4. a \in Int /\ b \in Int /\ c \in Int BY <1>1, <1>2, <1>3
(* Their neighbours within four days. *)
<1>5. \A x, z \in names : x < z /\ z <= x + 4 =>
        \/ x \in {an, e - 2, e + 1} /\ z \in {an, e - 2, e + 1}
        \/ x \in {ch, bo, nextYear} /\ z \in {ch, bo, nextYear}
  <2>. TAKE x, z \in names
  <2>. HAVE x < z /\ z <= x + 4
  <2>1. CASE x \in {ny, au} BY <1>2, <1>3, <2>1
  <2>2. CASE x \in {an, e - 2, e + 1} BY <1>2, <1>3, <2>2
  <2>3. CASE x \in {ju, ag, oc} BY <1>2, <1>3, <2>3
  <2>4. CASE x \in {ch, bo, nextYear} BY <1>2, <1>3, <2>4
  <2>. QED BY <2>1, <2>2, <2>3, <2>4
<1>6. a < c /\ b <= a + 4 /\ c <= b + 4 BY <1>4
<1>7. \/ a \in {an, e - 2, e + 1} /\ b \in {an, e - 2, e + 1} /\ c \in {an, e - 2, e + 1}
      \/ a \in {ch, bo, nextYear} /\ b \in {ch, bo, nextYear} /\ c \in {ch, bo, nextYear}
  BY <1>1, <1>5, <1>6, <1>2, <1>3
<1>8. ~ (a \in {ch, bo, nextYear} /\ b \in {ch, bo, nextYear} /\ c \in {ch, bo, nextYear})
  BY <1>2, <1>3, <1>6
<1>9. e = late + 113 /\ a = late + 111 /\ c = late + 115
  <2>1. a \in {an, e - 2, e + 1} /\ b \in {an, e - 2, e + 1} /\ c \in {an, e - 2, e + 1}
    BY <1>7, <1>8
  <2>2. e \in Int /\ an \in Int BY <1>2, <1>3
  <2>3. b # e /\ b # e - 1 BY <1>2, <2>2 DEF Weekday, Saturday
  <2>4. a = e - 2 /\ b = e + 1 /\ c = an /\ an = e + 2
    BY <1>2, <1>3, <1>4, <1>6, <2>1, <2>2, <2>3
  <2>. QED BY <1>2, <1>3, <2>2, <2>4
<1>. QED BY <1>2, <1>9 DEF LongEaster, e

(* Less than a year later is this year or the next. *)
LEMMA ThisYearOrNext ==
  ASSUME NEW d \in Dates1, NEW x \in d..(d + 365)
  PROVE  x \in Dates1 /\ YearOf(x) \in {YearOf(d), YearOf(d) + 1}
<1>. DEFINE y == YearOf(d)
<1>1. y \in Years /\ y + 1 \in Years /\ DaysBeforeYear(y) < d /\ d <= DaysBeforeYear(y + 1)
  BY YearOfIsTheYear DEF Years
<1>. HIDE DEF y
<1>2. x \in Dates1 /\ d <= x BY DEF Dates1
<1>3. y <= YearOf(x) /\ YearOf(x) \in Years BY <1>2, YearsInOrder, YearOfIsTheYear DEF y
<1>4. x <= DaysBeforeYear((y + 1) + 1)
  <2>1. DaysBeforeYear((y + 1) + 1) = DaysBeforeYear(y + 1) + 365 + LeapDay(y + 1)
    BY <1>1, YearLength
  <2>2. DaysBeforeYear(y + 1) \in Nat /\ LeapDay(y + 1) \in 0..1
    BY <1>1, YearLength DEF LeapDay
  <2>. QED BY <1>1, <2>1, <2>2 DEF Dates1
<1>5. YearOf(x) <= y + 1 BY <1>1, <1>2, <1>4, YearBounds
<1>. QED BY <1>1, <1>2, <1>3, <1>5 DEF Years, y

(* The banks are never closed for more than four days, or for five from    *)
(* Good Friday to Anzac Day.                                               *)
LEMMA ClosedDays ==
  ASSUME NEW d \in Dates1, \A x \in d..(d + 5) : YearOf(x) \in DOMAIN HolidayTable
  PROVE  \/ \E x \in d..(d + 4) : IsBusinessDay(x)
         \/ /\ LongEaster(YearOf(d)) /\ d = Date(YearOf(d), 4, 21)
            /\ IsBusinessDay(d + 5)
<1>. SUFFICES ASSUME \A x \in d..(d + 4) : ~ IsBusinessDay(x)
     PROVE  LongEaster(YearOf(d)) /\ d = Date(YearOf(d), 4, 21) /\ IsBusinessDay(d + 5)
  OBVIOUS
<1>. DEFINE y == YearOf(d)
            late == DaysBeforeYear(y) + LeapDay(y)
            nextYear == Substituted(y + 1).newYear
<1>1. d \in Nat /\ d >= 1 BY DEF Dates1
<1>2. y \in Years /\ y + 1 \in Years /\ DaysBeforeYear(y) < d /\ d <= DaysBeforeYear(y + 1)
  BY YearOfIsTheYear DEF Years
<1>3. \A x \in d..(d + 5) : x \in Dates1 /\ YearOf(x) \in {y, y + 1}
  <2>1. \A x \in d..(d + 5) : x \in d..(d + 365) BY <1>1
  <2>. QED BY <2>1, ThisYearOrNext
<1>. HIDE DEF y
<1>4. /\ DaysBeforeYear(y) \in Nat /\ LeapDay(y) \in 0..1
      /\ DaysBeforeYear(y + 1) = late + 365
      /\ nextYear \in (late + 366)..(late + 368)
  <2>1. DaysBeforeYear(y + 1) = DaysBeforeYear(y) + 365 + LeapDay(y)
        /\ DaysBeforeYear(y) \in Nat /\ LeapDay(y) \in 0..1
    BY <1>2, YearLength DEF LeapDay
  <2>2. nextYear \in (DaysBeforeYear(y + 1) + 1)..(DaysBeforeYear(y + 1) + 3)
    BY <1>2, HolidayPlaces
  <2>. HIDE DEF nextYear
  <2>. QED BY <2>1, <2>2
(* A closed working day of the five is a holiday of this year or the new   *)
(* year's day of the next.                                                 *)
<1>5. ASSUME NEW x \in d..(d + 4), Weekday(x) < Saturday
      PROVE  x \in OnWorkingDays(y) \cup {nextYear}
  <2>1. x \in d..(d + 5) /\ x \in Int BY <1>1
  <2>2. x \in HolidayTable[YearOf(x)] BY <1>5 DEF IsBusinessDay
  <2>3. x \in Holidays(YearOf(x)) BY <2>1, <2>2, TableAssumption
  <2>4. YearOf(x) \in Years /\ YearOf(x) \in {y, y + 1} BY <1>2, <1>3, <2>1
  <2>5. x \in OnWorkingDays(YearOf(x)) BY <1>5, <2>3, <2>4, WorkingDayHolidays
  <2>6. CASE YearOf(x) = y BY <2>5, <2>6
  <2>7. CASE YearOf(x) = y + 1
    <3>. DEFINE s == Substituted(y + 1)   e == EasterSunday(y + 1)
                base == DaysBeforeYear(y + 1)   leap == LeapDay(y + 1)
    <3>1. x <= base + 4 BY <1>1, <1>2, YearLength
    <3>2. /\ base \in Nat /\ leap \in 0..1
          /\ s.australia \in (base + 26)..(base + 28)
          /\ s.christmas \in (base + leap + 359)..(base + leap + 361)
          /\ s.boxing \in (base + leap + 360)..(base + leap + 362)
          /\ Date(y + 1, 4, 25) = base + leap + 115
          /\ e \in (base + leap + 81)..(base + leap + 115)
          /\ NthWeekday(y + 1, 6, Monday, 2) \in (base + leap + 159)..(base + leap + 165)
          /\ NthWeekday(y + 1, 8, Monday, 1) \in (base + leap + 213)..(base + leap + 219)
          /\ NthWeekday(y + 1, 10, Monday, 1) \in (base + leap + 274)..(base + leap + 280)
      BY <1>2, HolidayPlaces
    <3>3. x \in OnWorkingDays(y + 1) BY <2>5, <2>7
    <3>. HIDE DEF base, leap, s, e
    <3>4. x \in {s.newYear, s.australia, s.christmas, s.boxing, Date(y + 1, 4, 25), e - 2,
                 e + 1, NthWeekday(y + 1, 6, Monday, 2), NthWeekday(y + 1, 8, Monday, 1),
                 NthWeekday(y + 1, 10, Monday, 1)}
      BY <3>3 DEF OnWorkingDays, s, e
    <3>5. x = s.newYear BY <2>1, <3>1, <3>2, <3>4
    <3>. QED BY <3>5 DEF s
  <2>. QED BY <2>4, <2>6, <2>7
<1>6. \E a, b, c \in d..(d + 4) :
        /\ a < b /\ b < c
        /\ Weekday(a) < Saturday /\ Weekday(b) < Saturday /\ Weekday(c) < Saturday
  <2>1. Weekday(d) \in 0..6 BY <1>1, WeekdayTyped
  <2>. DEFINE On(n) == IF Weekday(d) + n < 7 THEN Weekday(d) + n ELSE Weekday(d) + n - 7
  <2>2. /\ Weekday(d + 0) = On(0) /\ Weekday(d + 1) = On(1) /\ Weekday(d + 2) = On(2)
        /\ Weekday(d + 3) = On(3) /\ Weekday(d + 4) = On(4)
    BY <1>1 DEF Weekday
  <2>. DEFINE Work(n) == Weekday(d + n) < Saturday
  <2>3. \/ Work(0) /\ Work(1) /\ Work(2)
        \/ Work(0) /\ Work(1) /\ Work(4)
        \/ Work(0) /\ Work(3) /\ Work(4)
        \/ Work(2) /\ Work(3) /\ Work(4)
        \/ Work(1) /\ Work(2) /\ Work(3)
    <3>. DEFINE w == Weekday(d)
    <3>1. w = 0 \/ w = 1 \/ w = 2 \/ w = 3 \/ w = 4 \/ w = 5 \/ w = 6 BY <2>1
    <3>. HIDE DEF w
    <3>. QED BY <2>2, <3>1 DEF Saturday, w
  <2>4. \A n \in 0..4 : d + n \in d..(d + 4) BY <1>1
  <2>5. \A m, n \in 0..4 : m < n => d + m < d + n BY <1>1
  <2>. HIDE DEF Work
  <2>6. \A n \in 0..4 : Work(n) => Weekday(d + n) < Saturday BY DEF Work
  <2>7. ASSUME NEW i \in 0..4, NEW j \in 0..4, NEW k \in 0..4, i < j, j < k,
               Work(i), Work(j), Work(k)
        PROVE  \E a, b, c \in d..(d + 4) :
                 /\ a < b /\ b < c
                 /\ Weekday(a) < Saturday /\ Weekday(b) < Saturday /\ Weekday(c) < Saturday
    <3>1. d + i \in d..(d + 4) /\ d + j \in d..(d + 4) /\ d + k \in d..(d + 4) BY <2>4
    <3>2. d + i < d + j /\ d + j < d + k BY <2>5, <2>7
    <3>3. /\ Weekday(d + i) < Saturday /\ Weekday(d + j) < Saturday
          /\ Weekday(d + k) < Saturday
      BY <2>6, <2>7
    <3>. QED BY <3>1, <3>2, <3>3
  <2>. QED BY <2>3, <2>7
<1>7. PICK a, b, c \in d..(d + 4) :
        /\ a < b /\ b < c
        /\ Weekday(a) < Saturday /\ Weekday(b) < Saturday /\ Weekday(c) < Saturday
  BY <1>6
<1>8. c <= a + 4 /\ a \in Int /\ c \in Int BY <1>1
<1>9. a \in OnWorkingDays(y) \cup {nextYear} /\ b \in OnWorkingDays(y) \cup {nextYear}
      /\ c \in OnWorkingDays(y) \cup {nextYear}
  BY <1>5, <1>7
<1>. HIDE DEF nextYear
<1>10. LongEaster(y) /\ a = late + 111 /\ c = late + 115
  <2>1. late = DaysBeforeYear(y) + LeapDay(y) /\ nextYear \in Int BY <1>4
  <2>. HIDE DEF late
  <2>. QED BY <1>2, <1>4, <1>7, <1>8, <1>9, <2>1, ThreeInFive
<1>11. d = late + 111 /\ d = Date(y, 4, 21)
  <2>1. d = late + 111 BY <1>1, <1>4, <1>7, <1>8, <1>10
  <2>2. Date(y, 4, 21) = late + 111 BY <1>2, <1>4, MonthTable DEF Date
  <2>. QED BY <2>1, <2>2
(* The day after Anzac Day is a Wednesday. *)
<1>12. IsBusinessDay(d + 5)
  <2>. DEFINE e == EasterSunday(y)   s == Substituted(y)
  <2>1. /\ s.newYear \in (DaysBeforeYear(y) + 1)..(DaysBeforeYear(y) + 3)
        /\ s.australia \in (DaysBeforeYear(y) + 26)..(DaysBeforeYear(y) + 28)
        /\ s.christmas \in (late + 359)..(late + 361)
        /\ s.boxing \in (late + 360)..(late + 362)
        /\ Date(y, 4, 25) = late + 115 /\ Date(y, 4, 23) = late + 113
        /\ e \in (late + 81)..(late + 115) /\ Weekday(e) = 6
        /\ NthWeekday(y, 6, Monday, 2) \in (late + 159)..(late + 165)
        /\ NthWeekday(y, 8, Monday, 1) \in (late + 213)..(late + 219)
        /\ NthWeekday(y, 10, Monday, 1) \in (late + 274)..(late + 280)
    BY <1>2, HolidayPlaces
  <2>2. e = late + 113 BY <1>10, <2>1 DEF LongEaster
  <2>. HIDE DEF e, s
  <2>3. late \in Nat /\ late <= DaysBeforeYear(y) + 1 BY <1>4
  <2>4. d + 5 = late + 116 /\ Weekday(d + 5) = 2
    BY <1>1, <1>11, <2>1, <2>2, <2>3 DEF Weekday
  <2>5. d + 5 \notin OnWorkingDays(y)
    <3>1. OnWorkingDays(y) = {s.newYear, s.australia, s.christmas, s.boxing, Date(y, 4, 25),
             e - 2, e + 1, NthWeekday(y, 6, Monday, 2), NthWeekday(y, 8, Monday, 1),
             NthWeekday(y, 10, Monday, 1)}
      BY DEF OnWorkingDays, e, s
    <3>. QED BY <1>4, <2>1, <2>2, <2>3, <2>4, <3>1
  <2>6. YearOf(d + 5) = y
    <3>1. d + 5 \in Dates1 BY <1>1 DEF Dates1
    <3>2. DaysBeforeYear(y) < d + 5 /\ d + 5 <= DaysBeforeYear(y + 1) BY <1>4, <2>3, <2>4
    <3>. QED BY <1>2, <3>1, <3>2, YearOfIsTheYear
  <2>7. d + 5 \notin Holidays(y) BY <1>2, <2>4, <2>5, WorkingDayHolidays DEF Saturday
  <2>8. d + 5 \in d..(d + 5) BY <1>1
  <2>9. HolidayTable[y] = Holidays(y) BY <2>6, <2>8, TableAssumption
  <2>. QED BY <2>4, <2>6, <2>7, <2>9 DEF IsBusinessDay, Saturday
<1>. QED BY <1>10, <1>11, <1>12 DEF y

(* holidays.py, roll_to_business_day: where the cache has the years, the   *)
(* fourteen days are never searched in vain.                               *)
LEMMA RollIsNear ==
  ASSUME NEW t \in Instants,
         \A x \in LocalDate(t)..(LocalDate(t) + 5) : YearOf(x) \in DOMAIN HolidayTable
  PROVE  LET d == LocalDate(t)   to == RollToBusinessDay(t) IN
         /\ IsBusinessDay(LocalDate(to))
         /\ \A x \in d..(LocalDate(to) - 1) : ~ IsBusinessDay(x)
         /\ \E n \in 0..5 : /\ to = t + 24 * n
                            /\ n = 5 => LongEaster(YearOf(d)) /\ d = Date(YearOf(d), 4, 21)
<1>. DEFINE d == LocalDate(t)   to == RollToBusinessDay(t)   b == NextBusinessDay(d)
<1>1. t \in Nat /\ d \in Dates1 /\ d \in Int BY DEF Instants, Dates1
<1>2. PICK n \in 0..SearchDays : to = t + 24 * n BY <1>1, RollIsForward
<1>3. LocalDate(to) = b BY <1>1, RollIsForward
<1>4. LocalDate(to) = d + n
  <2>. HIDE DEF to
  <2>. QED BY <1>1, <1>2 DEF LocalDate, AEST, SearchDays
<1>. HIDE DEF d, to
<1>5. /\ b \in d..(d + SearchDays)
      /\ b # d + SearchDays => IsBusinessDay(b)
      /\ \A x \in d..(b - 1) : ~ IsBusinessDay(x)
  BY <1>1, NextBusinessDayIsFirst
<1>6. \/ \E x \in d..(d + 4) : IsBusinessDay(x)
      \/ LongEaster(YearOf(d)) /\ d = Date(YearOf(d), 4, 21) /\ IsBusinessDay(d + 5)
  BY <1>1, ClosedDays DEF d
<1>. HIDE DEF b
<1>7. b = d + n /\ n \in Int /\ n >= 0 BY <1>3, <1>4 DEF SearchDays
<1>8. n <= 4 \/ (n = 5 /\ LongEaster(YearOf(d)) /\ d = Date(YearOf(d), 4, 21))
  <2>1. CASE \E x \in d..(d + 4) : IsBusinessDay(x) BY <1>1, <1>5, <1>7, <2>1
  <2>2. CASE LongEaster(YearOf(d)) /\ d = Date(YearOf(d), 4, 21) /\ IsBusinessDay(d + 5)
    BY <1>1, <1>5, <1>7, <2>2
  <2>. QED BY <1>6, <2>1, <2>2
<1>9. IsBusinessDay(b) BY <1>1, <1>5, <1>7, <1>8 DEF SearchDays
<1>. QED BY <1>2, <1>3, <1>5, <1>7, <1>8, <1>9 DEF d, to

(* The walks ask only for years the cache has. *)
LEMMA WalkIsCovered ==
  ASSUME WalkInv, NEW d \in Dates1, d <= LocalDate(at) + 360, LocalDate(at) <= d + 365
  PROVE  \A x \in d..(d + 5) : YearOf(x) \in DOMAIN HolidayTable
<1>. DEFINE a == LocalDate(at)
<1>1. a \in Dates1 /\ YearOf(a) \in FirstYear..LastYear BY DEF WalkInv, Instants
<1>2. FirstYear \in Nat /\ LastYear \in Nat
      /\ (FirstYear - 1)..(LastYear + 1) \subseteq DOMAIN HolidayTable
  BY WalkAssumption
<1>. HIDE DEF a
<1>. SUFFICES ASSUME NEW x \in d..(d + 5) PROVE YearOf(x) \in (FirstYear - 1)..(LastYear + 1)
  BY <1>2
<1>3. d \in Nat /\ a \in Nat /\ x \in Nat /\ x \in Dates1 /\ YearOf(x) \in Nat
  <2>1. d \in Nat /\ a \in Nat /\ x \in Nat /\ x \in Dates1 BY <1>1 DEF Dates1
  <2>. QED BY <2>1, YearOfIsTheYear DEF Years
<1>4. CASE a <= x
  <2>1. x \in a..(a + 365) BY <1>3, <1>4 DEF a
  <2>2. YearOf(x) \in {YearOf(a), YearOf(a) + 1} BY <1>1, <2>1, ThisYearOrNext
  <2>. QED BY <1>1, <1>2, <2>2
<1>5. CASE x < a
  <2>1. a \in x..(x + 365) BY <1>3, <1>5 DEF a
  <2>2. YearOf(a) \in {YearOf(x), YearOf(x) + 1} BY <1>3, <2>1, ThisYearOrNext
  <2>. QED BY <1>1, <1>2, <1>3, <2>2
<1>. QED BY <1>3, <1>4, <1>5

(* holidays.py, roll_to_business_day: the roll ends on the first open day, *)
(* within four days, or five after Good Friday 21 April.                   *)
THEOREM RollEndsOnFirstOpenDay == Walks => []RollsToFirstOpenDay
<1>1. WalkInv => RollsToFirstOpenDay
  <2>. SUFFICES ASSUME WalkInv
       PROVE  LET to == RollToBusinessDay(at) IN
         /\ to \in {at + 24 * n : n \in 0..(IF LongEaster(YearOf(LocalDate(at))) THEN 5 ELSE 4)}
         /\ IsBusinessDay(LocalDate(to))
         /\ \A d \in LocalDate(at)..(LocalDate(to) - 1) : ~ IsBusinessDay(d)
    BY DEF RollsToFirstOpenDay
  <2>. DEFINE d == LocalDate(at)   to == RollToBusinessDay(at)
  <2>1. at \in Instants /\ d \in Dates1 /\ d \in Nat BY DEF WalkInv, Instants, Dates1
  <2>2. \A x \in d..(d + 5) : YearOf(x) \in DOMAIN HolidayTable
    <3>1. d <= LocalDate(at) + 360 /\ LocalDate(at) <= d + 365 BY <2>1
    <3>. HIDE DEF d
    <3>. QED BY <2>1, <3>1, WalkIsCovered
  <2>3. /\ IsBusinessDay(LocalDate(to))
        /\ \A x \in d..(LocalDate(to) - 1) : ~ IsBusinessDay(x)
        /\ \E n \in 0..5 : to = at + 24 * n /\ (n = 5 => LongEaster(YearOf(d)))
    BY <2>1, <2>2, RollIsNear
  <2>. HIDE DEF d, to
  <2>4. to \in {at + 24 * n : n \in 0..(IF LongEaster(YearOf(d)) THEN 5 ELSE 4)}
    <3>1. PICK n \in 0..5 : to = at + 24 * n /\ (n = 5 => LongEaster(YearOf(d))) BY <2>3
    <3>2. n \in 0..(IF LongEaster(YearOf(d)) THEN 5 ELSE 4) BY <3>1
    <3>. QED BY <3>1, <3>2
  <2>. QED BY <2>3, <2>4 DEF d, to
<1>. QED BY <1>1, WalkInvHolds, PTL

(* strategy_engine.py, _schedule_retries: every retry of every plan is on  *)
(* a day the banks are open, after the failure and not past the write-off. *)
THEOREM RetriesAreOnOpenDays == Walks => []RetriesOnOpenDays
<1>1. WalkInv => RetriesOnOpenDays
  <2>. SUFFICES ASSUME WalkInv, NEW i \in Planned("retry")
       PROVE  /\ IsBusinessDay(LocalDate(plan[i].at))
              /\ plan[i].at > at /\ plan[i].at <= Closing
    BY DEF RetriesOnOpenDays
  <2>. DEFINE escalates == Escalates(Class, payment, customer)
              writeOff == WriteOffAt(escalates, at)
              retries == Retries(Class, payment, customer, at)
              sent == Messages(StrategyTable[Class].messages, Dates(retries),
                               customer.contact, at, writeOff)
              alerts == Humans(StrategyTable[Class].humans, at)
  <2>1. OfPlans BY DEF WalkInv, OfDates, OfPlans, Planned
  <2>2. PlanParts(plan, retries, sent, alerts, writeOff) /\ writeOff \in Nat
    BY <2>1, WalkHasParts DEF PlanOfWalk, Class
  <2>3. Class \in FailureClass BY ClassifyTyped DEF Class
  <2>4. at \in Instants /\ customer \in CustomerRecords /\ payment.monthly \in BOOLEAN
    BY DEF WalkInv
  <2>5. \A k \in DOMAIN retries :
          /\ retries[k].at \in 0..writeOff
          /\ retries[k].at # NoTime =>
               /\ retries[k].at > at
               /\ \E u \in Instants : retries[k].at = RollToBusinessDay(u)
    BY <2>3, <2>4, RetriesShape
  <2>6. writeOff <= at + MonthlyWriteOffAfter /\ at \in Nat
    BY <2>4 DEF WriteOffAt, WriteOffAfter, MonthlyWriteOffAfter, Instants
  <2>. HIDE DEF retries, sent, alerts, writeOff
  <2>7. i \in DOMAIN retries /\ plan[i] = retries[i] /\ plan[i].at # NoTime
    BY <2>2 DEF PlanParts, Planned
  <2>8. Closing = writeOff BY <2>2 DEF PlanParts, Closing, Attempt
  <2>9. plan[i].at \in Nat /\ plan[i].at > at /\ plan[i].at <= writeOff
    BY <2>2, <2>5, <2>7
  <2>10. PICK u \in Instants : plan[i].at = RollToBusinessDay(u) BY <2>5, <2>7
  <2>11. IsBusinessDay(LocalDate(RollToBusinessDay(u)))
    <3>. DEFINE to == RollToBusinessDay(u)   d == LocalDate(u)
    <3>1. u \in Int /\ d \in Dates1 BY DEF Instants
    <3>2. PICK n \in 0..SearchDays : to = u + 24 * n BY <3>1, RollIsForward
    <3>3. to = plan[i].at BY <2>10
    <3>. HIDE DEF to
    <3>4. u + 24 * n > at /\ u + 24 * n <= at + MonthlyWriteOffAfter
          /\ n \in Int /\ n >= 0 /\ n <= 14
      BY <2>2, <2>6, <2>9, <3>1, <3>2, <3>3 DEF SearchDays, MonthlyWriteOffAfter
    <3>5. d <= LocalDate(at) + 360 /\ LocalDate(at) <= d + 365
      BY <2>6, <3>1, <3>4 DEF LocalDate, AEST, MonthlyWriteOffAfter
    <3>. HIDE DEF d
    <3>6. \A x \in d..(d + 5) : YearOf(x) \in DOMAIN HolidayTable
      BY <3>1, <3>5, WalkIsCovered
    <3>. QED BY <3>6, RollIsNear DEF d
  <2>. QED BY <2>8, <2>9, <2>10, <2>11
<1>. QED BY <1>1, WalkInvHolds, PTL

(* The third retry of a monthly-sized debit. *)
LEMMA MonthlyRetry ==
  ASSUME NEW class \in FailureClass, NEW debit, NEW who \in CustomerRecords,
         NEW t \in Instants, Escalates(class, debit, who)
  PROVE  LET retries == Retries(class, debit, who, t) IN
         /\ 3 \in DOMAIN retries
         /\ retries[3] = Attempt("retry", "none",
                           Within(t + MonthlyWriteOffAfter,
                                  RollToBusinessDay(NextMonthEquivalent(t))))
<1>. DEFINE retry == StrategyTable[class].retry
            repeats == Repeats(class, who)
            writeOff == WriteOffAt(Escalates(class, debit, who), t)
            times == RetryTimes(retry, repeats, TRUE, who, t)
            ladder == Ladder(times, repeats, writeOff)
<1>1. repeats >= 3 /\ repeats \in 0..4 BY RepeatsTyped DEF Escalates, MonthlyAttempt
<1>2. BudgetLeft(who) \in Nat /\ BudgetLeft(who) # 0 BY <1>1, RepeatsTyped
<1>3. Escalates(class, debit, who) = TRUE
  <2>1. Escalates(class, debit, who) \in BOOLEAN
    <3>1. StrategyTable[class].retry.align \in BOOLEAN
      BY TableShape DEF StrategyShape, RetryRules
    <3>. QED BY <3>1 DEF Escalates
  <2>. QED BY <2>1
<1>4. Retries(class, debit, who, t) = ladder BY <1>2, <1>3 DEF Retries
<1>5. writeOff = t + MonthlyWriteOffAfter BY DEF WriteOffAt
<1>6. retry \in RetryRules /\ repeats \in Nat BY <1>1, TableShape DEF StrategyShape
<1>. HIDE DEF repeats, retry, writeOff
<1>7. /\ times \in [0..repeats -> Instants]
      /\ times[0] = t
      /\ \A n \in 1..repeats :
           times[n] = Stepped(retry, TRUE, who, n, CountedFrom(times, n, TRUE))
  <2>1. TRUE \in BOOLEAN OBVIOUS
  <2>. QED BY <1>6, <2>1, RetryTimesStep, ZenonT(60)
<1>. HIDE DEF times
<1>8. times[3] = RollToBusinessDay(NextMonthEquivalent(t))
  <2>1. 3 \in 1..repeats BY <1>1
  <2>2. CountedFrom(times, 3, TRUE) = t BY <1>7 DEF CountedFrom, MonthlyAttempt
  <2>3. times[3] = Stepped(retry, TRUE, who, 3, t) BY <1>7, <2>1, <2>2
  <2>. QED BY <2>3 DEF Stepped, Presentable, MonthlyAttempt
<1>9. DOMAIN ladder = 1..repeats /\ ladder[3] = Attempt("retry", "none", Within(writeOff, times[3]))
  BY <1>1 DEF Ladder
<1>. QED BY <1>1, <1>4, <1>5, <1>8, <1>9

(* strategies.yaml, settings: a plan lives for the longer horizon only     *)
(* where its monthly attempt is scheduled, and past the shorter one.       *)
THEOREM LongHorizonIsNeeded == Walks => []LongHorizonIsUsed
<1>1. WalkInv => LongHorizonIsUsed
  <2>. SUFFICES ASSUME WalkInv, OfPlans, Closing = at + MonthlyWriteOffAfter,
                       ~ LongEaster(YearOf(LocalDate(at)))
       PROVE  \E i \in Planned("retry") : plan[i].at > at + WriteOffAfter
    BY DEF LongHorizonIsUsed
  <2>. DEFINE escalates == Escalates(Class, payment, customer)
              writeOff == WriteOffAt(escalates, at)
              retries == Retries(Class, payment, customer, at)
              sent == Messages(StrategyTable[Class].messages, Dates(retries),
                               customer.contact, at, writeOff)
              alerts == Humans(StrategyTable[Class].humans, at)
              month == NextMonthEquivalent(at)
              to == RollToBusinessDay(month)
              d == LocalDate(month)
  <2>1. PlanParts(plan, retries, sent, alerts, writeOff)
    BY WalkHasParts DEF PlanOfWalk, Class
  <2>2. Class \in FailureClass BY ClassifyTyped DEF Class
  <2>3. at \in Instants /\ at \in Nat /\ LocalDate(at) \in Dates1
        /\ customer \in CustomerRecords
    BY DEF WalkInv, Instants
  <2>4. Closing = writeOff BY <2>1 DEF PlanParts, Closing, Attempt
  <2>5. escalates
    BY <2>3, <2>4 DEF WriteOffAt, WriteOffAfter, MonthlyWriteOffAfter
  <2>6. 3 \in DOMAIN retries
        /\ retries[3] = Attempt("retry", "none", Within(at + MonthlyWriteOffAfter, to))
    BY <2>2, <2>3, <2>5, MonthlyRetry
  <2>7. month \in Instants /\ month - at \in (28 * 24)..(31 * 24) BY <2>3, MonthStepIsLater
  <2>8. d \in Dates1 /\ d - LocalDate(at) \in 28..31
    BY <2>3, MonthStepIsAMonth
  <2>9. to <= at + MonthlyWriteOffAfter /\ to > at + WriteOffAfter
    <3>1. \A x \in d..(d + 5) : YearOf(x) \in DOMAIN HolidayTable
      <4>1. d <= LocalDate(at) + 360 /\ LocalDate(at) <= d + 365 BY <2>3, <2>8 DEF Dates1
      <4>. HIDE DEF d
      <4>. QED BY <2>8, <4>1, WalkIsCovered
    <3>2. PICK n \in 0..5 :
            to = month + 24 * n
            /\ (n = 5 => LongEaster(YearOf(d)) /\ d = Date(YearOf(d), 4, 21))
      BY <2>7, <3>1, RollIsNear
    <3>. HIDE DEF d, to
    <3>3. n # 5
      <4>. SUFFICES ASSUME LongEaster(YearOf(d)), d = Date(YearOf(d), 4, 21) PROVE FALSE
        BY <3>2
      <4>. DEFINE y == YearOf(d)   a == LocalDate(at)
      <4>1. y \in Years /\ d <= DaysBeforeYear(y + 1) /\ DaysBeforeYear(y) < d
        BY <2>8, YearOfIsTheYear
      <4>2. d = Date(y, 4, 21) OBVIOUS
      <4>. HIDE DEF y
      <4>3. d = DaysBeforeYear(y) + 90 + LeapDay(y) + 21 BY <4>1, <4>2, YearLength, MonthTable
        DEF Date, LeapDay
      <4>4. DaysBeforeYear(y) \in Nat /\ LeapDay(y) \in 0..1 BY <4>1, YearLength DEF LeapDay
      <4>5. DaysBeforeYear(y) < a /\ a <= DaysBeforeYear(y + 1)
        BY <2>3, <2>8, <4>1, <4>3, <4>4, YearLength DEF Dates1
      <4>6. YearOf(a) = y BY <2>3, <4>1, <4>5, YearOfIsTheYear
      <4>. QED BY <4>6 DEF y
    <3>4. month \in Nat BY <2>7 DEF Instants
    <3>. HIDE DEF month
    <3>. QED BY <2>3, <2>7, <3>2, <3>3, <3>4 DEF WriteOffAfter, MonthlyWriteOffAfter
  <2>. HIDE DEF retries, sent, alerts, writeOff, escalates, month, d
  <2>10. to \in Nat
    <3>1. month \in Int BY <2>7 DEF Instants
    <3>2. to \in Int BY <3>1, RollIsForward
    <3>. QED BY <2>3, <2>9, <3>2 DEF WriteOffAfter
  <2>. HIDE DEF to
  <2>11. Within(at + MonthlyWriteOffAfter, to) = to
    BY <2>3, <2>9, <2>10 DEF Within, MonthlyWriteOffAfter
  <2>12. retries[3].at = to /\ retries[3].action = "retry" BY <2>6, <2>11 DEF Attempt
  <2>13. 3 \in DOMAIN plan /\ plan[3] = retries[3] BY <2>1, <2>6 DEF PlanParts
  <2>14. to # NoTime BY <2>3, <2>9, <2>10 DEF NoTime, WriteOffAfter
  <2>15. 3 \in Planned("retry") BY <2>12, <2>13, <2>14 DEF Planned
  <2>. QED BY <2>9, <2>12, <2>13, <2>15
<1>. QED BY <1>1, WalkInvHolds, PTL
=============================================================================
