---------------------- MODULE RecurringSchedule_proofs ----------------------
(***************************************************************************)
(* What RecurringSchedule says of the time stamps, for every start the     *)
(* calendar has, every hour, weekday, date and week, every number of time  *)
(* stamps and every delay.                                                 *)
(***************************************************************************)
EXTENDS RecurringSchedule, WellFoundedInduction, TLAPS

\* A set of natural numbers has a least element.
LEMMA Least ==
  ASSUME NEW S \in SUBSET Nat, S # {}
  PROVE  \E n \in S : \A m \in S : n <= m
<1>1. PICK n \in S : \A m \in S : <<m, n>> \notin OpToRel(<, Nat)
  BY ONLY NatLessThanWellFounded, WFMin, S \in SUBSET Nat, S # {}
<1>2. ASSUME NEW m \in S PROVE n <= m
  <2>1. <<m, n>> \in Nat \X Nat /\ <<m, n>>[1] = m /\ <<m, n>>[2] = n
    OBVIOUS
  <2>2. <<m, n>> \notin {ss \in Nat \X Nat : ss[1] < ss[2]}
    BY <1>1 DEF OpToRel
  <2>. QED  BY <2>1, <2>2
<1>. QED  BY <1>2

LEMMA CallIs ==
  ASSUME NEW c \in Calls
  PROVE  /\ c.function \in {"hourly", "daily", "weekly", "byDate", "byWeekday"}
         /\ c.n \in Nat \ {0}
         /\ c.function # "hourly" => c.hour \in 0 .. 23
         /\ c.function \in {"weekly", "byWeekday"} => c.day \in 0 .. 6
         /\ c.function = "byDate" => c.date \in 1 .. 28
         /\ c.function = "byWeekday" => c.week \in Nat \ {0}
BY CallAssumption
-----------------------------------------------------------------------------
(***************************************************************************)
(* The calendar.  MonthStart is recursive; a table of the days before each *)
(* month shows that the recursion has a solution, from which the rest      *)
(* follows: the first days of the months are those its equation says.      *)
(***************************************************************************)
Table == [m \in Months |-> 365 * (m \div 12) + (IF m > 13 THEN 1 ELSE 0) +
  (CASE m % 12 = 0 -> 0   [] m % 12 = 1 -> 31  [] m % 12 = 2 -> 59  [] m % 12 = 3 -> 90
     [] m % 12 = 4 -> 120 [] m % 12 = 5 -> 151 [] m % 12 = 6 -> 181 [] m % 12 = 7 -> 212
     [] m % 12 = 8 -> 243 [] m % 12 = 9 -> 273 [] m % 12 = 10 -> 304
     [] m % 12 = 11 -> 334)]

LEMMA TableFits ==
  Table = [m \in Months |-> IF m = 0 THEN 0 ELSE Table[m - 1] + DaysIn(m - 1)]
<1>1. ASSUME NEW m \in Months
      PROVE  Table[m] = IF m = 0 THEN 0 ELSE Table[m - 1] + DaysIn(m - 1)
  BY DEF Table, Months, DaysIn, IsLeap, FirstYear
<1>2. Table \in [Months -> {Table[m] : m \in Months}]
  BY Zenon DEF Table
<1>. HIDE DEF Table
<1>. QED  BY <1>1, <1>2

LEMMA MonthStartFits ==
  MonthStart = [m \in Months |-> IF m = 0 THEN 0 ELSE MonthStart[m - 1] + DaysIn(m - 1)]
BY TableFits DEF MonthStart

LEMMA DaysInIs == ASSUME NEW m \in Months PROVE DaysIn(m) \in 28 .. 31
BY DEF DaysIn, Months

LEMMA MonthStartType == MonthStart \in [Months -> Nat]
<1>. DEFINE S == {m \in Months : MonthStart[m] \notin Nat}
<1>. SUFFICES S = {}
  BY MonthStartFits
<1>. SUFFICES ASSUME S # {} PROVE FALSE
  OBVIOUS
<1>1. S \in SUBSET Nat
  BY DEF Months
<1>. HIDE DEF S
<1>2. PICK m \in S : \A n \in S : m <= n
  BY <1>1, Least
<1>. USE DEF S
<1>3. m \in Months /\ MonthStart[m] \notin Nat
  OBVIOUS
<1>4. m = 0 \/ m - 1 \in Months \ S
  BY <1>2, <1>3 DEF Months
<1>. QED  BY <1>3, <1>4, MonthStartFits, DaysInIs DEF Months

LEMMA NextMonth ==
  ASSUME NEW m \in Months, m # 47
  PROVE  m + 1 \in Months /\ MonthStart[m + 1] = MonthStart[m] + DaysIn(m)
<1>. m + 1 \in Months /\ m + 1 # 0 /\ (m + 1) - 1 = m
  BY DEF Months
<1>. HIDE DEF Months
<1>. QED  BY MonthStartFits

\* Months do not overlap, and none has more than 31 days.
LEMMA MonthsApart ==
  ASSUME NEW m \in Months, NEW n \in Months, m < n
  PROVE  /\ MonthStart[m] + DaysIn(m) <= MonthStart[n]
         /\ MonthStart[n] <= MonthStart[m] + 31 * (n - m)
<1>. DEFINE Apart(k) == /\ MonthStart[m] + DaysIn(m) <= MonthStart[k]
                        /\ MonthStart[k] <= MonthStart[m] + 31 * (k - m)
            S == {k \in Months : m < k /\ ~Apart(k)}
<1>. SUFFICES ASSUME S # {} PROVE FALSE
  OBVIOUS
<1>1. S \in SUBSET Nat
  BY DEF Months
<1>. HIDE DEF S
<1>2. PICK k \in S : \A j \in S : k <= j
  BY <1>1, Least
<1>3. k \in Months /\ m < k /\ ~Apart(k)
  BY DEF S
<1>4. k - 1 \in Months /\ k - 1 # 47 /\ (k - 1) + 1 = k
  BY <1>3 DEF Months
<1>5. MonthStart[k] = MonthStart[k - 1] + DaysIn(k - 1) /\ DaysIn(k - 1) \in 28 .. 31
  BY <1>4, NextMonth, DaysInIs
<1>6. MonthStart[m] \in Nat /\ MonthStart[k - 1] \in Nat /\ DaysIn(m) \in 28 .. 31 /\ m \in Nat
  BY <1>4, MonthStartType, DaysInIs DEF Months
<1>7. CASE k - 1 = m
  <2>. k - m = 1
    BY <1>3, <1>7 DEF Months
  <2>. QED  BY <1>3, <1>5, <1>6, <1>7
<1>8. CASE k - 1 # m
  <2>1. m < k - 1 /\ k - 1 \notin S
    BY <1>2, <1>3, <1>4, <1>8 DEF Months
  <2>2. Apart(k - 1)
    BY <1>4, <2>1 DEF S
  <2>3. 31 * (k - m) = 31 * (k - 1 - m) + 31
    BY <1>3 DEF Months
  <2>. QED  BY <1>3, <1>5, <1>6, <2>2, <2>3
<1>. QED  BY <1>7, <1>8

InMonth(day, m) == MonthStart[m] <= day /\ day < MonthStart[m] + DaysIn(m)

\* A day of month m is in no other.
LEMMA MonthAtIs ==
  ASSUME NEW t \in Nat, NEW m \in Months, InMonth(t \div Day, m)
  PROVE  MonthAt(t) = m
<1>. DEFINE d == t \div Day
<1>1. d \in Nat
  BY DEF Day, Hour
<1>. HIDE DEF d
<1>2. ASSUME NEW n \in Months, InMonth(d, n) PROVE n = m
  <2>. MonthStart[m] \in Nat /\ MonthStart[n] \in Nat /\ DaysIn(m) \in Nat /\ DaysIn(n) \in Nat
    BY MonthStartType, DaysInIs
  <2>. m < n \/ n < m \/ n = m
    BY DEF Months
  <2>. QED  BY <1>1, <1>2, MonthsApart DEF InMonth, d
<1>3. MonthAt(t) = CHOOSE n \in Months : InMonth(d, n)
  BY DEF MonthAt, InMonth, d
<1>4. InMonth(d, m)
  BY DEF d
<1>. QED  BY <1>2, <1>3, <1>4

\* A start is in the calendar.
LEMMA StartIs ==
  ASSUME NEW s \in Starts
  PROVE  /\ s \in Nat /\ s \div Day \in Nat
         /\ MonthAt(s) \in Months /\ InMonth(s \div Day, MonthAt(s))
<1>. DEFINE d == s \div Day
            S == {m \in Months : d < MonthStart[m] + DaysIn(m)}
<1>1. s \in Nat /\ s < UTC(2026, 11, 32, 0)
  BY CalendarAssumption
<1>2. UTC(2026, 11, 32, 0) = (MonthStart[47] + 31) * Day
  BY MonthStartType DEF UTC, FirstYear, Months, Day, Hour
<1>3. 47 \in Months /\ DaysIn(47) = 31 /\ MonthStart[47] \in Nat
  BY MonthStartType DEF DaysIn, Months
<1>4. d \in Nat /\ d < MonthStart[47] + 31
  BY <1>1, <1>2, <1>3 DEF Day, Hour
<1>. HIDE DEF d
<1>5. S # {} /\ S \in SUBSET Nat
  BY <1>3, <1>4 DEF Months
<1>. HIDE DEF S
<1>6. PICK m \in S : \A n \in S : m <= n
  BY <1>5, Least
<1>7. m \in Months /\ d < MonthStart[m] + DaysIn(m)
  BY DEF S
<1>8. MonthStart[m] <= d
  <2>1. CASE m = 0
    <3>. MonthStart[0] = 0
      BY MonthStartFits DEF Months
    <3>. QED  BY <1>4, <2>1
  <2>2. CASE m # 0
    <3>1. m - 1 \in Months /\ m - 1 # 47 /\ (m - 1) + 1 = m /\ m - 1 < m
      BY <1>7, <2>2 DEF Months
    <3>2. m - 1 \notin S
      BY <1>6, <3>1 DEF Months
    <3>3. ~(d < MonthStart[m - 1] + DaysIn(m - 1))
      BY <3>1, <3>2 DEF S
    <3>4. MonthStart[m] = MonthStart[m - 1] + DaysIn(m - 1)
      BY <3>1, NextMonth
    <3>. QED  BY <1>4, <1>7, <3>3, <3>4, MonthStartType
  <2>. QED  BY <2>1, <2>2
<1>9. MonthAt(s) = m
  BY <1>1, <1>7, <1>8, MonthAtIs DEF InMonth, d
<1>. QED  BY <1>1, <1>4, <1>7, <1>8, <1>9 DEF InMonth, d
-----------------------------------------------------------------------------
(***************************************************************************)
(* Hours and days: what Date reads from an instant, and the instant UTC    *)
(* makes of them.                                                          *)
(***************************************************************************)
At(day, hour) == day * Day + hour * Hour

LEMMA Clock ==
  ASSUME NEW d \in Nat, NEW h \in 0 .. 23
  PROVE  /\ At(d, h) \in Nat /\ At(d, h) \div Day = d /\ UTCHours(At(d, h)) = h
         /\ At(d, h) % Hour = 0 /\ At(d, h) \div Hour = 24 * d + h
         /\ UTCDay(At(d, h)) = d % 7
BY DEF At, Day, Hour, UTCHours, UTCDay

LEMMA TicksLater ==
  ASSUME NEW d \in Nat, NEW r \in 0 .. Day - 1
  PROVE  At(d, 0) + r \in Nat /\ (At(d, 0) + r) \div Day = d
BY DEF At, Day, Hour

LEMMA HourIs ==
  ASSUME NEW h \in Nat
  PROVE  UTCHours(h * Hour) = h % 24 /\ UTCDay(h * Hour) = (h \div 24) % 7
BY DEF Day, Hour, UTCHours, UTCDay

LEMMA InstantIs ==
  ASSUME NEW t \in Nat
  PROVE  /\ t \div Day \in Nat /\ UTCHours(t) \in 0 .. 23
         /\ At(t \div Day, UTCHours(t)) <= t /\ t < At(t \div Day, UTCHours(t)) + Hour
         /\ t \div Hour = 24 * (t \div Day) + UTCHours(t)
BY DEF At, Day, Hour, UTCHours

LEMMA UTCIs ==
  ASSUME NEW s \in Starts, NEW date \in Int, NEW h \in Int
  PROVE  /\ UTC(UTCFullYear(s), UTCMonth(s), date, h) = At(MonthStart[MonthAt(s)] + date - 1, h)
         /\ \A k \in Nat : UTC(UTCFullYear(s), UTCMonth(s) + k, date, h)
                            = At(MonthStart[MonthAt(s) + k] + date - 1, h)
<1>. DEFINE m == MonthAt(s)
<1>1. m \in Nat
  BY StartIs DEF Months
<1>. HIDE DEF m
<1>2. /\ 12 * ((FirstYear + m \div 12) - FirstYear) + (m % 12) = m
      /\ \A k \in Nat : 12 * ((FirstYear + m \div 12) - FirstYear) + ((m % 12) + k) = m + k
  BY <1>1 DEF FirstYear
<1>. QED  BY <1>2 DEF UTC, UTCFullYear, UTCMonth, At, m

LEMMA DateIs ==
  ASSUME NEW s \in Starts, NEW h \in Int
  PROVE  /\ UTC(UTCFullYear(s), UTCMonth(s), UTCDate(s), h) = At(s \div Day, h)
         /\ \A e \in Int : UTC(UTCFullYear(s), UTCMonth(s), UTCDate(s) + e, h)
                            = At(s \div Day + e, h)
<1>1. MonthStart[MonthAt(s)] \in Nat /\ s \div Day \in Nat
  BY StartIs, MonthStartType
<1>2. UTCDate(s) \in Int /\ UTCDate(s) = s \div Day - MonthStart[MonthAt(s)] + 1
  BY <1>1 DEF UTCDate
<1>3. ASSUME NEW date \in Int
      PROVE  UTC(UTCFullYear(s), UTCMonth(s), date, h) = At(MonthStart[MonthAt(s)] + date - 1, h)
  BY UTCIs
<1>4. ASSUME NEW e \in Int
      PROVE  UTC(UTCFullYear(s), UTCMonth(s), UTCDate(s) + e, h) = At(s \div Day + e, h)
  <2>1. MonthStart[MonthAt(s)] + (UTCDate(s) + e) - 1 = s \div Day + e /\ UTCDate(s) + e \in Int
    BY <1>1, <1>2
  <2>. QED  BY <1>3, <2>1
<1>5. MonthStart[MonthAt(s)] + UTCDate(s) - 1 = s \div Day
  BY <1>1, <1>2
<1>6. UTC(UTCFullYear(s), UTCMonth(s), UTCDate(s), h) = At(s \div Day, h)
  BY <1>2, <1>3, <1>5
<1>. QED  BY <1>4, <1>6
-----------------------------------------------------------------------------
(***************************************************************************)
(* What the functions of the Recurrer return.                              *)
(***************************************************************************)
LEMMA HourlyResult ==
  ASSUME NEW c \in Calls, NEW s \in Starts, c.function = "hourly"
  PROVE  Result(c, s) = [i \in 1 .. c.n |-> (s \div Hour + i) * Hour]
<1>. s \in Nat /\ c.n \in Nat
  BY StartIs, CallIs
<1>1. Result(c, s) = [i \in 1 .. c.n |-> s - (s % Hour) + Hour + (i - 1) * Hour]
  BY DEF Result, GetHourlyRecurringTimestamps, Times
<1>2. \A i \in 1 .. c.n : s - (s % Hour) + Hour + (i - 1) * Hour = (s \div Hour + i) * Hour
  BY DEF Hour
<1>. QED  BY <1>1, <1>2

\* Whether the hour of the day is over on the day of the start.
Later(s, h) == IF UTCHours(s) < h THEN 0 ELSE 1

LEMMA DailyResult ==
  ASSUME NEW c \in Calls, NEW s \in Starts, c.function = "daily"
  PROVE  Result(c, s) = [i \in 1 .. c.n |-> At(s \div Day + Later(s, c.hour) + i - 1, c.hour)]
<1>. s \in Nat /\ s \div Day \in Nat /\ c.n \in Nat /\ c.hour \in 0 .. 23
  BY StartIs, CallIs
<1>. DEFINE startDay == IF UTCHours(s) < c.hour THEN UTCDate(s) ELSE UTCDate(s) + 1
            first == UTC(UTCFullYear(s), UTCMonth(s), startDay, c.hour)
<1>1. Result(c, s) = [i \in 1 .. c.n |-> first + (i - 1) * Day]
  BY DEF Result, GetDailyRecurringTimestamps, Times
<1>2. first = At(s \div Day + Later(s, c.hour), c.hour)
  BY DateIs DEF Later
<1>. HIDE DEF first
<1>3. Later(s, c.hour) \in 0 .. 1
  BY DEF Later
<1>4. \A i \in 1 .. c.n : first + (i - 1) * Day = At(s \div Day + Later(s, c.hour) + i - 1, c.hour)
  BY <1>2, <1>3 DEF At, Day, Hour
<1>. QED  BY <1>1, <1>4

\* The days until the weekday.
LEMMA WeekdayIs ==
  ASSUME NEW d \in Nat, NEW day \in 0 .. 6, NEW same \in BOOLEAN
  PROVE  LET f == FindWeekdayStartDate(d % 7, day, same)
         IN  /\ f \in 0 .. 7 /\ (d + f) % 7 = day
             /\ f = 0 <=> d % 7 = day /\ same
             /\ \A g \in 1 .. f - 1 : (d + g) % 7 # day
BY DEF FindWeekdayStartDate

LEMMA WeeklyResult ==
  ASSUME NEW c \in Calls, NEW s \in Starts, c.function = "weekly"
  PROVE  LET f == FindWeekdayStartDate(UTCDay(s), c.day, UTCHours(s) < c.hour)
         IN  Result(c, s) =
               [i \in 1 .. c.n |-> At(s \div Day + f, c.hour) + (i - 1) * Milliseconds604800]
<1>. s \in Nat /\ s \div Day \in Nat /\ c.n \in Nat /\ c.hour \in 0 .. 23 /\ c.day \in 0 .. 6
  BY StartIs, CallIs
<1>. DEFINE f == FindWeekdayStartDate(UTCDay(s), c.day, UTCHours(s) < c.hour)
            first == UTC(UTCFullYear(s), UTCMonth(s), UTCDate(s) + f, c.hour)
<1>1. Result(c, s) = [i \in 1 .. c.n |-> first + (i - 1) * Milliseconds604800]
  BY DEF Result, GetWeeklyRecurringTimestamps, Times
<1>2. f \in Int
  BY DEF FindWeekdayStartDate, UTCDay
<1>. HIDE DEF f
<1>3. first = At(s \div Day + f, c.hour)
  BY <1>2, DateIs
<1>. QED  BY <1>1, <1>3 DEF f

\* The months a monthly function computes are in the calendar.
LEMMA MonthsReached ==
  ASSUME NEW c \in Calls, NEW s \in Starts, c.function \in {"byDate", "byWeekday"},
         NEW e \in 0 .. 1, NEW i \in 1 .. c.n
  PROVE  MonthAt(s) + (e + i - 1) \in Months /\ e + i - 1 \in Nat
<1>. DEFINE m == MonthAt(s)
            n == c.n
<1>1. m + n \in Months /\ m \in Months /\ n \in Nat /\ i \in 1 .. n
  BY CalendarAssumption, StartIs, CallIs
<1>. HIDE DEF m, n
<1>2. e + i - 1 \in 0 .. n
  BY <1>1
<1>3. m + (e + i - 1) \in Months
  BY <1>1, <1>2 DEF Months
<1>. QED  BY <1>2, <1>3 DEF m

\* Whether the date is over in the month of the start.
DateOver(s, date) == IF UTCDate(s) <= date THEN 0 ELSE 1

LEMMA ByDateResult ==
  ASSUME NEW c \in Calls, NEW s \in Starts, c.function = "byDate"
  PROVE  Result(c, s) = [i \in 1 .. c.n |->
           At(MonthStart[MonthAt(s) + (DateOver(s, c.date) + i - 1)] + c.date - 1, c.hour)]
<1>. c.n \in Nat /\ c.hour \in Int /\ c.date \in Int /\ UTCMonth(s) \in Nat
  BY StartIs, CallIs DEF UTCMonth, Months
<1>. DEFINE e == DateOver(s, c.date)
            month == UTCMonth(s) + (IF UTCDate(s) <= c.date THEN 0 ELSE 1)
<1>1. Result(c, s) = [i \in 1 .. c.n |-> UTC(UTCFullYear(s), month + i - 1, c.date, c.hour)]
  BY DEF Result, GetMonthlyRecurringTimestampsByDate
<1>2. e \in 0 .. 1 /\ month = UTCMonth(s) + e
  BY DEF DateOver
<1>. HIDE DEF e, month
<1>3. ASSUME NEW i \in 1 .. c.n
      PROVE  UTC(UTCFullYear(s), month + i - 1, c.date, c.hour)
               = At(MonthStart[MonthAt(s) + (e + i - 1)] + c.date - 1, c.hour)
  <2>1. month + i - 1 = UTCMonth(s) + (e + i - 1) /\ e + i - 1 \in Nat
    BY <1>2
  <2>2. \A k \in Nat : UTC(UTCFullYear(s), UTCMonth(s) + k, c.date, c.hour)
                       = At(MonthStart[MonthAt(s) + k] + c.date - 1, c.hour)
    BY UTCIs
  <2>. QED  BY <2>1, <2>2
<1>. QED  BY <1>1, <1>3 DEF e

\* The event in month m: the weekday after the first of the month.
WeekdayIn(m, day) == FindWeekdayStartDate(MonthStart[m] % 7, day, FALSE)

EventIn(m, day, hour) == At(MonthStart[m] + WeekdayIn(m, day), hour)

LEMMA WeekdayInIs ==
  ASSUME NEW m \in Months, NEW day \in 0 .. 6
  PROVE  /\ WeekdayIn(m, day) \in 1 .. 7
         /\ (MonthStart[m] + WeekdayIn(m, day)) % 7 = day
         /\ InMonth(MonthStart[m] + WeekdayIn(m, day), m)
<1>. MonthStart[m] \in Nat /\ DaysIn(m) \in 28 .. 31
  BY MonthStartType, DaysInIs
<1>1. WeekdayIn(m, day) \in 1 .. 7 /\ (MonthStart[m] + WeekdayIn(m, day)) % 7 = day
  BY DEF WeekdayIn, FindWeekdayStartDate
<1>. QED  BY <1>1 DEF InMonth

\* What the arguments year and month of UTC stand for.
Names(year, month, m) ==
  \A d, h \in Int : UTC(year, month, d, h) = At(MonthStart[m] + d - 1, h)

LEMMA WeekdayAt == ASSUME NEW d \in Nat PROVE UTCDay(At(d, 0)) = d % 7
BY DEF At, Day, Hour, UTCDay

\* findDayOfWeekInMonthForStartDate adds ten minutes for each week, which
\* leaves the date as it is.
LEMMA EventIs ==
  ASSUME NEW day \in 0 .. 6, NEW week \in 1 .. 4, NEW hour \in 0 .. 23,
         NEW m \in Months, NEW year, NEW month, Names(year, month, m)
  PROVE  UTC(year, month, FindDayOfWeekInMonthForStartDate(year, month, day, week), hour)
           = EventIn(m, day, hour)
<1>. DEFINE f == WeekdayIn(m, day)
            x == MonthStart[m]
<1>0. \A d, h \in Int : UTC(year, month, d, h) = At(x + d - 1, h)
  BY DEF Names
<1>1. f \in 1 .. 7 /\ x \in Nat /\ InMonth(x + f, m)
  BY WeekdayInIs, MonthStartType
<1>2. f = FindWeekdayStartDate(x % 7, day, FALSE)
  BY DEF WeekdayIn
<1>. HIDE DEF f, x
<1>3. UTCDay(UTC(year, month, 1, 0)) = x % 7
  <2>1. UTC(year, month, 1, 0) = At(x + 1 - 1, 0)
    BY <1>0
  <2>2. x + 1 - 1 = x
    BY <1>1
  <2>3. UTCDay(At(x, 0)) = x % 7
    BY <1>1, WeekdayAt
  <2>. QED  BY <2>1, <2>2, <2>3
<1>4. UTC(year, month, f + 1, 0) = At(x + f, 0)
  <2>. x + (f + 1) - 1 = x + f /\ f + 1 \in Int
    BY <1>1
  <2>. QED  BY <1>0
<1>. DEFINE t == At(x + f, 0) + Milliseconds604800 * (week - 1)
<1>5. t \in Nat /\ t \div Day = x + f
  <2>1. x + f \in Nat /\ Milliseconds604800 * (week - 1) \in 0 .. Day - 1
    BY <1>1 DEF Day, Hour, Milliseconds604800
  <2>. QED  BY <2>1, TicksLater
<1>6. UTCDate(t) = f + 1
  <2>1. MonthAt(t) = m
    BY <1>1, <1>5, MonthAtIs
  <2>. QED  BY <1>1, <1>5, <2>1 DEF UTCDate, x
<1>7. FindDayOfWeekInMonthForStartDate(year, month, day, week) = f + 1
  BY <1>2, <1>3, <1>4, <1>6 DEF FindDayOfWeekInMonthForStartDate
<1>8. x + (f + 1) - 1 = x + f /\ f + 1 \in Int
  BY <1>1
<1>9. UTC(year, month, f + 1, hour) = At(x + f, hour)
  BY <1>0, <1>8
<1>. QED  BY <1>7, <1>9 DEF EventIn, f, x

LEMMA NamesIs ==
  ASSUME NEW s \in Starts
  PROVE  /\ Names(UTCFullYear(s), UTCMonth(s), MonthAt(s))
         /\ \A k \in Nat : Names(UTCFullYear(s), UTCMonth(s) + k, MonthAt(s) + k)
BY UTCIs DEF Names

\* Whether the event is over in the month of the start.
EventOver(s, day, hour) == IF EventIn(MonthAt(s), day, hour) >= s THEN 0 ELSE 1

LEMMA ByWeekdayResult ==
  ASSUME NEW c \in Calls, NEW s \in Starts, c.function = "byWeekday", c.week \in 1 .. 4
  PROVE  Result(c, s) = [i \in 1 .. c.n |->
           EventIn(MonthAt(s) + (EventOver(s, c.day, c.hour) + i - 1), c.day, c.hour)]
<1>. c.n \in Nat /\ c.hour \in 0 .. 23 /\ c.day \in 0 .. 6 /\ UTCMonth(s) \in Nat
     /\ MonthAt(s) \in Months
  BY StartIs, CallIs DEF UTCMonth, Months
<1>. DEFINE Event(month) == UTC(UTCFullYear(s), month,
              FindDayOfWeekInMonthForStartDate(UTCFullYear(s), month, c.day, c.week), c.hour)
            e == EventOver(s, c.day, c.hour)
            firstMonth == UTCMonth(s) + (IF Event(UTCMonth(s)) >= s THEN 0 ELSE 1)
<1>1. Result(c, s) = [i \in 1 .. c.n |-> Event(firstMonth + i - 1)]
  BY DEF Result, GetMonthlyRecurringTimestampsByWeekday
<1>2. Event(UTCMonth(s)) = EventIn(MonthAt(s), c.day, c.hour)
  BY NamesIs, EventIs
<1>3. ASSUME NEW k \in Nat, MonthAt(s) + k \in Months
      PROVE  Event(UTCMonth(s) + k) = EventIn(MonthAt(s) + k, c.day, c.hour)
  BY <1>3, NamesIs, EventIs
<1>4. e \in 0 .. 1 /\ firstMonth = UTCMonth(s) + e
  BY <1>2 DEF EventOver
<1>. HIDE DEF Event, e, firstMonth
<1>5. ASSUME NEW i \in 1 .. c.n
      PROVE  Event(firstMonth + i - 1) = EventIn(MonthAt(s) + (e + i - 1), c.day, c.hour)
  <2>1. firstMonth + i - 1 = UTCMonth(s) + (e + i - 1) /\ e + i - 1 \in Nat
    BY <1>4
  <2>2. MonthAt(s) + (e + i - 1) \in Months
    BY <1>4, MonthsReached
  <2>. QED  BY <1>3, <2>1, <2>2
<1>. QED  BY <1>1, <1>5 DEF e
-----------------------------------------------------------------------------
\* A call that does not throw.
Runs(c) == c.function = "byWeekday" => c.week \in 1 .. 4

LEMMA ResultType ==
  ASSUME NEW c \in Calls, NEW s \in Starts, Runs(c)
  PROVE  Result(c, s) \in [1 .. c.n -> Nat]
<1>. /\ c.function \in {"hourly", "daily", "weekly", "byDate", "byWeekday"}
     /\ c.n \in Nat /\ s \in Nat /\ s \div Day \in Nat /\ MonthAt(s) \in Months
  BY StartIs, CallIs
<1>1. CASE c.function = "hourly"
  <2>. s \div Hour \in Nat
    BY DEF Hour
  <2>1. ASSUME NEW i \in 1 .. c.n PROVE (s \div Hour + i) * Hour \in Nat
    BY DEF Hour
  <2>. QED  BY <1>1, <2>1, HourlyResult
<1>2. CASE c.function = "daily"
  <2>1. c.hour \in 0 .. 23 /\ Later(s, c.hour) \in 0 .. 1
    BY <1>2, CallIs DEF Later
  <2>2. ASSUME NEW i \in 1 .. c.n
        PROVE  At(s \div Day + Later(s, c.hour) + i - 1, c.hour) \in Nat
    <3>. s \div Day + Later(s, c.hour) + i - 1 \in Nat
      BY <2>1
    <3>. QED  BY <2>1, Clock
  <2>. QED  BY <1>2, <2>2, DailyResult
<1>3. CASE c.function = "weekly"
  <2>. DEFINE f == FindWeekdayStartDate(UTCDay(s), c.day, UTCHours(s) < c.hour)
  <2>1. c.hour \in 0 .. 23 /\ c.day \in 0 .. 6
    BY <1>3, CallIs
  <2>2. UTCDay(s) \in 0 .. 6 /\ f \in 0 .. 7 /\ s \div Day + f \in Nat
    BY <2>1 DEF UTCDay, FindWeekdayStartDate
  <2>3. Result(c, s)
          = [i \in 1 .. c.n |-> At(s \div Day + f, c.hour) + (i - 1) * Milliseconds604800]
    BY <1>3, WeeklyResult
  <2>. HIDE DEF f
  <2>4. At(s \div Day + f, c.hour) \in Nat
    BY <2>1, <2>2, Clock
  <2>. QED  BY <2>3, <2>4 DEF Milliseconds604800
<1>4. CASE c.function = "byDate"
  <2>1. c.hour \in 0 .. 23 /\ c.date \in 1 .. 28 /\ DateOver(s, c.date) \in 0 .. 1
    BY <1>4, CallIs DEF DateOver
  <2>2. ASSUME NEW i \in 1 .. c.n
        PROVE  At(MonthStart[MonthAt(s) + (DateOver(s, c.date) + i - 1)] + c.date - 1, c.hour)
                 \in Nat
    <3>1. MonthStart[MonthAt(s) + (DateOver(s, c.date) + i - 1)] \in Nat
      BY <1>4, <2>1, MonthsReached, MonthStartType
    <3>2. MonthStart[MonthAt(s) + (DateOver(s, c.date) + i - 1)] + c.date - 1 \in Nat
      BY <2>1, <3>1
    <3>. QED  BY <2>1, <3>2, Clock
  <2>. QED  BY <1>4, <2>2, ByDateResult
<1>5. CASE c.function = "byWeekday"
  <2>1. c.hour \in 0 .. 23 /\ c.day \in 0 .. 6 /\ EventOver(s, c.day, c.hour) \in 0 .. 1
    BY <1>5, CallIs DEF EventOver
  <2>2. ASSUME NEW i \in 1 .. c.n
        PROVE  EventIn(MonthAt(s) + (EventOver(s, c.day, c.hour) + i - 1), c.day, c.hour) \in Nat
    <3>. DEFINE m == MonthAt(s) + (EventOver(s, c.day, c.hour) + i - 1)
    <3>1. m \in Months
      BY <1>5, <2>1, MonthsReached
    <3>. HIDE DEF m
    <3>2. MonthStart[m] \in Nat /\ WeekdayIn(m, c.day) \in 1 .. 7
      BY <2>1, <3>1, MonthStartType, WeekdayInIs
    <3>3. MonthStart[m] + WeekdayIn(m, c.day) \in Nat
      BY <3>2
    <3>4. EventIn(m, c.day, c.hour) \in Nat
      BY <2>1, <3>3, Clock DEF EventIn
    <3>. QED  BY <3>4 DEF m
  <2>3. Result(c, s) = [i \in 1 .. c.n |->
          EventIn(MonthAt(s) + (EventOver(s, c.day, c.hour) + i - 1), c.day, c.hour)]
    BY <1>5, ByWeekdayResult DEF Runs
  <2>. QED  BY <2>2, <2>3
<1>. QED  BY <1>1, <1>2, <1>3, <1>4, <1>5
-----------------------------------------------------------------------------
(***************************************************************************)
(* What validateTimestamps says.                                           *)
(***************************************************************************)
LEMMA VerdictIs ==
  ASSUME now \in Nat, NEW n \in Nat, times \in [1 .. n -> Nat]
  PROVE  /\ Verdict \in Verdicts
         /\ Verdict = "tooMany" <=> n > RecurringTaskLimit
         /\ Verdict = "valid" <=> /\ n <= RecurringTaskLimit
                                  /\ \A i \in 1 .. n : /\ times[i] >= NextAvailableHour(now)
                                                       /\ times[i] % Hour = 0
         /\ Verdict = "notOnTheHour" => \E i \in 1 .. n : times[i] % Hour # 0
<1>. DEFINE faulty == {i \in DOMAIN times : Fault(times[i]) # "valid"}
            least == CHOOSE i \in faulty : \A j \in faulty : i <= j
<1>1. Len(times) = n /\ DOMAIN times = 1 .. n
  OBVIOUS
<1>2. Verdict = IF n > RecurringTaskLimit THEN "tooMany"
                ELSE IF faulty = {} THEN "valid" ELSE Fault(times[least])
  BY <1>1 DEF Verdict
<1>3. ASSUME NEW i \in 1 .. n
      PROVE  /\ Fault(times[i]) \in {"past", "notOnTheHour", "valid"}
             /\ Fault(times[i]) = "valid"
                  <=> times[i] >= NextAvailableHour(now) /\ times[i] % Hour = 0
             /\ Fault(times[i]) = "notOnTheHour" => times[i] % Hour # 0
  BY DEF Fault, NextAvailableHour, Hour
<1>4. faulty \in SUBSET Nat
  BY <1>1
<1>5. faulty # {} => least \in faulty
  <2>. HIDE DEF faulty
  <2>. SUFFICES ASSUME faulty # {} PROVE least \in faulty
    OBVIOUS
  <2>. \E i \in faulty : \A j \in faulty : i <= j
    BY <1>4, Least
  <2>. QED  OBVIOUS
<1>6. \A i \in faulty : i \in 1 .. n /\ Fault(times[i]) # "valid"
  BY <1>1
<1>7. \A i \in 1 .. n : i \notin faulty => Fault(times[i]) = "valid"
  BY <1>1
<1>. HIDE DEF faulty, least
<1>8. RecurringTaskLimit \in Nat
  BY LimitAssumption
<1>9. CASE n > RecurringTaskLimit
  BY <1>2, <1>8, <1>9 DEF Verdicts
<1>10. CASE ~(n > RecurringTaskLimit) /\ faulty = {}
  <2>1. Verdict = "valid" /\ n <= RecurringTaskLimit
    BY <1>2, <1>8, <1>10
  <2>. QED  BY <1>3, <1>7, <1>10, <2>1 DEF Verdicts
<1>11. CASE ~(n > RecurringTaskLimit) /\ faulty # {}
  <2>1. /\ Verdict = Fault(times[least]) /\ least \in 1 .. n
        /\ Fault(times[least]) # "valid"
    BY <1>2, <1>5, <1>6, <1>11
  <2>. QED  BY <1>3, <1>11, <2>1 DEF Verdicts
<1>. QED  BY <1>9, <1>10, <1>11

IInv ==
  /\ TypeOK
  /\ pc \notin {"asked", "threw"} => Runs(call) /\ times = Result(call, start)
  /\ start <= now
  /\ pc \in Verdicts => checked = now /\ pc = Verdict
  /\ pc = "dispatched" =>
       /\ start <= checked /\ checked <= now
       /\ errors = ErrorsAt(now)
       /\ call.n <= RecurringTaskLimit
       /\ \A i \in 1 .. call.n :
            times[i] >= NextAvailableHour(checked) /\ times[i] % Hour = 0

(***************************************************************************)
(* The times are those the Recurrer computed for the start, until they     *)
(* are dispatched; the verdict is about the moment of the check, and a     *)
(* schedule dispatched has passed it.                                      *)
(***************************************************************************)
THEOREM Invariant == Spec => []IInv
<1>1. Init => IInv
  BY StartIs DEF Init, IInv, TypeOK, Verdicts
<1>2. IInv /\ [Next]_vars => IInv'
  <2>. SUFFICES ASSUME IInv, [Next]_vars PROVE IInv'
    OBVIOUS
  <2>. USE DEF IInv, TypeOK, Verdicts
  <2>0. call.n \in Nat /\ start \in Nat
    BY CallIs, StartIs
  <2>1. CASE Compute
    <3>1. CASE call.function = "byWeekday" /\ call.week > 4
      BY <2>1, <3>1 DEF Compute
    <3>2. CASE ~(call.function = "byWeekday" /\ call.week > 4)
      <4>1. Runs(call)
        BY <3>2, CallIs DEF Runs
      <4>2. times' \in [1 .. call.n -> Nat]
        BY <2>1, <3>2, <4>1, ResultType DEF Compute
      <4>. QED  BY <2>1, <3>2, <4>1, <4>2 DEF Compute
    <3>. QED  BY <3>1, <3>2
  <2>2. CASE Wait
    <3>. PICK delay \in Delays : now' = now + delay
      BY <2>2 DEF Wait
    <3>. delay \in Nat
      BY CalendarAssumption
    <3>. QED  BY <2>0, <2>2 DEF Wait
  <2>3. CASE ValidateTimestamps
    <3>1. Verdict' = Verdict
      BY <2>3 DEF ValidateTimestamps, Verdict, Fault, NextAvailableHour
    <3>2. Verdict \in Verdicts
      BY <2>0, <2>3, VerdictIs DEF ValidateTimestamps
    <3>. QED  BY <2>0, <2>3, <3>1, <3>2 DEF ValidateTimestamps
  <2>4. CASE Dispatch
    <3>. PICK delay \in {0} \cup Delays : now' = now + delay /\ errors' = ErrorsAt(now + delay)
      BY <2>4 DEF Dispatch
    <3>1. delay \in Nat
      BY CalendarAssumption
    <3>2. /\ errors' = ErrorsAt(now)'
          /\ errors' \subseteq {"InvalidTime", "PastTime", "TimeTooFarOut"}
      BY <2>4 DEF Dispatch, ErrorsAt
    <3>3. /\ call.n <= RecurringTaskLimit
          /\ \A i \in 1 .. call.n :
               times[i] >= NextAvailableHour(now) /\ times[i] % Hour = 0
      BY <2>0, <2>4, VerdictIs DEF Dispatch
    <3>. QED  BY <2>0, <2>4, <3>1, <3>2, <3>3 DEF Dispatch
  <2>5. CASE UNCHANGED vars
    <3>. USE <2>5 DEF vars
    <3>1. Verdict' = Verdict
      BY DEF Verdict, Fault, NextAvailableHour
    <3>2. ErrorsAt(now)' = ErrorsAt(now)
      BY DEF ErrorsAt
    <3>3. NextAvailableHour(checked)' = NextAvailableHour(checked)
      BY DEF NextAvailableHour
    <3>4. Result(call, start)' = Result(call, start) /\ Runs(call)' = Runs(call)
      OBVIOUS
    <3>. QED  BY <3>1, <3>2, <3>3, <3>4
  <2>. QED  BY <2>1, <2>2, <2>3, <2>4, <2>5 DEF Next
<1>. QED  BY <1>1, <1>2, PTL DEF Spec

(***************************************************************************)
(* The types, in every state that is reached.                              *)
(***************************************************************************)
THEOREM TypeCorrect == Spec => []TypeOK
<1>. IInv => TypeOK
  BY DEF IInv
<1>. QED  BY Invariant, PTL
-----------------------------------------------------------------------------
(***************************************************************************)
(* The times are the next ones.                                            *)
(***************************************************************************)
\* No hour of the day h begins between two days at h.
LEMMA HoursBetween ==
  ASSUME NEW d \in Nat, NEW hour \in 0 .. 23, NEW h \in Nat,
         24 * d + hour < h, h < 24 * (d + 1) + hour
  PROVE  h % 24 # hour
OBVIOUS

LEMMA HourlyIsNext ==
  ASSUME NEW c \in Calls, NEW s \in Starts, c.function = "hourly", NEW i \in 1 .. c.n
  PROVE  LET r == Result(c, s)
             before == IF i = 1 THEN s ELSE r[i - 1]
         IN  /\ r[i] > s /\ r[i] % Hour = 0 /\ before < r[i]
             /\ before \div Hour + 1 .. r[i] \div Hour - 1 = {}
<1>. DEFINE q == s \div Hour
            r == Result(c, s)
<1>1. s \in Nat /\ q \in Nat /\ q * Hour <= s /\ s < (q + 1) * Hour /\ c.n \in Nat
  BY StartIs, CallIs DEF Hour
<1>2. r = [j \in 1 .. c.n |-> (q + j) * Hour]
  BY HourlyResult
<1>3. r[i] = (q + i) * Hour
  BY <1>2
<1>4. i # 1 => r[i - 1] = (q + (i - 1)) * Hour
  BY <1>1, <1>2
<1>5. s \div Hour = q
  OBVIOUS
<1>. HIDE DEF r, q
<1>6. CASE i = 1
  BY <1>1, <1>3, <1>5, <1>6 DEF Hour, r
<1>7. CASE i # 1
  <2>1. r[i - 1] \div Hour = q + i - 1 /\ r[i] \div Hour = q + i
    BY <1>1, <1>3, <1>4, <1>7 DEF Hour
  <2>2. r[i - 1] < r[i] /\ r[i] > s /\ r[i] % Hour = 0
    BY <1>1, <1>3, <1>4, <1>7 DEF Hour
  <2>3. (q + i - 1) + 1 .. (q + i) - 1 = {}
    BY <1>1
  <2>. QED  BY <1>7, <2>1, <2>2, <2>3 DEF r
<1>. QED  BY <1>6, <1>7

LEMMA DailyIsNext ==
  ASSUME NEW c \in Calls, NEW s \in Starts, c.function = "daily", NEW i \in 1 .. c.n
  PROVE  LET r == Result(c, s)
             before == IF i = 1 THEN s ELSE r[i - 1]
         IN  /\ r[i] > s /\ r[i] % Hour = 0 /\ UTCHours(r[i]) = c.hour /\ before < r[i]
             /\ \A h \in before \div Hour + 1 .. r[i] \div Hour - 1 : UTCHours(h * Hour) # c.hour
<1>. DEFINE d == s \div Day
            e == Later(s, c.hour)
            r == Result(c, s)
<1>1. /\ s \in Nat /\ d \in Nat /\ UTCHours(s) \in 0 .. 23 /\ c.n \in Nat /\ c.hour \in 0 .. 23
      /\ At(d, UTCHours(s)) <= s /\ s < At(d, UTCHours(s)) + Hour
      /\ s \div Hour = 24 * d + UTCHours(s)
  BY StartIs, CallIs, InstantIs
<1>2. e \in 0 .. 1 /\ (e = 0 <=> UTCHours(s) < c.hour)
  BY DEF Later
<1>3. r = [j \in 1 .. c.n |-> At(d + e + j - 1, c.hour)]
  BY DailyResult
<1>. DEFINE x == d + e + i - 1
<1>4. x \in Nat /\ r[i] = At(x, c.hour)
  BY <1>1, <1>2, <1>3
<1>5. /\ r[i] \in Nat /\ UTCHours(r[i]) = c.hour /\ r[i] % Hour = 0
      /\ r[i] \div Hour = 24 * x + c.hour
  <2>. HIDE DEF x, r
  <2>1. x \in Nat /\ c.hour \in 0 .. 23
    BY <1>1, <1>4
  <2>2. /\ At(x, c.hour) \in Nat /\ UTCHours(At(x, c.hour)) = c.hour
        /\ At(x, c.hour) % Hour = 0 /\ At(x, c.hour) \div Hour = 24 * x + c.hour
    BY <2>1, Clock
  <2>. QED  BY <1>4, <2>2
<1>6. r[i] > s
  BY <1>1, <1>2, <1>4 DEF At, Day, Hour
<1>7. CASE i = 1
  <2>1. ASSUME NEW h \in s \div Hour + 1 .. r[i] \div Hour - 1
        PROVE  h \in Nat /\ h % 24 # c.hour
    <3>. HIDE DEF d, e, r
    <3>1. x = d + e /\ h \in Nat /\ 24 * d + UTCHours(s) < h /\ h < 24 * x + c.hour
      BY <1>1, <1>2, <1>5, <1>7 DEF d
    <3>2. CASE e = 0
      BY <1>1, <1>2, <3>1, <3>2
    <3>3. CASE e = 1
      <4>. 24 * d + c.hour < h /\ h < 24 * (d + 1) + c.hour
        BY <1>1, <1>2, <3>1, <3>3
      <4>. QED  BY <1>1, <3>1, HoursBetween
    <3>. QED  BY <1>2, <3>2, <3>3
  <2>. QED  BY <1>5, <1>6, <1>7, <2>1, HourIs
<1>8. CASE i # 1
  <2>1. r[i - 1] = At(x - 1, c.hour) /\ x - 1 \in Nat
    <3>. HIDE DEF d, e, r
    <3>1. i - 1 \in 1 .. c.n /\ d + e + (i - 1) - 1 = x - 1 /\ x - 1 \in Nat
      BY <1>1, <1>2, <1>8
    <3>2. r[i - 1] = At(d + e + (i - 1) - 1, c.hour)
      BY <1>3, <3>1
    <3>. QED  BY <3>1, <3>2
  <2>. HIDE DEF x
  <2>2. r[i - 1] \div Hour = 24 * (x - 1) + c.hour
    <3>1. x - 1 \in Nat /\ c.hour \in 0 .. 23
      BY <1>1, <2>1
    <3>2. At(x - 1, c.hour) \div Hour = 24 * (x - 1) + c.hour
      BY <3>1, Clock
    <3>. QED  BY <2>1, <3>2
  <2>3. r[i - 1] < r[i]
    BY <1>1, <1>4, <2>1 DEF At, Day, Hour
  <2>4. ASSUME NEW h \in r[i - 1] \div Hour + 1 .. r[i] \div Hour - 1
        PROVE  h \in Nat /\ h % 24 # c.hour
    <3>. HIDE DEF r
    <3>1. h \in Nat /\ 24 * (x - 1) + c.hour < h /\ h < 24 * ((x - 1) + 1) + c.hour
      BY <1>1, <1>4, <1>5, <2>1, <2>2
    <3>. QED  BY <1>1, <2>1, <3>1, HoursBetween
  <2>. QED  BY <1>5, <1>6, <1>8, <2>3, <2>4, HourIs
<1>. QED  BY <1>7, <1>8

LEMMA WeeklyStartsNext ==
  ASSUME NEW c \in Calls, NEW s \in Starts, c.function = "weekly"
  PROVE  LET t == Result(c, s)[1]
         IN  /\ t \in Nat /\ t > s /\ t % Hour = 0 /\ UTCHours(t) = c.hour /\ UTCDay(t) = c.day
             /\ \A h \in s \div Hour + 1 .. t \div Hour - 1 :
                  ~(UTCHours(h * Hour) = c.hour /\ UTCDay(h * Hour) = c.day)
<1>. DEFINE d == s \div Day
            same == UTCHours(s) < c.hour
            f == FindWeekdayStartDate(UTCDay(s), c.day, same)
            t == At(d + f, c.hour)
<1>1. /\ s \in Nat /\ d \in Nat /\ UTCHours(s) \in 0 .. 23 /\ c.n \in Nat \ {0}
      /\ c.hour \in 0 .. 23 /\ c.day \in 0 .. 6
      /\ At(d, UTCHours(s)) <= s /\ s < At(d, UTCHours(s)) + Hour
      /\ s \div Hour = 24 * d + UTCHours(s)
  BY StartIs, CallIs, InstantIs
<1>2. UTCDay(s) = d % 7 /\ same \in BOOLEAN
  BY DEF UTCDay
<1>3. /\ f \in 0 .. 7 /\ (d + f) % 7 = c.day
      /\ f = 0 <=> d % 7 = c.day /\ same
      /\ \A g \in 1 .. f - 1 : (d + g) % 7 # c.day
  <2>1. d \in Nat /\ c.day \in 0 .. 6 /\ same \in BOOLEAN
    BY <1>1, <1>2
  <2>2. f = FindWeekdayStartDate(d % 7, c.day, same)
    BY <1>2
  <2>. HIDE DEF d, same, f
  <2>3. f \in 0 .. 7
    BY <2>1, <2>2 DEF FindWeekdayStartDate
  <2>4. (d + f) % 7 = c.day
    BY <2>1, <2>2, WeekdayIs
  <2>5. f = 0 <=> d % 7 = c.day /\ same
    BY <2>1, <2>2, WeekdayIs
  <2>6. \A g \in 1 .. f - 1 : (d + g) % 7 # c.day
    BY <2>1, <2>2, WeekdayIs
  <2>. QED  BY <2>3, <2>4, <2>5, <2>6
<1>4. Result(c, s)[1] = t
  <2>1. Result(c, s)
          = [i \in 1 .. c.n |-> At(d + f, c.hour) + (i - 1) * Milliseconds604800]
    BY WeeklyResult
  <2>. HIDE DEF d, f
  <2>2. Result(c, s)[1] = At(d + f, c.hour) + (1 - 1) * Milliseconds604800
    BY <1>1, <2>1
  <2>3. At(d + f, c.hour) \in Nat
    BY <1>1, <1>3 DEF At, Day, Hour
  <2>. QED  BY <2>2, <2>3 DEF Milliseconds604800
<1>. HIDE DEF d, f
<1>5. d + f \in Nat
  BY <1>1, <1>3
<1>6. /\ t \in Nat /\ t % Hour = 0 /\ UTCHours(t) = c.hour /\ UTCDay(t) = c.day
      /\ t \div Hour = 24 * (d + f) + c.hour
  BY <1>1, <1>3, <1>5, Clock
<1>7. t > s
  <2>1. f = 0 => UTCHours(s) + 1 <= c.hour
    BY <1>1, <1>3
  <2>2. f \in Nat /\ (f = 0 \/ f >= 1)
    BY <1>3
  <2>. HIDE DEF same
  <2>. QED  BY <1>1, <1>5, <2>1, <2>2 DEF At, Day, Hour
<1>. HIDE DEF t
<1>8. ASSUME NEW h \in s \div Hour + 1 .. t \div Hour - 1,
             UTCHours(h * Hour) = c.hour, UTCDay(h * Hour) = c.day
      PROVE  FALSE
  <2>1. h \in Nat /\ 24 * d + UTCHours(s) < h /\ h < 24 * (d + f) + c.hour
    BY <1>1, <1>5, <1>6
  <2>2. h % 24 = c.hour /\ (h \div 24) % 7 = c.day
    BY <1>8, <2>1, HourIs
  <2>. DEFINE g == (h \div 24) - d
  <2>3. h = 24 * (d + g) + c.hour /\ g \in Int /\ h \div 24 = d + g
    BY <1>1, <2>1, <2>2
  <2>. HIDE DEF g
  <2>4. g \in 0 .. f - 1
    BY <1>1, <1>3, <2>1, <2>3
  <2>5. CASE g = 0
    <3>1. h \div 24 = d /\ h = 24 * d + c.hour
      BY <1>1, <2>3, <2>5
    <3>2. same
      BY <1>1, <2>1, <3>1
    <3>3. d % 7 = c.day
      BY <2>2, <3>1
    <3>. QED  BY <1>3, <2>4, <3>2, <3>3
  <2>6. CASE g # 0
    BY <1>3, <2>2, <2>3, <2>4, <2>6
  <2>. QED  BY <2>5, <2>6
<1>. QED  BY <1>4, <1>6, <1>7, <1>8
-----------------------------------------------------------------------------
(***************************************************************************)
(* The monthly functions.                                                  *)
(***************************************************************************)
LEMMA ByDateIs ==
  ASSUME NEW c \in Calls, NEW s \in Starts, c.function = "byDate", NEW i \in 1 .. c.n
  PROVE  LET t == Result(c, s)[i]
         IN  /\ MonthAt(t) = MonthAt(s) + (DateOver(s, c.date) + i - 1)
             /\ UTCDate(t) = c.date /\ UTCHours(t) = c.hour
             /\ t = At(MonthStart[MonthAt(t)] + c.date - 1, c.hour)
<1>. DEFINE m == MonthAt(s) + (DateOver(s, c.date) + i - 1)
            d == MonthStart[m] + c.date - 1
            t == Result(c, s)[i]
<1>1. c.hour \in 0 .. 23 /\ c.date \in 1 .. 28 /\ DateOver(s, c.date) \in 0 .. 1
  BY CallIs DEF DateOver
<1>2. m \in Months /\ MonthStart[m] \in Nat /\ DaysIn(m) \in 28 .. 31
  <2>1. m \in Months
    BY <1>1, MonthsReached
  <2>. HIDE DEF m
  <2>. QED  BY <2>1, MonthStartType, DaysInIs
<1>3. t = At(d, c.hour)
  BY ByDateResult
<1>. HIDE DEF m, t
<1>4. d \in Nat /\ InMonth(d, m)
  BY <1>1, <1>2 DEF InMonth
<1>5. At(d, c.hour) \in Nat /\ At(d, c.hour) \div Day = d /\ UTCHours(At(d, c.hour)) = c.hour
  <2>. HIDE DEF d
  <2>. QED  BY <1>1, <1>4, Clock
<1>6. t \in Nat /\ t \div Day = d /\ UTCHours(t) = c.hour
  BY <1>3, <1>5
<1>7. MonthAt(t) = m
  <2>. HIDE DEF d
  <2>. QED  BY <1>2, <1>4, <1>6, MonthAtIs
<1>8. UTCDate(t) = c.date
  BY <1>1, <1>2, <1>6, <1>7 DEF UTCDate
<1>. QED  BY <1>3, <1>6, <1>7, <1>8 DEF m, t

LEMMA ByWeekdayIs ==
  ASSUME NEW c \in Calls, NEW s \in Starts, c.function = "byWeekday", Runs(c),
         NEW i \in 1 .. c.n
  PROVE  LET t == Result(c, s)[i]
             m == MonthAt(s) + (EventOver(s, c.day, c.hour) + i - 1)
         IN  /\ MonthAt(t) = m /\ m \in Months
             /\ UTCHours(t) = c.hour /\ UTCDay(t) = c.day
             /\ t = EventIn(m, c.day, c.hour)
<1>. DEFINE m == MonthAt(s) + (EventOver(s, c.day, c.hour) + i - 1)
            d == MonthStart[m] + WeekdayIn(m, c.day)
            t == Result(c, s)[i]
<1>1. c.hour \in 0 .. 23 /\ c.day \in 0 .. 6 /\ EventOver(s, c.day, c.hour) \in 0 .. 1
  BY CallIs DEF EventOver
<1>2. m \in Months
  BY <1>1, MonthsReached
<1>3. t = At(d, c.hour) /\ t = EventIn(m, c.day, c.hour)
  BY ByWeekdayResult DEF Runs, EventIn
<1>. HIDE DEF m, t
<1>4. d \in Nat /\ d % 7 = c.day /\ InMonth(d, m)
  BY <1>1, <1>2, WeekdayInIs, MonthStartType
<1>. HIDE DEF d
<1>5. /\ At(d, c.hour) \in Nat /\ At(d, c.hour) \div Day = d
      /\ UTCHours(At(d, c.hour)) = c.hour /\ UTCDay(At(d, c.hour)) = d % 7
  BY <1>1, <1>4, Clock
<1>6. /\ t \in Nat /\ t \div Day = d /\ UTCHours(t) = c.hour /\ UTCDay(t) = c.day
  BY <1>3, <1>4, <1>5
<1>7. MonthAt(t) = m
  BY <1>2, <1>4, <1>6, MonthAtIs
<1>. QED  BY <1>2, <1>3, <1>6, <1>7 DEF m, t

\* The first event is never over when the call is made.
LEMMA EventToCome ==
  ASSUME NEW c \in Calls, NEW s \in Starts, c.function = "byWeekday", Runs(c)
  PROVE  Result(c, s)[1] >= s
<1>. DEFINE m == MonthAt(s)
            e == EventOver(s, c.day, c.hour)
<1>1. /\ c.hour \in 0 .. 23 /\ c.day \in 0 .. 6 /\ e \in 0 .. 1 /\ 1 \in 1 .. c.n
      /\ m \in Months /\ s \in Nat /\ s \div Day \in Nat /\ InMonth(s \div Day, m)
  BY CallIs, StartIs DEF EventOver
<1>2. m + (e + 1 - 1) \in Months /\ Result(c, s)[1] = EventIn(m + (e + 1 - 1), c.day, c.hour)
  BY <1>1, ByWeekdayIs
<1>3. m + (e + 1 - 1) = m + e
  <2>. HIDE DEF m, e
  <2>. QED  BY <1>1 DEF Months
<1>4. CASE e = 0
  <2>1. EventIn(m, c.day, c.hour) >= s
    BY <1>4 DEF EventOver
  <2>2. m + e = m
    BY <1>1, <1>4 DEF Months
  <2>. QED  BY <1>2, <1>3, <2>1, <2>2
<1>5. CASE e = 1
  <2>. HIDE DEF m, e
  <2>1. m + 1 \in Months /\ m # 47 /\ Result(c, s)[1] = EventIn(m + 1, c.day, c.hour)
    BY <1>1, <1>2, <1>3, <1>5 DEF Months
  <2>2. /\ MonthStart[m + 1] = MonthStart[m] + DaysIn(m)
        /\ WeekdayIn(m + 1, c.day) \in 1 .. 7 /\ MonthStart[m + 1] \in Nat
    BY <1>1, <2>1, NextMonth, WeekdayInIs, MonthStartType
  <2>3. s \div Day < MonthStart[m + 1]
    BY <1>1, <2>2 DEF InMonth
  <2>4. EventIn(m + 1, c.day, c.hour) >= s
    BY <1>1, <2>2, <2>3 DEF EventIn, At, Day, Hour
  <2>. QED  BY <2>1, <2>4
<1>. QED  BY <1>1, <1>4, <1>5
-----------------------------------------------------------------------------
(***************************************************************************)
(* How far the times reach: only more than five months exceed the limit.   *)
(***************************************************************************)
LEMMA MonthsReach ==
  ASSUME NEW m \in Months, NEW n \in Months, m <= n, n <= m + 5
  PROVE  MonthStart[n] <= MonthStart[m] + 31 * (n - m)
<1>1. CASE m = n
  BY <1>1, MonthStartType DEF Months
<1>2. CASE m < n
  BY <1>2, MonthsApart
<1>. QED  BY <1>1, <1>2 DEF Months

LEMMA Reach ==
  ASSUME NEW c \in Calls, NEW s \in Starts, Runs(c), c.n <= 24,
         c.function \in {"byDate", "byWeekday"} => c.n <= 5,
         NEW i \in 1 .. c.n
  PROVE  Result(c, s)[i] <= s + 180 * Day
<1>. DEFINE t == Result(c, s)[i]
            M == MonthAt(s)
            d == s \div Day
<1>. SUFFICES t <= s + 180 * Day
  OBVIOUS
<1>1. /\ c.function \in {"hourly", "daily", "weekly", "byDate", "byWeekday"}
      /\ s \in Nat /\ d \in Nat /\ c.n \in Nat /\ i \in 1 .. 24 /\ d * Day <= s
      /\ M \in Months /\ M \in Nat /\ MonthStart[M] \in Nat /\ MonthStart[M] <= d
  BY StartIs, CallIs, MonthStartType DEF Day, Hour, InMonth, Months
<1>2. CASE c.function = "hourly"
  <2>1. t = (s \div Hour + i) * Hour
    BY <1>2, HourlyResult
  <2>. QED  BY <1>1, <2>1 DEF Day, Hour
<1>3. CASE c.function = "daily"
  <2>. DEFINE e == Later(s, c.hour)
  <2>1. c.hour \in 0 .. 23 /\ e \in 0 .. 1 /\ t = At(d + e + i - 1, c.hour)
    BY <1>3, CallIs, DailyResult DEF Later
  <2>. HIDE DEF d, t, e
  <2>. QED  BY <1>1, <2>1 DEF At, Day, Hour
<1>4. CASE c.function = "weekly"
  <2>. DEFINE f == FindWeekdayStartDate(UTCDay(s), c.day, UTCHours(s) < c.hour)
  <2>1. c.hour \in 0 .. 23 /\ c.day \in 0 .. 6
    BY <1>4, CallIs
  <2>2. UTCDay(s) \in 0 .. 6 /\ f \in 0 .. 7
    BY <1>1, <2>1 DEF UTCDay, FindWeekdayStartDate
  <2>3. Result(c, s)
          = [j \in 1 .. c.n |-> At(d + f, c.hour) + (j - 1) * Milliseconds604800]
    BY <1>4, WeeklyResult
  <2>. HIDE DEF d, f
  <2>4. t = At(d + f, c.hour) + (i - 1) * Milliseconds604800
    BY <2>3
  <2>. HIDE DEF t
  <2>. QED  BY <1>1, <2>1, <2>2, <2>4 DEF At, Day, Hour, Milliseconds604800
<1>5. CASE c.function = "byDate"
  <2>. DEFINE e == DateOver(s, c.date)
              m == M + (e + i - 1)
  <2>1. /\ c.hour \in 0 .. 23 /\ c.date \in 1 .. 28 /\ e \in 0 .. 1 /\ i \in 1 .. 5
        /\ m \in Months /\ t = At(MonthStart[m] + c.date - 1, c.hour)
    <3>1. c.hour \in 0 .. 23 /\ c.date \in 1 .. 28 /\ e \in 0 .. 1 /\ i \in 1 .. 5
      BY <1>1, <1>5, CallIs DEF DateOver
    <3>2. m \in Months
      BY <1>5, <3>1, MonthsReached
    <3>3. t = At(MonthStart[m] + c.date - 1, c.hour)
      BY <1>5, ByDateResult
    <3>. QED  BY <3>1, <3>2, <3>3
  <2>2. e = 1 => MonthStart[M] + c.date <= d
    BY <1>1, <2>1 DEF DateOver, UTCDate
  <2>. HIDE DEF d, e, t, M
  <2>3. M <= m /\ m <= M + 5 /\ m - M = e + i - 1
    BY <1>1, <2>1
  <2>4. MonthStart[m] <= MonthStart[M] + 31 * (e + i - 1) /\ MonthStart[m] \in Nat
    <3>. HIDE DEF m
    <3>. QED  BY <1>1, <2>1, <2>3, MonthsReach, MonthStartType
  <2>. HIDE DEF m
  <2>5. MonthStart[m] + c.date - 1 <= d + 155
    <3>1. CASE e = 0
      BY <1>1, <2>1, <2>4, <3>1
    <3>2. CASE e = 1
      BY <1>1, <2>1, <2>2, <2>4, <3>2
    <3>. QED  BY <2>1, <3>1, <3>2
  <2>. DEFINE x == MonthStart[m] + c.date - 1
  <2>6. x \in Int /\ x <= d + 155 /\ t = At(x, c.hour)
    BY <2>1, <2>4, <2>5
  <2>. HIDE DEF x
  <2>. QED  BY <1>1, <2>1, <2>6 DEF At, Day, Hour
<1>6. CASE c.function = "byWeekday"
  <2>. DEFINE e == EventOver(s, c.day, c.hour)
              m == M + (e + i - 1)
  <2>1. /\ c.hour \in 0 .. 23 /\ e \in 0 .. 1 /\ i \in 1 .. 5
        /\ m \in Months /\ WeekdayIn(m, c.day) \in 1 .. 7
        /\ t = At(MonthStart[m] + WeekdayIn(m, c.day), c.hour)
    <3>1. c.hour \in 0 .. 23 /\ c.day \in 0 .. 6 /\ e \in 0 .. 1 /\ i \in 1 .. 5
      BY <1>1, <1>6, CallIs DEF EventOver
    <3>2. m \in Months
      BY <1>6, <3>1, MonthsReached
    <3>3. t = EventIn(m, c.day, c.hour)
      BY <1>6, ByWeekdayIs
    <3>. HIDE DEF m
    <3>. QED  BY <3>1, <3>2, <3>3, WeekdayInIs DEF EventIn
  <2>. HIDE DEF d, e, t, M
  <2>2. M <= m /\ m <= M + 5 /\ m - M = e + i - 1
    BY <1>1, <2>1
  <2>. HIDE DEF m
  <2>3. MonthStart[m] <= MonthStart[M] + 31 * (e + i - 1) /\ MonthStart[m] \in Nat
    BY <1>1, <2>1, <2>2, MonthsReach, MonthStartType
  <2>4. MonthStart[m] + WeekdayIn(m, c.day) <= d + 162
    BY <1>1, <2>1, <2>3
  <2>. QED  BY <1>1, <2>1, <2>3, <2>4 DEF At, Day, Hour
<1>. QED  BY <1>1, <1>2, <1>3, <1>4, <1>5, <1>6

\* The lengths of slots divide the hour.
LEMMA OnSlot ==
  ASSUME NEW t \in Nat, t % Hour = 0
  PROVE  t % SlotSize = 0
<1>1. SlotSize \in 1 .. 250 /\ 250 % SlotSize = 0
  BY SlotAssumption DEF Hour
<1>2. SlotSize \in {1, 2, 5, 10, 25, 50, 125, 250}
  BY <1>1
<1>. QED  BY <1>2 DEF Hour
-----------------------------------------------------------------------------
(***************************************************************************)
(* The hourly and daily functions give the next n instants that fit, the   *)
(* weekly one starts with the next on the weekday and at the hour asked    *)
(* for (lines 21 to 26, 59 to 63, 106 and 107 of recurrer.ts).             *)
(***************************************************************************)
THEOREM NextOnes == Spec => []TimesAreNext
<1>1. IInv => TimesAreNext
  <2>. SUFFICES ASSUME IInv, pc = "computed"
                PROVE  /\ call.function = "hourly" => IsNextOf(times, LAMBDA t : TRUE)
                       /\ call.function = "daily" =>
                            IsNextOf(times, LAMBDA t : UTCHours(t) = call.hour)
                       /\ call.function = "weekly" => IsNextOf(SubSeq(times, 1, 1), OnWeekday)
    BY DEF TimesAreNext, Computed
  <2>1. /\ call \in Calls /\ start \in Starts /\ start \in Nat /\ call.n \in Nat \ {0}
        /\ times = Result(call, start)
        /\ times \in [1 .. call.n -> Nat] /\ DOMAIN times = 1 .. call.n
    BY CallIs, StartIs DEF IInv, TypeOK
  <2>2. ASSUME call.function = "hourly" PROVE IsNextOf(times, LAMBDA t : TRUE)
    <3>1. ASSUME NEW i \in 1 .. call.n
          PROVE  LET before == IF i = 1 THEN start ELSE times[i - 1]
                 IN  /\ times[i] > start /\ times[i] % Hour = 0 /\ before < times[i]
                     /\ before \div Hour + 1 .. times[i] \div Hour - 1 = {}
      BY <2>1, <2>2, HourlyIsNext
    <3>. QED  BY <2>1, <3>1 DEF IsNextOf
  <2>3. ASSUME call.function = "daily"
        PROVE  IsNextOf(times, LAMBDA t : UTCHours(t) = call.hour)
    <3>1. ASSUME NEW i \in 1 .. call.n
          PROVE  LET before == IF i = 1 THEN start ELSE times[i - 1]
                 IN  /\ times[i] > start /\ times[i] % Hour = 0
                     /\ UTCHours(times[i]) = call.hour /\ before < times[i]
                     /\ \A h \in before \div Hour + 1 .. times[i] \div Hour - 1 :
                          UTCHours(h * Hour) # call.hour
      BY <2>1, <2>3, DailyIsNext
    <3>. QED  BY <2>1, <3>1 DEF IsNextOf
  <2>4. ASSUME call.function = "weekly" PROVE IsNextOf(SubSeq(times, 1, 1), OnWeekday)
    <3>. DEFINE t == times[1]
    <3>1. /\ t > start /\ t % Hour = 0 /\ OnWeekday(t)
          /\ \A h \in start \div Hour + 1 .. t \div Hour - 1 : ~OnWeekday(h * Hour)
      BY <2>1, <2>4, WeeklyStartsNext DEF OnWeekday
    <3>2. SubSeq(times, 1, 1) = [i \in 1 .. 1 |-> t]
      BY <2>1
    <3>. HIDE DEF t
    <3>3. DOMAIN SubSeq(times, 1, 1) = {1} /\ SubSeq(times, 1, 1)[1] = t
      BY <3>2
    <3>. QED  BY <3>1, <3>3 DEF IsNextOf
  <2>. QED  BY <2>2, <2>3, <2>4
<1>. QED  BY <1>1, Invariant, PTL

(***************************************************************************)
(* Hourly and daily time stamps are valid exactly until the first of them  *)
(* is reached, unless there are too many.                                  *)
(***************************************************************************)
THEOREM ValidWhileToCome == Spec => []ValidUntilReached
<1>1. IInv => ValidUntilReached
  <2>. SUFFICES ASSUME IInv, pc \in Verdicts, call.function \in {"hourly", "daily"}
                PROVE  pc = (IF call.n > RecurringTaskLimit THEN "tooMany"
                             ELSE IF \E i \in DOMAIN times : times[i] <= now THEN "past"
                             ELSE "valid")
    BY DEF ValidUntilReached
  <2>1. /\ call \in Calls /\ start \in Starts /\ now \in Nat /\ call.n \in Nat
        /\ times = Result(call, start) /\ pc = Verdict
        /\ times \in [1 .. call.n -> Nat] /\ DOMAIN times = 1 .. call.n
    BY CallIs DEF IInv, TypeOK, Verdicts
  <2>2. ASSUME NEW i \in 1 .. call.n PROVE times[i] % Hour = 0
    BY <2>1, HourlyIsNext, DailyIsNext
  <2>3. ASSUME NEW i \in 1 .. call.n
        PROVE  times[i] >= NextAvailableHour(now) <=> ~(times[i] <= now)
    <3>. times[i] \in Nat /\ times[i] % Hour = 0
      BY <2>1, <2>2
    <3>. QED  BY <2>1 DEF NextAvailableHour, Hour
  <2>4. /\ Verdict \in Verdicts /\ (Verdict = "tooMany" <=> call.n > RecurringTaskLimit)
        /\ Verdict = "valid" <=> /\ call.n <= RecurringTaskLimit
                                 /\ \A i \in 1 .. call.n : ~(times[i] <= now)
        /\ Verdict # "notOnTheHour"
    BY <2>1, <2>2, <2>3, VerdictIs
  <2>5. RecurringTaskLimit \in Nat
    BY LimitAssumption
  <2>. QED  BY <2>1, <2>4, <2>5 DEF Verdicts
<1>. QED  BY <1>1, Invariant, PTL

(***************************************************************************)
(* The chain accepts what validateTimestamps has let pass, unless another  *)
(* hour has begun or the times reach further than line 136 cares to check: *)
(* more than five months.                                                  *)
(***************************************************************************)
THEOREM ValidIsAccepted == Spec => []ValidatedIsAccepted
<1>1. IInv => ValidatedIsAccepted
  <2>. SUFFICES ASSUME IInv, pc = "dispatched"
                PROVE  /\ "InvalidTime" \notin errors
                       /\ "PastTime" \in errors => now \div Hour > checked \div Hour
                       /\ "TimeTooFarOut" \in errors =>
                            call.function \in {"byDate", "byWeekday"} /\ call.n > 5
    BY DEF ValidatedIsAccepted
  <2>1. /\ call \in Calls /\ start \in Starts /\ start \in Nat /\ now \in Nat /\ checked \in Nat
        /\ call.n \in Nat /\ Runs(call) /\ times = Result(call, start)
        /\ times \in [1 .. call.n -> Nat] /\ DOMAIN times = 1 .. call.n
        /\ start <= now /\ checked <= now /\ call.n <= RecurringTaskLimit
        /\ errors = ErrorsAt(now)
        /\ \A i \in 1 .. call.n :
             times[i] \in Nat /\ times[i] >= NextAvailableHour(checked) /\ times[i] % Hour = 0
    BY CallIs, StartIs DEF IInv, TypeOK, Verdicts
  <2>2. "InvalidTime" \notin errors
    <3>. \A i \in 1 .. call.n : times[i] % SlotSize = 0
      BY <2>1, OnSlot
    <3>. QED  BY <2>1 DEF ErrorsAt
  <2>3. ASSUME "PastTime" \in errors PROVE now \div Hour > checked \div Hour
    <3>1. PICK i \in 1 .. call.n : times[i] <= now
      BY <2>1, <2>3 DEF ErrorsAt
    <3>2. times[i] \in Nat /\ times[i] >= NextAvailableHour(checked)
      BY <2>1
    <3>. QED  BY <2>1, <3>1, <3>2 DEF NextAvailableHour, Hour
  <2>4. ASSUME "TimeTooFarOut" \in errors
        PROVE  call.function \in {"byDate", "byWeekday"} /\ call.n > 5
    <3>1. PICK i \in 1 .. call.n : times[i] > now + ScheduleLimit
      BY <2>1, <2>4 DEF ErrorsAt
    <3>2. call.n <= 24 /\ ScheduleLimit \in Nat /\ ScheduleLimit >= 180 * Day
      BY <2>1, LimitAssumption
    <3>3. times[i] \in Nat /\ ~(times[i] <= start + 180 * Day)
      BY <2>1, <3>1, <3>2 DEF Day, Hour
    <3>4. SUFFICES ASSUME call.function \in {"byDate", "byWeekday"} => call.n <= 5
                   PROVE  FALSE
      BY <2>1
    <3>. QED  BY <2>1, <3>2, <3>3, <3>4, Reach
  <2>. QED  BY <2>2, <2>3, <2>4
<1>. QED  BY <1>1, Invariant, PTL

(***************************************************************************)
(* The monthly functions give one time stamp in each of n months in a row, *)
(* on the date or weekday and at the hour asked for; the one by weekday    *)
(* never starts in the past (lines 142 to 147 and 196 of recurrer.ts).     *)
(***************************************************************************)
THEOREM OncePerMonth == Spec => []MonthlyIsMonthly
<1>1. IInv => MonthlyIsMonthly
  <2>. SUFFICES ASSUME IInv, pc = "computed"
                PROVE  MonthlyIsMonthly
    BY DEF MonthlyIsMonthly, Computed
  <2>1. /\ call \in Calls /\ start \in Starts /\ call.n \in Nat \ {0}
        /\ Runs(call) /\ times = Result(call, start) /\ MonthAt(start) \in Nat
        /\ DOMAIN times = 1 .. call.n /\ 1 \in 1 .. call.n
    <3>1. /\ call \in Calls /\ start \in Starts /\ Runs(call) /\ times = Result(call, start)
          /\ times \in [1 .. call.n -> Nat]
      BY DEF IInv, TypeOK
    <3>2. call.n \in Nat \ {0}
      BY <3>1, CallIs
    <3>3. MonthAt(start) \in Nat
      <4>1. MonthAt(start) \in Months
        BY <3>1, StartIs
      <4>. QED  BY <4>1 DEF Months
    <3>. QED  BY <3>1, <3>2, <3>3
  <2>2. CASE call.function = "byDate"
    <3>1. DateOver(start, call.date) \in 0 .. 1
      BY DEF DateOver
    <3>2. ASSUME NEW i \in 1 .. call.n
          PROVE  /\ MonthAt(times[i]) = MonthAt(start) + (DateOver(start, call.date) + i - 1)
                 /\ UTCDate(times[i]) = call.date /\ UTCHours(times[i]) = call.hour
      BY <2>1, <2>2, ByDateIs
    <3>. QED  BY <2>1, <2>2, <3>1, <3>2 DEF MonthlyIsMonthly
  <2>3. CASE call.function = "byWeekday"
    <3>. DEFINE e == EventOver(start, call.day, call.hour)
    <3>1. e \in 0 .. 1
      BY DEF EventOver
    <3>2. ASSUME NEW i \in 1 .. call.n
          PROVE  /\ MonthAt(times[i]) = MonthAt(start) + (e + i - 1)
                 /\ OnWeekday(times[i])
      BY <2>1, <2>3, ByWeekdayIs DEF OnWeekday
    <3>3. times[1] >= start
      BY <2>1, <2>3, EventToCome
    <3>. HIDE DEF e
    <3>4. MonthAt(times[1]) = MonthAt(start) + e
      BY <2>1, <3>1, <3>2
    <3>5. \A i \in DOMAIN times : MonthAt(times[i]) = MonthAt(times[1]) + i - 1
      BY <2>1, <3>1, <3>2, <3>4
    <3>6. MonthAt(times[1]) - MonthAt(start) \in 0 .. 1
      BY <2>1, <3>1, <3>4
    <3>7. \A i \in DOMAIN times : OnWeekday(times[i])
      BY <2>1, <3>2
    <3>. HIDE DEF OnWeekday
    <3>. QED  BY <2>3, <3>3, <3>5, <3>6, <3>7 DEF MonthlyIsMonthly
  <2>. QED  BY <2>2, <2>3 DEF MonthlyIsMonthly
<1>. QED  BY <1>1, Invariant, PTL
=============================================================================
