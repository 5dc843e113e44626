------------------------------ MODULE Recurrer ------------------------------
(***************************************************************************)
(* The time stamps of recurring tasks (test/utils/recurrer.ts), in ticks.  *)
(***************************************************************************)
EXTENDS Calendar, Sequences

\* Mutant: one time stamp too many, _.times(n + 1, ...).
TimesOneMore(n, first, step) == [i \in 1 .. n + 1 |-> first + (i - 1) * step]

\* _.times of a constant step
Times(n, first, step) == [i \in 1 .. n |-> first + (i - 1) * step]

GetHourlyRecurringTimestamps(start, n) ==
  LET first == start - (start % Hour) + Hour
  IN  Times(n, first, Hour)

\* Mutant: the hour of the start counts as still to come.
DailySameHour(start, n, hourOfDay) ==
  LET startDay == IF UTCHours(start) <= hourOfDay THEN UTCDate(start) ELSE UTCDate(start) + 1
      first == UTC(UTCFullYear(start), UTCMonth(start), startDay, hourOfDay)
  IN  Times(n, first, Day)

GetDailyRecurringTimestamps(start, n, hourOfDay) ==
  LET startDay == IF UTCHours(start) < hourOfDay THEN UTCDate(start) ELSE UTCDate(start) + 1
      first == UTC(UTCFullYear(start), UTCMonth(start), startDay, hourOfDay)
  IN  Times(n, first, Day)

FindWeekdayStartDate(startWeekday, dayOfWeek, canStartSameDay) ==
  IF startWeekday = dayOfWeek THEN (IF canStartSameDay THEN 0 ELSE 7)
  ELSE IF startWeekday > dayOfWeek THEN 7 - (startWeekday - dayOfWeek)
  ELSE dayOfWeek - startWeekday

GetWeeklyRecurringTimestamps(start, n, hourOfDay, dayOfWeek) ==
  LET startDay == UTCDate(start)
        + FindWeekdayStartDate(UTCDay(start), dayOfWeek, UTCHours(start) < hourOfDay)
      first == UTC(UTCFullYear(start), UTCMonth(start), startDay, hourOfDay)
  IN  Times(n, first, Milliseconds604800)

\* Mutant: after December comes January of the same year.
ByDateWrapped(start, n, hourOfDay, dateOfMonth) ==
  LET month == UTCMonth(start) + (IF UTCDate(start) <= dateOfMonth THEN 0 ELSE 1)
  IN  [i \in 1 .. n |-> UTC(UTCFullYear(start), (month + i - 1) % 12, dateOfMonth, hourOfDay)]

GetMonthlyRecurringTimestampsByDate(start, n, hourOfDay, dateOfMonth) ==
  LET month == UTCMonth(start) + (IF UTCDate(start) <= dateOfMonth THEN 0 ELSE 1)
  IN  [i \in 1 .. n |-> UTC(UTCFullYear(start), month + i - 1, dateOfMonth, hourOfDay)]

FindDayOfWeekInMonthForStartDate(year, month, dayOfWeek, weekOfMonth) ==
  LET first == UTC(year, month, 1, 0)
      date == FindWeekdayStartDate(UTCDay(first), dayOfWeek, FALSE) + 1
  IN  UTCDate(UTC(year, month, date, 0) + Milliseconds604800 * (weekOfMonth - 1))

\* The code throws for a week past the fourth.
GetMonthlyRecurringTimestampsByWeekday(start, n, hourOfDay, dayOfWeek, weekOfMonth) ==
  LET year == UTCFullYear(start)
      Event(month) == UTC(year, month,
        FindDayOfWeekInMonthForStartDate(year, month, dayOfWeek, weekOfMonth), hourOfDay)
      firstMonth == UTCMonth(start) + (IF Event(UTCMonth(start)) >= start THEN 0 ELSE 1)
  IN  [i \in 1 .. n |-> Event(firstMonth + i - 1)]
=============================================================================
