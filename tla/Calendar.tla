------------------------------ MODULE Calendar ------------------------------
(***************************************************************************)
(* The UTC calendar of JavaScript's Date.  Time is counted in ticks of     *)
(* 14.4 seconds, the largest unit that divides an hour, a day and the      *)
(* 604800 milliseconds the code adds for a week.  Tick 0 is midnight of    *)
(* January 1, 2023, a Sunday.  Months and weekdays count from 0, as in     *)
(* Date.                                                                   *)
(***************************************************************************)
EXTENDS Naturals

FirstYear == 2023
Months == 0 .. 47  \* bound: the calendar ends with 2026

Hour == 250
Day == 24 * Hour
Week == 7 * Day
Milliseconds604800 == 42

IsLeap(year) == year % 4 = 0 /\ (year % 100 # 0 \/ year % 400 = 0)

\* Months count from the first of FirstYear.
DaysIn(month) ==
  CASE month % 12 = 1 -> IF IsLeap(FirstYear + month \div 12) THEN 29 ELSE 28
    [] month % 12 \in {3, 5, 8, 10} -> 30
    [] OTHER -> 31

MonthStart[month \in Months] ==
  IF month = 0 THEN 0 ELSE MonthStart[month - 1] + DaysIn(month - 1)

\* Date.UTC: a month past December or a date past the end of its month
\* runs over into what follows.
UTC(year, month, date, hour) ==
  (MonthStart[12 * (year - FirstYear) + month] + date - 1) * Day + hour * Hour

MonthAt(time) ==
  CHOOSE month \in Months : /\ MonthStart[month] <= time \div Day
                            /\ time \div Day < MonthStart[month] + DaysIn(month)

UTCFullYear(time) == FirstYear + MonthAt(time) \div 12
UTCMonth(time) == MonthAt(time) % 12
UTCDate(time) == time \div Day - MonthStart[MonthAt(time)] + 1
UTCDay(time) == (time \div Day) % 7
UTCHours(time) == (time % Day) \div Hour
=============================================================================
