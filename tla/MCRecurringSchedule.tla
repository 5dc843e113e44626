------------------------ MODULE MCRecurringSchedule ------------------------
(***************************************************************************)
(* Starts around the ends of months, a leap day and the end of a year.     *)
(***************************************************************************)
EXTENDS RecurringSchedule

StartDays == {UTC(2023, 0, 31, 0), UTC(2023, 1, 28, 0), UTC(2024, 1, 28, 0), UTC(2024, 1, 29, 0),
              UTC(2024, 5, 12, 0), UTC(2023, 11, 30, 0), UTC(2023, 11, 31, 0)}

\* At midnight, at 7, at 23, and a tick after; the last tick of an hour.
MCStarts == {d + h * Hour + tick : d \in StartDays, h \in {0, 7, 23}, tick \in {0, 1, Hour - 1}}

MCDelays == {1, Hour - 1, Hour, 2 * Day}

MCHours == {0, 7, 23}

MCCalls ==
  [function : {"hourly"}, n : {1, 3, 24, 25}]
    \cup [function : {"daily"}, n : {1, 3, 25}, hour : MCHours]
    \cup [function : {"weekly"}, n : {1, 2}, hour : MCHours, day : 0 .. 6]
    \cup [function : {"byDate"}, n : {1, 3, 8}, hour : MCHours, date : {1, 15, 28}]
    \cup [function : {"byWeekday"}, n : {1, 3, 8}, hour : MCHours, day : {0, 3, 6}, week : {1, 4, 5}]

\* Half an hour; six months of 30 days.
MCSlotSize == Hour \div 2
MCScheduleLimit == 180 * Day

MCCallsWeekly == [function : {"weekly"}, n : {2}, hour : {7}, day : {1}]
=============================================================================
