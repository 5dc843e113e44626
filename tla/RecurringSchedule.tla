------------------------- MODULE RecurringSchedule -------------------------
(***************************************************************************)
(* A caller computes the execution times of a task with the Recurrer, and  *)
(* some time later has AutomationTimeApi.validateTimestamps check them     *)
(* (test/utils/apis/AutomationTimeApi.ts); again later the chain checks    *)
(* them when it dispatches the schedule.  Nothing in the repository calls  *)
(* validateTimestamps: the caller is what its comments suppose, and its    *)
(* clock is that of the chain.                                             *)
(***************************************************************************)
EXTENDS Recurrer, FiniteSets

CONSTANTS
  Calls,           \* function and arguments
  Starts,          \* when the call is made
  Delays,          \* bound: how long the caller may take until it validates
  RecurringTaskLimit,
  SlotSize,        \* of the chain: slotSizeSeconds
  ScheduleLimit    \* of the chain: maxScheduleSeconds

ASSUME CallAssumption == \A c \in Calls :
  /\ c.function \in {"hourly", "daily", "weekly", "byDate", "byWeekday"}
  /\ c.n \in Nat \ {0}
  /\ c.function # "hourly" => c.hour \in 0 .. 23
  /\ c.function \in {"weekly", "byWeekday"} => c.day \in 0 .. 6
  /\ c.function = "byDate" => c.date \in 1 .. 28   \* a date every month has
  /\ c.function = "byWeekday" => c.week \in Nat \ {0}

ASSUME SlotAssumption == SlotSize \in Nat \ {0} /\ Hour % SlotSize = 0

\* RECURRING_TASK_LIMIT, and the six months of scheduleLimit.
ASSUME LimitAssumption ==
  /\ RecurringTaskLimit \in 1 .. 24
  /\ ScheduleLimit \in Nat /\ ScheduleLimit >= 180 * Day

\* The calendar lasts until the last time stamp is computed.
ASSUME CalendarAssumption ==
  /\ Starts \subseteq Nat /\ Delays \subseteq Nat
  /\ \A s \in Starts : /\ s < UTC(2026, 11, 32, 0)
                       /\ \A c \in Calls : c.function \in {"byDate", "byWeekday"} =>
                                             MonthAt(s) + c.n \in Months

VARIABLES
  now,
  call,
  start,   \* the argument startTimestamp, read from the clock
  times,
  pc,      \* the last step; what validateTimestamps says
  checked, \* when validateTimestamps was called
  errors   \* the errors of the chain that apply to the schedule

vars == <<now, call, start, times, pc, checked, errors>>

Verdicts == {"valid", "tooMany", "past", "notOnTheHour"}

TypeOK ==
  /\ now \in Nat /\ start \in Starts /\ call \in Calls
  /\ pc \in {"asked", "threw", "computed", "waited", "dispatched"} \cup Verdicts
  /\ IF pc \in {"asked", "threw"} THEN times = <<>> ELSE times \in [1 .. call.n -> Nat]
  /\ checked \in Nat /\ errors \subseteq {"InvalidTime", "PastTime", "TimeTooFarOut"}

Init ==
  /\ start \in Starts /\ now = start
  /\ call \in Calls
  /\ times = <<>>
  /\ pc = "asked"
  /\ checked = 0 /\ errors = {}

Result(c, s) ==
  CASE c.function = "hourly" -> GetHourlyRecurringTimestamps(s, c.n)
    [] c.function = "daily"  -> GetDailyRecurringTimestamps(s, c.n, c.hour)
    [] c.function = "weekly" -> GetWeeklyRecurringTimestamps(s, c.n, c.hour, c.day)
    [] c.function = "byDate" -> GetMonthlyRecurringTimestampsByDate(s, c.n, c.hour, c.date)
    [] c.function = "byWeekday" ->
         GetMonthlyRecurringTimestampsByWeekday(s, c.n, c.hour, c.day, c.week)

Compute ==
  /\ pc = "asked"
  /\ IF call.function = "byWeekday" /\ call.week > 4
       THEN pc' = "threw" /\ UNCHANGED times
       ELSE pc' = "computed" /\ times' = Result(call, start)
  /\ UNCHANGED <<now, call, start, checked, errors>>

Wait ==
  /\ pc = "computed"
  /\ pc' = "waited"
  /\ \E delay \in Delays : now' = now + delay
  /\ UNCHANGED <<call, start, times, checked, errors>>

\* Mutant: the current hour is still available.
ThisHour(time) == time - (time % Hour)

NextAvailableHour(time) == time - (time % Hour) + Hour

\* Mutant: any time to come is good.
FaultIfPast(t) == IF t < NextAvailableHour(now) THEN "past" ELSE "valid"

\* The last check, against schedulingTimeLimit, is never true: the config
\* has no such field, and it compares seconds with milliseconds.
Fault(t) ==
  IF t < NextAvailableHour(now) THEN "past"
  ELSE IF t % Hour # 0 THEN "notOnTheHour"
  ELSE "valid"

\* The first time stamp at fault decides.
Verdict ==
  LET faulty == {i \in DOMAIN times : Fault(times[i]) # "valid"}
  IN  IF Len(times) > RecurringTaskLimit THEN "tooMany"
      ELSE IF faulty = {} THEN "valid"
      ELSE Fault(times[CHOOSE i \in faulty : \A j \in faulty : i <= j])

ValidateTimestamps ==
  /\ pc \in {"computed", "waited"}
  /\ pc' = Verdict
  /\ checked' = now
  /\ UNCHANGED <<now, call, start, times, errors>>

\* What the pallet refuses at the time of the dispatch.
ErrorsAt(time) ==
  {e \in {"InvalidTime", "PastTime", "TimeTooFarOut"} : \E i \in DOMAIN times :
     CASE e = "InvalidTime"   -> times[i] % SlotSize # 0
       [] e = "PastTime"      -> times[i] <= time
       [] e = "TimeTooFarOut" -> times[i] > time + ScheduleLimit}

\* The schedule is dispatched, at once or after a while.
Dispatch ==
  /\ pc = "valid"
  /\ pc' = "dispatched"
  /\ \E delay \in {0} \cup Delays : now' = now + delay /\ errors' = ErrorsAt(now + delay)
  /\ UNCHANGED <<call, start, times, checked>>

Next == Compute \/ Wait \/ ValidateTimestamps \/ Dispatch

Spec == Init /\ [][Next]_vars
-----------------------------------------------------------------------------
\* The times do not change any more.
Computed == pc = "computed"

\* seq is what matches, in order, after the start, with nothing skipped.
IsNextOf(seq, Matches(_)) ==
  /\ \A i \in DOMAIN seq : seq[i] > start /\ seq[i] % Hour = 0 /\ Matches(seq[i])
  /\ \A i \in DOMAIN seq :
       LET before == IF i = 1 THEN start ELSE seq[i - 1]
       IN  /\ before < seq[i]
           /\ \A h \in before \div Hour + 1 .. seq[i] \div Hour - 1 : ~Matches(h * Hour)

OnWeekday(t) == UTCHours(t) = call.hour /\ UTCDay(t) = call.day

(***************************************************************************)
(* The hourly and daily functions give the next n instants that fit, on    *)
(* the hour and after the start, across the ends of months and years and   *)
(* for a start on the hour (lines 21 to 26 and 59 to 63); the first weekly *)
(* one is the next on the weekday and at the hour asked for (lines 106 and *)
(* 107).                                                                   *)
(***************************************************************************)
TimesAreNext == Computed =>
  CASE call.function = "hourly" -> IsNextOf(times, LAMBDA t : TRUE)
    [] call.function = "daily"  -> IsNextOf(times, LAMBDA t : UTCHours(t) = call.hour)
    [] call.function = "weekly" -> IsNextOf(SubSeq(times, 1, 1), OnWeekday)
    [] OTHER -> TRUE

(***************************************************************************)
(* What the two modules mean by an hour agrees: time stamps the Recurrer   *)
(* computed are valid exactly until the first of them is reached, however  *)
(* long the caller took, unless there are too many.                        *)
(***************************************************************************)
ValidUntilReached ==
  pc \in Verdicts /\ call.function \in {"hourly", "daily"} =>
    pc = (IF call.n > RecurringTaskLimit THEN "tooMany"
          ELSE IF \E i \in DOMAIN times : times[i] <= now THEN "past" ELSE "valid")

(***************************************************************************)
(* The chain accepts what validateTimestamps has let pass ("on the hour",  *)
(* "in a future time slot", lines 114 and 115), unless another hour has    *)
(* begun in between, or the times reach beyond the scheduling limit, which *)
(* line 136 fails to check; only a monthly schedule reaches so far.        *)
(***************************************************************************)
ValidatedIsAccepted == pc = "dispatched" =>
  /\ "InvalidTime" \notin errors
  /\ "PastTime" \in errors => now \div Hour > checked \div Hour
  /\ "TimeTooFarOut" \in errors => call.function \in {"byDate", "byWeekday"} /\ call.n > 5

(***************************************************************************)
(* "Output up to 24 weekly recurring timestamps" (line 105).               *)
(***************************************************************************)
WeeklyIsWeekly == Computed /\ call.function = "weekly" =>
  \A i \in DOMAIN times : i > 1 => times[i] = times[i - 1] + Week

(***************************************************************************)
(* The monthly functions give one time stamp in each of n months in a row, *)
(* across the end of a year, on the date or weekday and at the hour asked  *)
(* for (dates up to 28); the one by weekday never starts in the past, the  *)
(* one by date may on the day itself (lines 142 to 147 and 196).           *)
(***************************************************************************)
MonthlyIsMonthly == Computed /\ call.function \in {"byDate", "byWeekday"} =>
  /\ \A i \in DOMAIN times : MonthAt(times[i]) = MonthAt(times[1]) + i - 1
  /\ MonthAt(times[1]) - MonthAt(start) \in 0 .. 1
  /\ IF call.function = "byDate"
       THEN \A i \in DOMAIN times : UTCDate(times[i]) = call.date /\ UTCHours(times[i]) = call.hour
       ELSE times[1] >= start /\ \A i \in DOMAIN times : OnWeekday(times[i])
=============================================================================
