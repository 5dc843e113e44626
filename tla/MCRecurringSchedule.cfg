\* Time stamps of every kind.
SPECIFICATION Spec
CONSTANTS
  Calls <- MCCalls
  Starts <- MCStarts
  Delays <- MCDelays
  RecurringTaskLimit = 24
  SlotSize <- MCSlotSize
  ScheduleLimit <- MCScheduleLimit
INVARIANT TypeOK
INVARIANT TimesAreNext
INVARIANT ValidUntilReached
INVARIANT MonthlyIsMonthly
INVARIANT ValidatedIsAccepted
CHECK_DEADLOCK FALSE
