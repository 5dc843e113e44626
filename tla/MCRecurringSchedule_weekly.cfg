\* Two weekly time stamps.
SPECIFICATION Spec
CONSTANTS
  Calls <- MCCallsWeekly
  Starts <- MCStarts
  Delays <- MCDelays
  RecurringTaskLimit = 24
  SlotSize <- MCSlotSize
  ScheduleLimit <- MCScheduleLimit
INVARIANTS WeeklyIsWeekly
CHECK_DEADLOCK FALSE
