\* Tests one after the other, demo scripts beside them, and listeners.
SPECIFICATION FairSpec
CONSTANTS
  nonexistent = nonexistent
  n1 = n1
  s2 = s2
  c2 = c2
  again2 = again2
  s3 = s3
  c3 = c3
  fixed = fixed
  recurring = recurring
  alice = alice
  patient = patient
  hasty = hasty
  Tasks = {s2, s3, fixed, recurring, nonexistent}
  Calls = {n1, s2, c2, again2, s3, c3, fixed, recurring}
  Cancels = {n1, c2, again2, c3}
  Demos = {fixed, recurring}
  Verified = {s2, c2, s3, c3}
  Listeners = {patient, hasty}
  HasTimeout = {hasty}
  Owner <- MCOwner
  Bonding = {recurring}
  Frequency <- MCFrequency
  Target <- MCTarget
  Sender <- MCSender
  TestOf <- MCTestOf
  After <- MCAfter
  ListenAfter <- MCListenAfter
  Method <- MCMethod
  Scenarios <- MCScenarios
  Hour = 2
  Day = 3
  MaxTime = 3
INVARIANT TypeOK
INVARIANT CancelledIsGone
INVARIANT ReturnedScheduleRuns
INVARIANT PastOnlyWhenLate
INVARIANT RefusedOnlyInOverlap
INVARIANT QuietAfterAnswer
PROPERTY ImplementsTaskLife
PROPERTY EveryCallEnds
PROPERTY ListenerEnds
\* Every call ends, and time is bounded.
CHECK_DEADLOCK FALSE
