CONSTANTS
  OneSecond = 1
  Delays <- MCDelays
  Intervals <- MCIntervals
  MaxTimers = 1
  MaxCancels = 1
  MaxTime = 4
  BusyUntil = 4
SPECIFICATION Spec
PROPERTIES CanceledNeverExpires
CHECK_DEADLOCK FALSE
