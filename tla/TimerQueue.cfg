\* Three timers: ties, a later one inserted in front, one added in a callback.
CONSTANTS
  OneSecond = 1
  Delays <- MCDelays
  Intervals <- MCInterval
  MaxTimers = 3
  MaxCancels = 1
  MaxTime = 4
  BusyUntil = 2
SPECIFICATION FairSpec
INVARIANTS SameTimers OwnedOnce ArmedForEarliest
PROPERTIES NeverEarlyNorAgain TimersRun
CHECK_DEADLOCK FALSE
