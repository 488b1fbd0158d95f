SPECIFICATION FairSpec
CONSTANTS
  NanosPerSec = 3
  NanosPerMilli = 1
  Fds = {f1}
  Delays = {2, 3}
  Effects = {"set", "move", "remove", "submit", "stop"}
  MaxNow = 5
  MaxTimers = 2
  MaxEvents = 2
  MaxJobs = 1
  MaySignal = TRUE
  NULL = NULL
INVARIANTS TypeOK OvertakenAtMostOnce SleepEndsForTimers TimeKept
PROPERTIES OnTimeUnlessBorrowed TimersFire LoopReturns
CHECK_DEADLOCK FALSE
