SPECIFICATION FairSpec
CONSTANTS
  NanosPerSec = 2
  NanosPerMilli = 1
  Fds = {f1}
  Delays = {1}
  Effects = {"submit"}
  MaxNow = 2
  MaxTimers = 0
  MaxEvents = 2
  MaxJobs = 2
  MaySignal = FALSE
  NULL = NULL
PROPERTY TriggersServed
CHECK_DEADLOCK FALSE
