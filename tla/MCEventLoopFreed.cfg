SPECIFICATION Spec
CONSTANTS
  NanosPerSec = 2
  NanosPerMilli = 1
  Fds = {f1}
  Delays = {1}
  Effects = {"submit"}
  MaxNow = 1
  MaxTimers = 0
  MaxEvents = 2
  MaxJobs = 2
  MaySignal = TRUE
  NULL = NULL
INVARIANT QueuesFreedEmpty
CHECK_DEADLOCK FALSE
