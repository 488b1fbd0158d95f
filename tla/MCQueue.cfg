SPECIFICATION FairSpec
CONSTANTS
  Threads = {enqueuer, loop, database}
  Producers = {enqueuer, loop}
  Waiters = {database}
  Pollers = {loop}
  Nodes = {n1, n2}
  Values = {v1, NULL}
  NULL = NULL
INVARIANTS TypeOK MemorySafe ListShape SemaphoreCovers
PROPERTIES ImplementsFifo EveryItemTaken
