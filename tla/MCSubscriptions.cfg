SPECIFICATION FairSpec
CONSTANTS
  Users = {u1}
  Bytes = {0, 1}
  Fds <- MCFds
  MaxConns = 4
  MaxEntries = 3
  NULL = NULL
INVARIANTS TypeOK ToldForSubscriber WalkComplete
PROPERTY WalksEnd
CHECK_DEADLOCK FALSE
