SPECIFICATION Spec
CONSTANTS
  Times = {0, 1, 2}
  MaxTimers = 4
  MaxIds = 4
  Ops = {"add", "remove", "extract", "update"}
INVARIANTS TypeOK TableConsistent HeapOrdered
PROPERTY ImplementsTimerSet
CHECK_DEADLOCK FALSE
