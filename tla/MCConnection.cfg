SPECIFICATION FairSpec
CONSTANTS
  HEADER = 2
  N = 4
  Length <- MCLength
  AnswerBytes = 2
  MaxNotices = 2
INVARIANTS TypeOK Framed OutputKept WatchedWhileOwing
PROPERTIES ServerClosesClean PacketsHandled OutputSettles
CHECK_DEADLOCK FALSE
