SPECIFICATION FairSpec
CONSTANTS
  Addresses = {a1}
  MaxConns = 2
  MaxRequests = 3
  Patient = TRUE
  u1 = u1
  u2 = u2
  Users = {u1, u2}
  UserOf <- MCUserOf
  NULL = NULL
INVARIANTS TypeOK OneAnswer InvitesAreReal OnlyAnswersBreak
PROPERTIES ImplementsInviteService InvitesSettle
CHECK_DEADLOCK FALSE
