SPECIFICATION Spec
CONSTANTS
  Addresses = {a1, a2}
  MaxConns = 2
  MaxRequests = 2
  Patient = TRUE
  u1 = u1
  u2 = u2
  Users = {u1, u2}
  UserOf <- MCUserOf
  NULL = NULL
PROPERTY AcceptedPlays
CHECK_DEADLOCK FALSE
