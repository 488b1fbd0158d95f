SPECIFICATION Spec
CONSTANTS
  Addresses = {a1, a2}
  MaxConns = 2
  MaxRequests = 2
  Patient = TRUE
  NULL = NULL
  Usernames = {u1}
  Passwords = {pw1}
INVARIANT UniqueNames
CHECK_DEADLOCK FALSE
