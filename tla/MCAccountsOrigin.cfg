SPECIFICATION Spec
CONSTANTS
  Addresses = {a1, a2}
  MaxConns = 3
  MaxRequests = 2
  Patient = FALSE
  NULL = NULL
  Usernames = {u1}
  Passwords = {pw1}
INVARIANT AnswersGoToOrigin
CHECK_DEADLOCK FALSE
