SPECIFICATION FairSpec
CONSTANTS
  Addresses = {a1, a2}
  MaxConns = 2
  MaxRequests = 3
  Patient = TRUE
  NULL = NULL
  Usernames = {u1}
  Passwords = {pw1, pw2}
INVARIANTS TypeOK OneAnswer TakenNamesRefused AnswersGoToOrigin
PROPERTIES ImplementsAccountService EveryRequestAnswered
CHECK_DEADLOCK FALSE
