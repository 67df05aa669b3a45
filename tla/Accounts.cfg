SPECIFICATION Spec
CONSTANTS
  User = {u1}
  Client = {c1}
  Request = {r1, r2}
  Limit = 1
  Window = 2
  TTL = 1
  StoreFails = TRUE
  MaxClock = 2
  MaxChanges = 2
  MaxLogins = 2
  MaxTries = 3
  MaxRestarts = 1
SYMMETRY Requests
INVARIANTS
  SessionsMatchPassword
  GuessesBounded
CHECK_DEADLOCK FALSE
