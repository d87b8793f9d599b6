\* One login, one callback, one request.
SPECIFICATION ServerSpec
CONSTANTS
  Logins = {l1}
  Callbacks = {c1}
  Requests = {r1}
  Nothing = Nothing
  SessionLife = 1
  MaxTime = 3
INVARIANT VerifierFound
CHECK_DEADLOCK FALSE
