\* Two logins, one refresh of each kind, a clock that outlives a token.
SPECIFICATION Spec
CONSTANTS
  Grants = {g1, g2}
  AuthJobs = {a1}
  SchedJobs = {s1}
  NoToken = NoToken
  Life = 3
  Window = 2
  Delta = 1
  MaxTime = 4
INVARIANTS TypeOK RefreshTokenKept
PROPERTY UnracedRefreshImproves
CHECK_DEADLOCK FALSE
