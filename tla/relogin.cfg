\* A login overlapping a change of the password.
SPECIFICATION CalmSpec
CONSTANTS
  Null = Null
  Emails = {e1}
  SessionIds = {x1, x2}
  ResetTokens = {t1}
  Workers = {w1, w2}
  Endpoints <- ChangeEndpoints
  LOCKOUT_MAX_ATTEMPTS = 5
  MaxVersion = 2
  MaxTime = 0
INVARIANTS
  SessionsMatchPassword
