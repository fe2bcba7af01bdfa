\* One email, two requests at a time, no call fails: passwords, tokens and the
\* lockout.
SPECIFICATION CalmSpec
CONSTANTS
  Null = Null
  Emails = {e1}
  SessionIds = {x1, x2}
  ResetTokens = {t1}
  Workers = {w1, w2}
  Endpoints <- PasswordEndpoints
  LOCKOUT_MAX_ATTEMPTS = 1
  MaxVersion = 2
  MaxTime = 1
INVARIANTS
  AccountsComplete
  SessionsAreUsable
PROPERTIES
  PasswordsOnlyAdvance
  ResetTokensSpent
  SessionsStayMatched
  Unlocks
