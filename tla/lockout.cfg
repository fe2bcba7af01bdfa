\* One login at a time, whose calls may fail.
SPECIFICATION FairSpec
CONSTANTS
  Null = Null
  Emails = {e1}
  SessionIds = {x1}
  ResetTokens = {t1}
  Workers = {w1}
  Endpoints <- SessionEndpoints
  LOCKOUT_MAX_ATTEMPTS = 5
  MaxVersion = 1
  MaxTime = 0
PROPERTIES
  Unlocks
