\* Two emails, two requests at a time, with failures.
SPECIFICATION Spec
CONSTANTS
  Null = Null
  Emails = {e1, e2}
  SessionIds = {x1, x2}
  ResetTokens = {t1}
  Workers = {w1, w2}
  Endpoints <- SessionEndpoints
  LOCKOUT_MAX_ATTEMPTS = 2
  MaxVersion = 2
  MaxTime = 0
SYMMETRY Symmetry
INVARIANTS
  TypeOK
  AttemptsBounded
PROPERTIES
  Life
