CONSTANTS
  Tokens = {t1, t2, t3}
  Sessions = {s1, s2}
  Handlers = {h1}
  Revokers = {r1}
  MaxAttempts = 3
  None = None
SPECIFICATION Spec
INVARIANTS
  OtherSessionsRevoked
