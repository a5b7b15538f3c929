CONSTANTS
  Tokens = {t1, t2, t3}
  Sessions = {s1}
  Handlers = {h1, h2}
  Revokers = {r1}
  MaxAttempts = 3
  None = None
  Flights = {f1, f2}
  Callers = {a1, a2}
  MaxRefreshTokens = 4
SPECIFICATION LiveSpec
CHECK_DEADLOCK FALSE
INVARIANTS
  NewestTokenKept
  FreshTokenSent
  LogoutSticks
PROPERTIES
  ImplementsLifecycle
  RefreshAnswered
  CallsFinish
  PageShown
