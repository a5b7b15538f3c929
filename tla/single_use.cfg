CONSTANTS
  Ports = {"FastifyPrisma"}
  Behaviour <- NodeBehaviour
  Emails = {alice}
  Requests = {q1, q2}
  CodeSlots = {1, 2}
  LoginMax = 2
  MfaMax = 2
  MaxBudget = 6
SPECIFICATION AccountsSpec
SYMMETRY RequestSymmetry
CHECK_DEADLOCK FALSE
INVARIANTS
  RecoveryCodesSingleUse
