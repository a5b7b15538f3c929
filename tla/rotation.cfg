CONSTANTS
  Tokens = {t1, t2, t3, t4}
  Sessions = {s1}
  Handlers = {h1, h2}
  Revokers = {r1}
  MaxAttempts = 2
  None = None
  RefreshPortNames <- RotationPorts
  RefreshBehaviour <- NodeBehaviour
SPECIFICATION PortsSpec
SYMMETRY PortSymmetry
INVARIANTS
  TypeOK
  OneLiveTokenPerSession
  SupersededNeverServed
  PortVerdicts
PROPERTIES
  PortsImplementLifecycle
