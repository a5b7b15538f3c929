CONSTANTS
  Ports <- AccountPorts
  Behaviour <- NodeBehaviour
  Emails = {one, two}
  Requests = {q1, q2}
  CodeSlots = {1}
  LoginMax = 2
  MfaMax = 2
  MaxBudget = 4
  EntityPorts <- CrudPorts
  EntityBehaviour <- NodeBehaviour
  Ids = {one, two}
  Clients = {q1, q2}
  Patches <- SomePatches
  Batches <- WholeTable
  MaxWrites = 3
  ConfigPorts <- CachePorts
  ConfigBehaviour <- AllConfigs
  Processes = {one, two}
  Calls = {q1, q2}
  CacheTTL = 2
  MaxDelay = 1
  MaxVersions = 2
SPECIFICATION BackendSpec
SYMMETRY BackendSymmetry
CHECK_DEADLOCK FALSE
INVARIANTS
  AccountsTypeOK
  SomeAdmin
  GuessesBounded
  FactorRequired
  UsedLinkRefused
  EntitiesTypeOK
  TrailCoversTable
  SnapshotsAreReal
  ServedValueRecent
  OwnWritesSeen
PROPERTIES
  LocksHold
  PasswordNeverReverts
  OnlyStaleSavesUndo
