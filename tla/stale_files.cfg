SPECIFICATION ScaffoldedSpec
CONSTANTS
  RootFiles = {}
  CompFiles = {app}
  StaticFiles = {}
  StaticScripts = {}
  DefaultSkip = {}
  Regions = {r1}
  Edits = {mine}
  MaxRelease = 3
  MaxOps = 3
  Absent = Absent
INVARIANTS RefreshedOnSuccess
CHECK_DEADLOCK FALSE
