SPECIFICATION Spec
CONSTANTS
  RootFiles = {}
  CompFiles = {app}
  StaticFiles = {}
  StaticScripts = {}
  DefaultSkip = {}
  Regions = {r1}
  Edits = {mine}
  MaxRelease = 1
  MaxOps = 3
  Absent = Absent
PROPERTIES InitKeepsCode
CHECK_DEADLOCK FALSE
