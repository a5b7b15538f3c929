SPECIFICATION ScaffoldedSpec
CONSTANTS
  RootFiles = {}
  CompFiles = {app}
  StaticFiles = {}
  StaticScripts = {}
  DefaultSkip = {}
  Regions = {r1}
  Edits = {mine}
  MaxRelease = 1
  MaxOps = 4
  Absent = Absent
PROPERTIES EditsSurviveMerge
CHECK_DEADLOCK FALSE
