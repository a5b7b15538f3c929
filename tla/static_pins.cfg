SPECIFICATION ScaffoldedSpec
CONSTANTS
  RootFiles = {editorconfig, script}
  CompFiles = {}
  StaticFiles = {editorconfig}
  StaticScripts = {script}
  DefaultSkip = {}
  Regions = {r1}
  Edits = {mine}
  MaxRelease = 2
  MaxOps = 4
  Absent = Absent
PROPERTIES PinsHonoured
CHECK_DEADLOCK FALSE
