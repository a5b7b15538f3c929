SPECIFICATION Spec
CONSTANTS
  RootFiles = {}
  CompFiles = {app}
  StaticFiles = {}
  StaticScripts = {}
  DefaultSkip = {}
  Regions = {r1, r2}
  Edits = {mine}
  MaxRelease = 3
  MaxOps = 5
  Absent = Absent
PROPERTIES
  ConflictsNeverCommitted
  NewEditsSurviveMerge
  OnlyCommittedOverwritten
  FilesNeverDeleted
CHECK_DEADLOCK FALSE
