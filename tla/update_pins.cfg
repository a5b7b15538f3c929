SPECIFICATION Spec
CONSTANTS
  RootFiles = {compose}
  CompFiles = {manifest}
  StaticFiles = {}
  StaticScripts = {}
  DefaultSkip = {manifest}
  Regions = {r1}
  Edits = {mine}
  MaxRelease = 2
  MaxOps = 5
  Absent = Absent
INVARIANTS TypeOK SuccessLeavesCleanTree
PROPERTIES PinnedFilesUntouched DefaultsAppliedOnce
CHECK_DEADLOCK FALSE
