SPECIFICATION Spec
CONSTANTS
  MaxJob = 1
  Id = {"a", "b"}
  File = {"f1", "f2"}
  Files <- OneJob
  Source <- OneSource
  PathId <- MCPathId
  ContentId <- MCContentId
  MaxCancel = 0
  MaxCrash = 0
CHECK_DEADLOCK FALSE
INVARIANTS NeverAborted

