SPECIFICATION FairSpec
CONSTANTS
  MaxJob = 2
  Id = {"a", "b"}
  File = {"f1", "f2"}
  Files <- TwoJobs
  Source <- TwoSources
  PathId <- MCPathId
  ContentId <- MCContentId
  MaxCancel = 1
  MaxCrash = 1
CHECK_DEADLOCK FALSE
INVARIANTS BackfillTypeOK CountsMatch CancelStops
PROPERTIES NotRunTwice AskedAfterCommit JobSettles
