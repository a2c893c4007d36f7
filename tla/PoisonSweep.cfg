SPECIFICATION FairSpec
CONSTANTS
  None = None
  Record <- TwoRecord
  TraceOf <- TwoTraceOf
  HintOf <- TwoHintOf
  Log <- TwoLog
  Partition = {"p1", "p2"}
  RootRecord = {"r2", "r3"}
  CallPk = {k1, k2}
  CallId = {"T", "H", "U", "J"}
  Breaks = {"r1"}
  Unsupported = {}
  Malformed = {"r5"}
  Consumer = {c1}
  MaxRetries = 2
  Batch = 1
  Artifact <- OneArtifact
  ArtifactOf <- ArtifactOfH
  Erasable = {}
  Faults = {}
  MaxFaults = 0
CHECK_DEADLOCK FALSE
PROPERTIES CompleteIsAnalysed
