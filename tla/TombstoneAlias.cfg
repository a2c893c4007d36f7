SPECIFICATION Spec
CONSTANTS
  None = None
  Record <- MixedRecord
  TraceOf <- MixedTraceOf
  HintOf <- MixedHintOf
  Log <- MixedLog
  Partition = {"p1", "p2"}
  RootRecord = {"r2", "r4"}
  CallPk = {k1, k2}
  CallId = {"T", "H", "U"}
  Breaks = {}
  Unsupported = {}
  Malformed = {}
  Consumer = {c1}
  MaxRetries = 2
  Batch = 1
  Artifact <- OneArtifact
  ArtifactOf <- ArtifactOfH
  Erasable = {"H"}
  Faults = {}
  MaxFaults = 0
CHECK_DEADLOCK FALSE
PROPERTIES StragglerDropped
