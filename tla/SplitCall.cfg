SPECIFICATION Spec
CONSTANTS
  None = None
  Record <- SplitRecord
  TraceOf <- SplitTraceOf
  HintOf <- SplitHintOf
  Log <- SplitLog
  Partition = {"p1", "p2"}
  RootRecord = {"r2"}
  CallPk = {k1, k2}
  CallId = {"T", "H"}
  Breaks = {}
  Unsupported = {}
  Malformed = {}
  Consumer = {c1, c2}
  MaxRetries = 2
  Batch = 1
  Artifact <- OneArtifact
  ArtifactOf <- ArtifactOfH
  Erasable = {}
  Faults = {}
  MaxFaults = 0
SYMMETRY Sym
CHECK_DEADLOCK FALSE
INVARIANTS OneCallPerTrace
