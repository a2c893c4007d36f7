SPECIFICATION Spec
CONSTANTS
  None = None
  Record <- HintedRecord
  TraceOf <- HintedTraceOf
  HintOf <- HintedHintOf
  Log <- HintedLog
  Partition = {"p1"}
  RootRecord = {"r2"}
  CallPk = {k1, k2}
  CallId = {"T", "H"}
  Breaks = {}
  Unsupported = {}
  Malformed = {}
  Consumer = {c1, c2}
  MaxRetries = 2
  Batch = 1
  Artifact <- OneArtifact
  ArtifactOf <- ArtifactOfH
  Erasable = {"H"}
  Faults = {"db", "broker", "crash", "rebalance", "eviction"}
  MaxFaults = 2
SYMMETRY Sym
CHECK_DEADLOCK FALSE
INVARIANTS TypeOK NoRecordSkipped FragmentAtMostOnce ErasedLeavesNothing
PROPERTIES StragglerDropped ImplementsCallLife
