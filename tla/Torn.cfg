SPECIFICATION Spec
CONSTANTS
  None = None
  Part = {"judging"}
  Judge = {"worker", "api"}
  MaxRequests = 1
  MaxAttempts = 2
  Founder = {"signup", "bootstrap", "dev"}
  Guest = {"g"}
  Agent = {"a1"}
  Org = {"o1", "o2"}
  User = {"u"}
  MaxTokens = 3
  MaxFlight = 2
  Text = {"t1", "t2"}
  Writer = {"w1", "w2"}
  MaxVersion = 3
  Token = {"a", "b"}
  Verifier = {r1, r2}
  Cap = 2
  TTL = 2
  MaxDelay = 1
  MaxTime = 6
  CallId = {c}
  TraceId = {t1, t2}
  MaxSpans = 3
  MaxSends = 2
  Polled = {"a", "b"}
  Grace = 1
  MaxClock = 4
  MaxWrites = 3
  MaxManifest = 2
  Call = {"c1", "c2", "d"}
  AgentOf <- MCAgentOf
  Clusterer = {"sidecar", "backfill"}
  MinToCluster = 1
  MinSize = 1
  MaxPasses = 2
  Asker = {r1, r2}
  MaxThreads = 2
  MaxRounds = 1
  MaxMessages = 3
  Visitor = {r1, r2}
  RateLimit = 2
  RateWindow = 2
  LockoutMax = 2
  LockoutS = 2
  MaxMoment = 5
  MaxCount = 3
  AgentId = {"a1", "a2"}
  CallKey = {"x", "y", "z"}
  BoardCall = {b1, b2}
  Committer = {r1, r2}
  Window = 2
  BucketS = 2
  StartAt = {1}
  MaxStamps = 4
  JobFile = {"f1", "f2", "f3"}
  OtherCall = {"o"}
  BoardsEvery = 2
CHECK_DEADLOCK FALSE
INVARIANT FailureFieldsOnlyOnFailure
