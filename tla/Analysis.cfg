SPECIFICATION Spec
CONSTANTS
  None = None
  MinGap = 2
  Clock = {0, 1, 2, 3, 4, 5}
  Offset = {0, 1}
  Padding <- MCPadding
  MaxSpoken = 3
  Read <- MCRead
  MaxSpans = 2
  Word = {"yes", "no"}
  Moment = {1, 2, 3, 4, 5, 6, 7, 8, 9}
  FirstAudioBand = 3
  Covered = {40}
  MaxWords = 5
  MaxTimed = 2
  WrittenId = {9}
  MaxTrace = 3
  Span = {"root", "t", "l", "s"}
  StageOf <- MCStageOf
  Eventful = {"s"}
  Root = "root"
  MaxFragments = 2
  MaxShards = 2
  MaxRuns = 2
  TurnSpan = {"s1", "s2", "s3"}
  Exchange = {"x"}
  MaxKey = 1
  MaxEvents = 4
  MaxUtterances = 4
  Hangover = 2
  MinFrames = 2
  MaxFrames = 9
  Part = {"intervals", "ids", "waterfall", "vad", "events", "spans", "audioOnly", "rows", "groundtruth"}
CHECK_DEADLOCK FALSE
INVARIANTS
  TimeAccounted RegionsAreBreaths AnswerFollowsItsQuestion OneAnchorPerExchange
  NearestTurnWins AgentAnswersPrecedingTurn UnattributedIsUncovered
  TranscriptInOrder RowsAreOfLastAnalysis MaterialIsMeasured
