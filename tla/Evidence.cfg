SPECIFICATION Spec
CONSTANTS
  TopScore = 3
  EvalAttempts = 2
  PollAttempts = 1
  MaxTraces = 3
  MaxTurns = 3
  ListLimit = 2
  SeenCap = 2
  Gain = 2
  Drop = 1
  Window = 2
  Target = 3
  Threshold = 2
  Writers <- MCWriters
  Keys <- MCKeys
  Metrics <- MCMetrics
  CaseMax = 3
  MaxCaptures = 5
  Matched <- MCMatched
  Targets <- MCTargets
  RetireOn = {"outcome", "rule"}
  PromoteMargin = 1
  RegressMargin = 1
  MaxFailures = 1
  MaxWins = 1
  Sample = 2
  EnvWait = TRUE
  Baselines <- MCBaselines
  Scenarios <- MCScenarios
INVARIANTS
  TypeOK
  PeakTracksBest
  StallsSpaced
  ClimbFiresOnlyDisturbed
  CorpusBounded
  CaseFollowsNotice
  VerdictJustified
  WinsGuardFirst
PROPERTIES
  WinsKept
  RoundEnds
CHECK_DEADLOCK FALSE
