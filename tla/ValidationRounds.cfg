\* Rounds are only started by the hook's spawn; three sessions report on one
\* candidate whose trial admits two.
SPECIFICATION Spec
CONSTANTS
  c1 = c1
  s1 = s1
  s2 = s2
  s3 = s3
  MaxRules = 1
  Sessions = {s1, s2, s3}
  MinSessions = 2
  Tolerated <- MCTolerated
  MaxReplayAttempts = 2
  ReplayOutcomes = {"promote", "retire", "pending", "error"}
  RoundBudget = TRUE
  Callers = {}
SYMMETRY MCSymmetry
INVARIANTS
  TypeOK
  WindowBounded
  VerdictMatchesStatus
  ForwardRetirementJustified
PROPERTIES
  LifecycleSpec
