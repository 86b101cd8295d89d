\* An explicit round beside the hook's own, each with a replay of its own.
SPECIFICATION Spec
CONSTANTS
  s1 = s1
  s2 = s2
  s3 = s3
  c1 = c1
  MaxRules = 1
  Sessions = {s1}
  MinSessions = 1
  Tolerated <- MCTolerated
  MaxReplayAttempts = 1
  ReplayOutcomes = {"promote", "retire"}
  RoundBudget = FALSE
  Callers = {c1}
PROPERTIES
  OneTransition
