\* A phase boundary: one caller of settle_validation or validate_candidates
\* beside the hook's own rounds.
SPECIFICATION Spec
CONSTANTS
  s1 = s1
  s2 = s2
  s3 = s3
  c1 = c1
  MaxRules = 1
  Sessions = {s1}
  MinSessions = 1
  Tolerated <- MCTolerated
  MaxReplayAttempts = 1
  ReplayOutcomes = {"promote", "retire", "pending"}
  RoundBudget = TRUE
  Callers = {c1}
INVARIANTS
  SettledMeansDecided
PROPERTIES
  EvidenceKept
