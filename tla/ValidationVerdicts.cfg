\* Two candidates, one session, replay that may stay inconclusive for ever.
SPECIFICATION FairSpec
CONSTANTS
  c1 = c1
  s1 = s1
  s2 = s2
  s3 = s3
  MaxRules = 2
  Sessions = {s1}
  MinSessions = 1
  Tolerated <- MCTolerated
  MaxReplayAttempts = 1
  ReplayOutcomes = {"promote", "pending"}
  RoundBudget = TRUE
  Callers = {}
PROPERTIES
  EveryCandidateDecided
