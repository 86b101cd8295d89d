\* Two sessions of which one is tracked at a time, three evaluations, two conditions.
SPECIFICATION Spec
CONSTANTS
  s1 = s1
  s2 = s2
  c1 = c1
  stall = stall
  breach = breach
  Sessions = {s1, s2}
  Conditions = {stall, breach}
  MaxTraces = 1
  MaxEvals = 3
  SampleEvery = 1
  RateLimit = TRUE
  MaxConcurrent = 1
  MaxTracked = 1
  Cooldown = 1
  MaxNotices = 1
  Callers = {}
SYMMETRY MCSymmetry
INVARIANTS
  TypeOK
  PendingIsCurrent
  FoldedOnce
  ReportedConditionsAreTold
