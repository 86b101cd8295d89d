\* A second turn ends while the traces of the first are being scored.
SPECIFICATION Spec
CONSTANTS
  s1 = s1
  s2 = s2
  c1 = c1
  stall = stall
  breach = breach
  Sessions = {s1}
  Conditions = {stall}
  MaxTraces = 1
  MaxEvals = 2
  SampleEvery = 1
  RateLimit = FALSE
  MaxConcurrent = 1
  MaxTracked = 2
  Cooldown = 0
  MaxNotices = 1
  Callers = {}
INVARIANTS
  DeliveredMeansScored
