\* One caller times out while a tool call of its run is in a worker thread.
SPECIFICATION Spec
CONSTANTS
  c1 = c1
  c2 = c2
  Notices <- MCOneNotice
  Related <- MCAlone
  Settlers = {c1}
  MaxCalls = 2
  Faulty = {}
INVARIANTS
  TimedOutMeansPending
