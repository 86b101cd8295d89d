\* Two callers wait for the run of one episode; one of them times out.
SPECIFICATION Spec
CONSTANTS
  c1 = c1
  c2 = c2
  Notices <- MCOneNotice
  Related <- MCAlone
  Settlers = {c1, c2}
  MaxCalls = 2
  Faulty = {}
INVARIANTS
  TimeoutStaysInside
