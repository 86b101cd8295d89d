\* One caller that retries the episode, at most once.
SPECIFICATION Spec
CONSTANTS
  c1 = c1
  c2 = c2
  Notices <- MCOneNotice
  Related <- MCAlone
  Settlers = {c1}
  MaxCalls = 2
  Faulty = {}
INVARIANTS
  OneCandidatePerEpisode
