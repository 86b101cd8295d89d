\* Two callers and two notices of one episode, with retries and restarts.
SPECIFICATION FairSpec
CONSTANTS
  c1 = c1
  c2 = c2
  Notices <- MCNotices
  Related <- MCRelated
  Settlers = {c1, c2}
  MaxCalls = 2
  Faulty = {1}
INVARIANTS
  TypeOK
  NoticeRecoverable
  CachedMeansResolved
  OneRunPerEpisode
  ClaimIsLive
  CandidateExists
  SummaryFollows
  GuideFollows
PROPERTIES
  SettleReturns
