CONSTANTS
  Calls = {c1, c2}
  Candidates = {k1, k2}
  NoCall = NoCall
  NoCandidate = NoCandidate
  Readers = {s1}
  Reviewers = {v1, v2}
  DailyRequests = 1
  MonthlyRequests = 2
  DailyTokens = 2
  MonthlyTokens = 2
  Estimate = 1
  ReportedTokens = {0, 2}
SPECIFICATION FairSpec
INVARIANTS
  TypeOK
  RequestsWithinLimits
  OutcomesAreTrue
PROPERTIES
  DecidedOnce
  OnlyLateChargesAreLost
  CallsEnd
CHECK_DEADLOCK FALSE
