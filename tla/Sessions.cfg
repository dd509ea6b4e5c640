CONSTANTS
  Tokens = {1, 2, 3}
  NoToken = NoToken
  Requests = {q1, q2}
  Threshold = 2
  MaxPasswords = 1
SPECIFICATION FairSpec
INVARIANTS
  TypeOK
  OneLiveTokenPerFamily
  PasswordChangeEndsSessions
  LockedAfterThreshold
PROPERTIES
  RequestsFinish
