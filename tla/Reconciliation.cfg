CONSTANTS
  Inputs <- MCInputs
  NoReference = NoReference
  Fields <- MCFields
  LineFields <- MCLineFields
  Required <- MCRequired
  Names <- MCNames
  NoHeader = NoHeader
  AmountTolerance = 1
  MaximumGroupSize = 3
  MaxAttempts = 2
SPECIFICATION Spec
INVARIANTS
  TypeOK
  ReportedOnce
  MatchesBalance
  DuplicatesStayOut
  ClearPaymentsAreMatched
  
CHECK_DEADLOCK FALSE
