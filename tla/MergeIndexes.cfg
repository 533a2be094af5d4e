SPECIFICATION MCFairSpec
CONSTANTS
  N = 3
  Tokens <- MCTokens
  MaxItems = 3
INVARIANTS
  TypeOK
  NothingLost
  NeverDescends
PROPERTIES
  MergeEnds
CHECK_DEADLOCK FALSE
