SPECIFICATION MCSpec
CONSTANTS
  N = 3
  Tokens <- MCTokens
  MaxItems = 3
INVARIANTS
  TokensAscend
CHECK_DEADLOCK FALSE
