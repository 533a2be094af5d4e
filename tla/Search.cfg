SPECIFICATION FairSpec
CONSTANTS
  Tokens <- MCTokens
  Docs <- MCDocs
  Indexes <- MCIndexes
  Queries <- MCQueries
  step = 2
INVARIANTS
  TypeOK
  FindsMatching
  RowsAligned
PROPERTIES
  SearchEnds
CHECK_DEADLOCK FALSE
