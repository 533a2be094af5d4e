SPECIFICATION Spec
CONSTANTS
  stopwords <- MCStopwords
  terms <- MCTerms
  stem <- MCStem
  last2 <- MCLast2
  first2 <- MCFirst2
  Corpora <- MCCorpora
  Requests <- MCRequests
  MAX_TOKEN_CNT = 3
  MAX_WINDOW_SIZE = 3
  MAX_DRAFT_DOCS = 2
  snippets_num = 2
  WordsUnit = 60
  IdfSums = {0, 1}
INVARIANTS
  TypeOK
  WindowsCounted
  PhraseFirst
  SelectionsMark
  BestSnippets
CHECK_DEADLOCK FALSE
