SPECIFICATION Spec
SYMMETRY MCSymmetry
CONSTANTS
  v1 = v1
  v2 = v2
  hd = hd
  sd = sd
  Videos <- MCVideos
  quality <- MCQuality
  LastDay = 2
  MaxFiles = 2
  Budgets <- MCBudgets
INVARIANTS
  TypeOK
  PairsTogether
  OneItemEach
  CodesHold
  LogsKept
PROPERTIES
  NothingVanishes
CHECK_DEADLOCK FALSE
