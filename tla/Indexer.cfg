SPECIFICATION Spec
CONSTANTS
  a = 1
  b = 2
  BadWord = BadWord
  None = None
  Words <- MCWords
  Zones = 3
  Items <- MCItems
  Saved = {1, 3}
  Dumps <- MCDumps
  checkInterval = 2
INVARIANTS
  TypeOK
  OneEntryEach
  IndexUsable
  TextsOwn
PROPERTIES
  ImplementsCatalog
CHECK_DEADLOCK FALSE
