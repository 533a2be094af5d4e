SPECIFICATION FairSpec
CONSTANTS
  UIds <- MCUIds
  MaxUidsOnRam = 2
INVARIANTS
  TypeOK
  FileAscending
PROPERTIES
  FileKeepsUids
  CallsReturn
  ImplementsStorage
CHECK_DEADLOCK FALSE
