SPECIFICATION Spec
CONSTANTS
  a = a
  b = b
  c = c
  d = d
  w1 = w1
  w2 = w2
  w3 = w3
  Finish = Finish
  Tasks <- MCTasks
  UIds <- MCUIds
  crc <- MCCrc
  Related <- MCRelated
  Wordy <- MCWordy
  NoSubs <- MCNoSubs
  Seeds <- MCSeeds
  Workers <- SpareWorkers
  WorkersCnt = 2
  CheckPeriod = 2
  MaxUidsOnRam = 1
  ProxyCounts <- OneProxy
  SignalPoints <- MCSignalPoints
  Budgets <- CrawlBudgets
INVARIANTS
  TypeOK
  NothingForgotten
  StopKillsAll
  StopSavesPages
  FileHasNoPills
  OneOwner
  EnoughPills
  PoolSound
PROPERTIES
  UidLife
SYMMETRY SpareSymmetry
CHECK_DEADLOCK FALSE
