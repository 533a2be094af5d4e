SPECIFICATION FairSpec
CONSTANTS
  a = a
  b = b
  c = c
  d = d
  w1 = w1
  w2 = w2
  w3 = w3
  Finish = Finish
  Tasks <- MCTasks
  UIds <- MCUIds
  crc <- MCCrc
  Related <- MCRelated
  Wordy <- MCWordy
  NoSubs <- MCNoSubs
  Seeds <- MCSeeds
  Workers <- MCWorkers
  WorkersCnt = 2
  CheckPeriod = 2
  MaxUidsOnRam = 1
  ProxyCounts <- OneProxy
  SignalPoints <- MCSignalPoints
  Budgets <- TermBudget
PROPERTIES
  StopEnds
CHECK_DEADLOCK FALSE
