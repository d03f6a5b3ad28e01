SPECIFICATION FairSpec
CONSTANTS
  Threads = {t1, t2}
  Pids = {p1, p2}
  NoPid = NoPid
  NoThread = NoThread
  Usages <- OwnChildren
  MaxBirths = 2
  MaxGaps = 2
PROPERTY
  ImplementsChildLife
CHECK_DEADLOCK FALSE
