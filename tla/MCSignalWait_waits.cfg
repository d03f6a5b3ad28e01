SPECIFICATION FairSpec
CONSTANTS
  SIGALRM = SIGALRM
  SIGUSR1 = SIGUSR1
  Signals = {SIGALRM, SIGUSR1}
  Programs <- Anything
  Careful <- Disciplined
  Faults = TRUE
INVARIANTS
  TypeOK
  MaskAsAsked
PROPERTIES
  BlockedStays
  WaitsEnd
CHECK_DEADLOCK FALSE
