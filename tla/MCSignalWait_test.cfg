SPECIFICATION FairSpec
CONSTANTS
  SIGALRM = SIGALRM
  SIGUSR1 = SIGUSR1
  Signals = {SIGALRM, SIGUSR1}
  Programs <- TestSignalWaits
  Careful = {}
  Faults = FALSE
PROPERTY
  UnblockedWaitsEnd
CHECK_DEADLOCK FALSE
