SPECIFICATION Spec
CONSTANTS
  Threads = {t1, t2, t3}
  Pids = {p1, p2}
  NoPid = NoPid
  NoThread = NoThread
  Usages <- AllHabits
  MaxBirths = 3
  MaxGaps = 2
SYMMETRY Symmetry
INVARIANTS
  TypeOK
  Conservation
  NeverReleasedFirst
CHECK_DEADLOCK FALSE
