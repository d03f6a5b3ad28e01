SPECIFICATION FairSpec
CONSTANTS
  Processes = {p1, p2, p3}
  First = p1
  NoProcess = NoProcess
  Images = {sh}
  Program = sh
  Usage = {"return", "jump"}
  MaxDepth = 2
  MaxOpen = 2
INVARIANT
  ForkRecordsTrue
PROPERTY
  EveryForkRecorded
CHECK_DEADLOCK FALSE
