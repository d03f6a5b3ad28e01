SPECIFICATION Spec
CONSTANTS
  Processes = {p1, p2}
  First = p1
  NoProcess = NoProcess
  Images = {sh, ls}
  Program = sh
  Usage = {"exec", "return", "jump"}
  MaxDepth = 2
  MaxOpen = 2
INVARIANTS
  TypeOK
  ImageRecorded
  ForksAccounted
  TraceBalances
CHECK_DEADLOCK FALSE
