SPECIFICATION Spec
CONSTANTS
  Errnos = {"EINVAL", "EIO", "EOTHER"}
  Calls <- OneOfAKind
  HandlerCalls <- OneOfEach
  MaxNesting = 2
  Declared <- FreeBSD
INVARIANTS
  TypeOK
  RaisesTheTruth
  TurnedDownLeavesNoTrace
  SilenceIsFilledIn
  CodesAreImmune
  StdioNeverRaisesZero
  FailuresAreNoticed
  
