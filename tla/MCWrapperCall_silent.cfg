SPECIFICATION Spec
CONSTANTS
  Errnos = {"EINVAL", "EIO", "EOTHER"}
  Calls <- StdioCalls
  HandlerCalls = {}
  MaxNesting = 1
  Declared <- FreeBSD
INVARIANT
  RaisesDeclaredErrors
