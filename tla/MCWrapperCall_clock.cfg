SPECIFICATION Spec
CONSTANTS
  Errnos = {"EINVAL", "EIO", "EOTHER"}
  Calls <- NotStdio
  HandlerCalls = {}
  MaxNesting = 1
  Declared <- FreeBSD
INVARIANT
  RaisesDeclaredErrors
