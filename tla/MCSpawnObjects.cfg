SPECIFICATION Spec
CONSTANTS
  Actions = {a1}
  Attrs = {b1}
  Additions = {close3, dup4}
  Settings = {flags1}
  NoRequest = NoRequest
  MaxRequests = 2
  MaxDrops = 2
  MaxJumps = 1
SYMMETRY Symmetry
INVARIANTS
  TypeOK
  CallerKnows
  LeaksAreReal
