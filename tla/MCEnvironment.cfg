SPECIFICATION Spec
CONSTANTS
  Names = {home, path}
  Values = {v1, v2}
  Buffers = {b1, b2}
  Absent = Absent
  Freed = Freed
SYMMETRY Symmetry
INVARIANTS
  NothingDangles
  FindsWhatWasTold
