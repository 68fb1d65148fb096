CONSTANTS
  Calls = {c1, c2, c3}
  Index = index
  Paths = {index, note}
  NoFile = NoFile
  MaxRuns = 1
SPECIFICATION Spec
SYMMETRY Symmetry
INVARIANTS TypeOK Kept Gone HandedOver Installed
CHECK_DEADLOCK FALSE
