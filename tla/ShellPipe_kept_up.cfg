\* The reader keeps up.  A ring of 4 slots holds 3 bytes, so that 8 bytes wrap
\* both pointers twice; lines of 1 to 3 bytes fill it exactly.
SPECIFICATION KeptUpSpec
CONSTANTS
  N = 4
  LineSizes = {1, 2, 3}
  ReadLen = 2
  MaxBytes = 8
INVARIANTS TypeOK InOrder UnreadIntact EofSnapshot
PROPERTIES DeliversPrefix
