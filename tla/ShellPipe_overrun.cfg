\* Nothing holds the writer back: lines longer than the ring, a reader of one
\* byte at a time as the stdin callback is.
SPECIFICATION Spec
CONSTANTS
  N = 3
  LineSizes = {1, 2, 4}
  ReadLen = 1
  MaxBytes = 8
INVARIANTS OnlyWritten
PROPERTIES PipelineEnds
