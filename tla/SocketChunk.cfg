\* Buffers and messages around the size of one and two chunks.
SPECIFICATION FairSpec
CONSTANTS
  ChunkSize = 3
  DataSizes = {0, 2, 3, 5}
  Totals = {0, 3, 5, 6}
INVARIANTS InOrder NoEarlyReturn OverrunBelowChunk
PROPERTY Returns
\* The call returns once.
CHECK_DEADLOCK FALSE
