SPECIFICATION UploadsSpec
CONSTANTS
  Upload = {u1, u2}
  Chunks = 2
INVARIANT NeverHalfWritten
