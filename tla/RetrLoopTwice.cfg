SPECIFICATION RetrSpec
CONSTANTS
  FileSize = 5
  SendfileChunk = 2
  Cooldown = 2
  BufferSize = 1
  Retries = 2
INVARIANT NothingTwice
