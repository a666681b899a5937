SPECIFICATION TransfersSpec
CONSTANTS
  MaxChunks = 5
  Upload = {u1, u2, u3}
  Chunks = 2
  FileSize = 5
  SendfileChunk = 2
  Cooldown = 2
  BufferSize = 1
  Retries = 2
  Thread = {t1, t2, t3}
  NBuffers = 2
  Second = 4
  Rate = 2
  Cap = 3
  Word = 21
  Idle = {0, 1, 7, 11}
  MaxCalls = 4
INVARIANTS
  NoBufferRace
  OkMeansComplete
  PublishedIsWhole
  UploadsLeaveNoPart
  DownloadIsExact
  RateIsBounded
PROPERTIES
  TransfersEnd
  AcquireIsAtomic
