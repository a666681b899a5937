SPECIFICATION CopiesSpec
CONSTANTS
  MaxCopies = 6
  MaxChunks = 5
  Node <- MCNode
  Dir <- MCDir
  Special <- MCSpecial
  MaxDepth = 2
  Threads = {t1, t2}
  MaxOrder = 4
  Base = 2
  Sizes = {1, 5}
  Alignments = {1, 4}
  MaxLive = 3
INVARIANTS
  OneCopyThread
  JoinedBeforeDestroy
  NoBufferRace
  NothingLeftBehind
  NothingLostEarly
  ResultIsTrue
  ArenaIsTiled
PROPERTIES
  CopyCallsReturn
  CopyIsAtomic
  CallsAreAtomic
