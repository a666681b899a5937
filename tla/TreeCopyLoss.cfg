SPECIFICATION CopiesSpec
CONSTANTS
  Node <- MCNode
  Dir <- MCDir
  Special <- MCSpecial
  MaxDepth = 2
  MaxCopies = 2
  MaxChunks = 2
  Threads = {t1, t2}
  MaxOrder = 4
  Base = 2
  Sizes = {1, 5}
  Alignments = {1, 4}
  MaxLive = 3
INVARIANT NoFileLost
