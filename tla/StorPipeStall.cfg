SPECIFICATION FairSpec
CONSTANT MaxChunks = 3
PROPERTY FilledBufferIsDrained
