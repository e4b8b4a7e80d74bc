SPECIFICATION FairSpec
CONSTANTS
  Fds = {1, 2}
  BlockSize = 2
  BUFFER_LENGTH = 2
  Kinds = {1, 2, 3}
  MaxConns = 3
  MaxChunks = 3
  MaxCalls = 5
INVARIANTS ItemInv EchoesInOrder NoLostEdge
PROPERTIES ChunksEchoed FailuresAreClosed
CHECK_DEADLOCK FALSE
