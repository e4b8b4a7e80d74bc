SPECIFICATION FairSpec
CONSTANTS
  Fds = {1, 2}
  BlockSize = 2
  Kinds = {"GET", "POST", "key", "other"}
  MaxConns = 3
  MaxChunks = 2
INVARIANTS SlotInv NoStaleEvent OneAnswerPerChunk FirstClientGetsItsKey
PROPERTIES HangsUpOnlyAfterPost ChunksAnswered
CHECK_DEADLOCK FALSE
