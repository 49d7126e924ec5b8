SPECIFICATION Spec
CONSTANTS
  MAX_CLIENTS = 1
  MaxConns = 2
  MaxReq = 1
  Window = 1
  ChunkSizes = {2}
  PeerEnds = {"closed"}
  MaxSpurious = 0
INVARIANT ReplyToOwnClient
CHECK_DEADLOCK FALSE
