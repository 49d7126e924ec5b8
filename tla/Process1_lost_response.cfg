SPECIFICATION FairSpec
CONSTANTS
  MAX_CLIENTS = 1
  MaxConns = 1
  MaxReq = 1
  Window = 1
  ChunkSizes = {2}
  PeerEnds = {"closed"}
  MaxSpurious = 0
PROPERTY RequestAnswered
CHECK_DEADLOCK FALSE
