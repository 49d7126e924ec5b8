SPECIFICATION Spec
CONSTANTS
  MAX_CLIENTS = 1
  MaxConns = 1
  MaxReq = 2
  Window = 2
  ChunkSizes = {2}
  PeerEnds = {"closed"}
  MaxSpurious = 0
INVARIANT SharedDataExclusion
CHECK_DEADLOCK FALSE
