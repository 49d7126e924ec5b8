\* Two clients one after the other over one slot, each with one request.
SPECIFICATION FairSpec
CONSTANTS
  MAX_CLIENTS = 1
  MaxConns = 2
  MaxReq = 1
  Window = 1
  ChunkSizes = {2}
  PeerEnds = {"closed"}
  MaxSpurious = 0
PROPERTY ResponseStored
CHECK_DEADLOCK FALSE
