\* One client that sends ahead, in chunks of any size.
SPECIFICATION FairSpec
CONSTANTS
  MAX_CLIENTS = 1
  MaxConns = 1
  MaxReq = 3
  Window = 2
  ChunkSizes = {1, 2, 3, 4}
  PeerEnds = {"closed", "reset"}
  MaxSpurious = 1
INVARIANT TypeOK
PROPERTIES ThreadsEnd ResponseStored SignalledReplyArrives
\* The server is idle for good once the client has gone.
CHECK_DEADLOCK FALSE
