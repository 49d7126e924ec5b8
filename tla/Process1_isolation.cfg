\* Two clients that stay, each in a slot of its own.
SPECIFICATION Spec
CONSTANTS
  MAX_CLIENTS = 2
  MaxConns = 2
  MaxReq = 3
  Window = 1
  ChunkSizes = {2}
  PeerEnds = {}
  MaxSpurious = 0
INVARIANT SharedDataExclusion
PROPERTY KeepsPromise
