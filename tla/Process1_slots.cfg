\* Three clients for two slots.  They send nothing: what main and the receive
\* threads do with a slot and its descriptor does not depend on the requests.
\* A client that resets its connection before its receive thread has started
\* costs the slot; one that does so later is like one that closes.
SPECIFICATION Spec
CONSTANTS
  MAX_CLIENTS = 2
  MaxConns = 3
  MaxReq = 0
  Window = 1
  ChunkSizes = {2}
  PeerEnds = {"reset"}
  MaxSpurious = 0
INVARIANTS ReceiverOwnsSlot NoDescriptorLeak
PROPERTIES SlotHandover TurnedAwayWhenFull
\* The server is idle for good once every client has come and gone.
CHECK_DEADLOCK FALSE
