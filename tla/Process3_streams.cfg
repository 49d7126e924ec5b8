\* Messages that do not fit the buffers evenly, and a pipe that fills up.
SPECIFICATION FairSpec
CONSTANTS
  MsgLen = 3
  DATA_SIZE = 4
  PIPE_CAPACITY = 5
  MaxMsgs = 3
INVARIANTS TypeOK StreamIntact
PROPERTY KeepsPromise
\* Nothing happens once the servers have sent everything.
CHECK_DEADLOCK FALSE
