\* From a sample of EXTERN4 to its result in the main of process3: one sample,
\* one spurious wakeup, results of one unit in buffers of two.  The processes
\* may be started in the wrong order, and then nothing more happens.
SPECIFICATION FairSpec
CONSTANTS
  Conns <- EXTERN4Reconnecting
  MaxFd = 3
  MaxSamples = 1
  Window = 1
  MaxSpurious = 1
  MsgLen = 1
  DATA_SIZE = 2
  PIPE_CAPACITY = 2
INVARIANT ResultsIntact
PROPERTIES ResultRead SampleStored SensorReleased
CHECK_DEADLOCK FALSE
