\* A sensor that reconnects or a spurious wakeup, and samples that coalesce.
SPECIFICATION Spec
CONSTANTS
  Conns <- Reconnecting
  MaxFd = 4
  MaxSamples = 2
  Window = 2
  MaxSpurious = 1
CONSTRAINT OneDisturbance
INVARIANTS TypeOK SetsMatchConnections
PROPERTY KeepsPromise
