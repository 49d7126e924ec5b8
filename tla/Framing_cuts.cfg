\* The stream is cut anywhere; packets of both kinds of client.  The payloads
\* are a sensor command's number and two that make the checksum 0xFF or 0.
SPECIFICATION Spec
CONSTANTS
  Cmds = {0, 1}
  Payloads = {100, 252, 255}
  Clients = {"pc", "test"}
  MaxReq = 3
  Cuts <- AnyCut
  GarbleTo = {}
INVARIANTS
  TypeOK FormatCheckExact ResponseWellFormed ServedIsWhole NoSensorCommand
PROPERTIES WholeIsServed
\* All requests have been sent and read.
CHECK_DEADLOCK FALSE
