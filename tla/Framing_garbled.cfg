\* One packet, one byte of it changed to any value.
SPECIFICATION Spec
CONSTANTS
  Cmds = {0, 1}
  Payloads = {1, 252, 253}
  Clients = {"pc"}
  MaxReq = 1
  Cuts <- WholeOnly
  GarbleTo <- AnyByte
INVARIANTS CorruptionReported
CHECK_DEADLOCK FALSE
