SPECIFICATION Spec
CONSTANTS
  Interfaces = {eth0, lo}
  PacketSize = 3
  MaxPackets = 1
INVARIANTS
  TransmittedReported
CHECK_DEADLOCK FALSE
