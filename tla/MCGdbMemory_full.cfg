SPECIFICATION Spec
CONSTANTS
  Memories <- LongMemory
  MAX_PACKET_SIZE = 1024
INVARIANTS
  WritesStayInPacket
\* The function returns.
CHECK_DEADLOCK FALSE
