SPECIFICATION Spec
CONSTANTS
  Memories <- SmallMemories
  MAX_PACKET_SIZE = 30
INVARIANTS
  TypeOK
  Delivered
  SmallWritesStayInPacket
\* The function returns.
CHECK_DEADLOCK FALSE
