SPECIFICATION FairSpec
CONSTANTS
  EhdrSize <- MCEhdrSize
  ShdrSize <- MCShdrSize
  SymSize  <- MCSymSize
  Sources  <- AssembledFiles
INVARIANTS
  TypeOK
  LayoutKept
  OffsetsExact
  ContentFollowsHeader
  ContentOwned
  DeletesExactlyRel
PROPERTIES
  ImplementsRemoval
\* The program ends.
CHECK_DEADLOCK FALSE
