SPECIFICATION FairSpec
CONSTANTS
  EhdrSize <- MCEhdrSize
  ShdrSize <- MCShdrSize
  SymSize  <- MCSymSize
  Launches <- MCLaunches
  MaxRelTables = 1
  RelSize = 2
INVARIANTS
  TypeOK
  AcceptedLayout
  HeldUpToNext
  HoldsWhatFileHas
PROPERTIES
  Ends
\* Loading ends.
CHECK_DEADLOCK FALSE
