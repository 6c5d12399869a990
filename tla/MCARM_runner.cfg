SPECIFICATION RFairSpec
CONSTANTS
  EhdrSize <- MCEhdrSize
  ShdrSize <- MCShdrSize
  SymSize  <- MCSymSize
  Sources  <- RunFiles
  Argvs    <- CommandLines
  TextName <- MCTextName
  DataName <- MCDataName
  Word     <- MCWord
  Rooms    <- RunRooms
INVARIANTS
  RTypeOK
  CopyFaithful
  ReadsBack
  NoTailWhenDeletedFirst
  SymbolsRelocatedBeforeDelete
  CopyIsPrefix
  OptionsCrashOnOddFiles
PROPERTIES
  Ends
\* The program ends.
CHECK_DEADLOCK FALSE
