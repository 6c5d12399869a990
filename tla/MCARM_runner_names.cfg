SPECIFICATION RSpec
CONSTANTS
  EhdrSize <- MCEhdrSize
  ShdrSize <- MCShdrSize
  SymSize  <- MCSymSize
  Sources  <- PlainFiles
  Argvs    <- CommandLines
  TextName <- MCTextName
  DataName <- MCDataName
  Word     <- MCWord
  Rooms    <- LargeDisk
INVARIANTS
  SymbolsRelocated
\* The program ends.
CHECK_DEADLOCK FALSE
