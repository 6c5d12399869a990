SPECIFICATION Spec
CONSTANTS
  EhdrSize <- MCEhdrSize
  ShdrSize <- MCShdrSize
  SymSize  <- MCSymSize
  Sources  <- AbsoluteSymbolFile
INVARIANTS
  ReservedSymbolsKept
\* The program ends.
CHECK_DEADLOCK FALSE
