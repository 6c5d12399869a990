SPECIFICATION SSpec
CONSTANTS
  Programs <- MCPrograms
  MaxErrorSize = 2
  Faults   <- AllFaults
  CommandLines <- MCCommandLines
  Hosts    <- MCHosts
INVARIANTS
  STypeOK
  Paired
  OnceUnlessBothFaults
  FirstReachable
PROPERTIES
  SEnds
  ImplementsCalls
\* The program ends.
CHECK_DEADLOCK FALSE
