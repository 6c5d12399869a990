SPECIFICATION Spec
CONSTANTS
  Programs <- MCPrograms
  MaxErrorSize = 2
  Faults   <- DamagedAndStray
INVARIANTS
  ExactlyOnce
\* The program ends.
CHECK_DEADLOCK FALSE
