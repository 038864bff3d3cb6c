SPECIFICATION Spec
CONSTANTS
  Programs <- LoopCall
  Printed = {"main"}
  MaxPending = 4
PROPERTIES
  PrintEnds
