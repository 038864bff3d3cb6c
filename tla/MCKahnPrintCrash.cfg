SPECIFICATION Spec
CONSTANTS
  Programs <- JustPrint
  Printed = {"main"}
  MaxPending = 4
INVARIANTS
  PrintReturns
