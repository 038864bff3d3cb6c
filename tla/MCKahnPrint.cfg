SPECIFICATION Spec
CONSTANTS
  Programs <- Checked
  Printed = {"main"}
  MaxPending = 4
INVARIANTS
  PredecessorsFirst
  PrintedWhole
  CallSetMatchesStack
  BracketsBalanced
PROPERTIES
  PrintEnds
