SPECIFICATION Spec
CONSTANTS
  Programs <- Checked
CHECK_DEADLOCK FALSE
INVARIANTS
  LinkedConsistent
  ReturnsRejoin
  UnresolvedExact
PROPERTIES
  ImplementsLinking
