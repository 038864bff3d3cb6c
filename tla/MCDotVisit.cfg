SPECIFICATION Spec
CONSTANTS
  Programs <- Checked
  Drawn = {"main"}
INVARIANTS
  DrawnWhole
  ColorsTellStack
PROPERTIES
  DrawingEnds
