SPECIFICATION Spec
CONSTANTS
  Programs <- Checked
  Sources = {"main"}
  Sinks = {"h", "k"}
  MaxFrames = 4
INVARIANTS
  VerdictCorrect
  PathRealizable
  SearchWellFormed
  ChainShowsCallers
PROPERTIES
  SearchEnds
