SPECIFICATION Spec
CONSTANTS
  Programs <- Lists
  MaxLen = 9
  MaxEdges = 24
  UserLabels = {"a"}
  TempLabels = {"<1>", "<2>", "<3>", "<4>", "<5>", "<b>"}
INVARIANTS
  FlowPreserved
  GraphWellFormed
  LeadersHaveWayIn
  LoopsOpened
  FoundEdgesCutCycles
  NothingRedundantLeft
PROPERTIES
  ConstructionEnds
  RemovalKeepsMarks
