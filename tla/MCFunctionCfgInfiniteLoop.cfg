SPECIFICATION Spec
CONSTANTS
  Programs <- InfiniteLoop
  MaxLen = 5
  MaxEdges = 16
  UserLabels = {"a"}
  TempLabels = {"<1>", "<2>", "<3>", "<4>", "<5>"}
INVARIANTS
  ExitPostDominates
