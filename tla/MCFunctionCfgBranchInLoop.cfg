SPECIFICATION Spec
CONSTANTS
  Programs <- BranchInLoop
  MaxLen = 11
  MaxEdges = 24
  UserLabels = {"a"}
  TempLabels = {"<1>", "<2>", "<3>", "<4>", "<5>"}
INVARIANTS
  ForwardAcyclic
