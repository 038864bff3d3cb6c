SPECIFICATION Spec
CONSTANTS
  g1 = g1
  g2 = g2
  v1 = v1
  v2 = v2
  v3 = v3
  e1 = e1
  e2 = e2
  NULL = NULL
  GraphId = {g1, g2}
  Vertex = {v1, v2, v3}
  Edge = {e1, e2}
  MaxId = 3
CHECK_DEADLOCK FALSE
SYMMETRY Symmetry
INVARIANTS
  GraphInv
PROPERTIES
  ImplementsMultigraph
