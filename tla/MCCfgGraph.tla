----------------------------- MODULE MCCfgGraph -----------------------------
(***************************************************************************)
(* Two functions' graphs, three vertices, two edges, at most three vertex  *)
(* numbers for each graph: enough for an edge across graphs, parallel      *)
(* edges, self edges, and a replacement at either or both ends of each.    *)
(***************************************************************************)
EXTENDS CfgGraph, TLC

CONSTANTS g1, g2, v1, v2, v3, e1, e2

Symmetry ==
  Permutations({g1, g2}) \cup Permutations({v1, v2, v3}) \cup Permutations({e1, e2})
=============================================================================
