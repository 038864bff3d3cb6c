------------------------------ MODULE GraphOps ------------------------------
(***************************************************************************)
(* The pointer structure behind a control flow graph, as Graph.cpp,        *)
(* Vertex.cpp and Edge.cpp keep it.  Every fact about an edge is stored    *)
(* several times: the Edge object holds its source and target, each end    *)
(* vertex holds the edge in its own edge list, and the Graph that created  *)
(* it holds it in m_edges.  The operators below are the mutations that     *)
(* keep (or fail to keep) those copies in step; each takes a heap, the     *)
(* fields of all the objects at once, and returns the heap after the call. *)
(*                                                                         *)
(* Several graphs share one heap because Function::Link connects the       *)
(* graphs of different functions to one another.                           *)
(***************************************************************************)
EXTENDS Integers

CONSTANTS
  GraphId,   \* the Graph objects, one for each function
  Vertex,    \* the Vertex objects there may ever be
  Edge,      \* the Edge objects there may ever be
  NULL       \* the null pointer

ASSUME NullAssumption == NULL \notin Vertex

(* m_vertex_index of an object which no AddVertex has numbered yet.        *)
NoIndex == -1

Heaps ==
  [ verts  : [GraphId -> SUBSET Vertex],        \* Graph::m_vertices
    edges  : [GraphId -> SUBSET Edge],          \* Graph::m_edges
    nextId : [GraphId -> Nat],                  \* Graph::m_vertex_id_state
    inE    : [Vertex -> SUBSET Edge],           \* Vertex::m_in_edges
    outE   : [Vertex -> SUBSET Edge],           \* Vertex::m_out_edges
    index  : [Vertex -> Nat \cup {NoIndex}],    \* Vertex::m_vertex_index
    src    : [Edge -> Vertex \cup {NULL}],      \* Edge::m_source
    tgt    : [Edge -> Vertex \cup {NULL}] ]     \* Edge::m_target

EmptyHeap ==
  [ verts  |-> [g \in GraphId |-> {}],
    edges  |-> [g \in GraphId |-> {}],
    nextId |-> [g \in GraphId |-> 0],
    inE    |-> [v \in Vertex |-> {}],
    outE   |-> [v \in Vertex |-> {}],
    index  |-> [v \in Vertex |-> NoIndex],
    src    |-> [e \in Edge |-> NULL],
    tgt    |-> [e \in Edge |-> NULL] ]

-----------------------------------------------------------------------------
(* The vertices some graph holds, and the edges some graph holds.          *)
PlacedVertices(h) == UNION {h.verts[g] : g \in GraphId}
PlacedEdges(h)    == UNION {h.edges[g] : g \in GraphId}

InDegreeIs0(h, v)  == h.inE[v] = {}
OutDegreeIs0(h, v) == h.outE[v] = {}

(* Mutant: a number is issued and not used up.                             *)
AddVertexSameNumber(h, g, v) ==
  [h EXCEPT !.index[v] = h.nextId[g],
            !.verts[g] = @ \cup {v}]

(* Graph::AddVertex.  The index is assigned before the insertion is tried, *)
(* so a second AddVertex of the same vertex renumbers it and then throws.  *)
AddVertex(h, g, v) ==
  [h EXCEPT !.index[v]  = h.nextId[g],
            !.nextId[g] = @ + 1,
            !.verts[g]  = @ \cup {v}]

(* Graph::RemoveVertex forgets the vertex and nothing else.                *)
RemoveVertex(h, g, v) == [h EXCEPT !.verts[g] = @ \ {v}]

(* Mutant: the edges that arrive keep pointing at the old vertex.          *)
TransferOutEdgesOnly(h, old, new) ==
  [h EXCEPT
     !.src  = [e \in Edge |-> IF e \in h.outE[old] THEN new ELSE h.src[e]],
     !.outE = [@ EXCEPT ![old] = h.outE[new], ![new] = h.outE[old]]]

(* Vertex::TransferOwnedResourcesTo: the edges of "old" are re-pointed at  *)
(* "new" and the two objects then swap their edge lists.                   *)
TransferOwnedResources(h, old, new) ==
  [h EXCEPT
     !.tgt  = [e \in Edge |-> IF e \in h.inE[old]  THEN new ELSE h.tgt[e]],
     !.src  = [e \in Edge |-> IF e \in h.outE[old] THEN new ELSE h.src[e]],
     !.inE  = [@ EXCEPT ![old] = h.inE[new],  ![new] = h.inE[old]],
     !.outE = [@ EXCEPT ![old] = h.outE[new], ![new] = h.outE[old]]]

(* Mutant: only the edges the graph itself holds are moved.                *)
ReplaceVertexOwnEdges(h, g, old, new) ==
  LET placed == AddVertex(h, g, new)
      moved  == TransferOwnedResources(placed, old, new)
      mine   == h.edges[g]
  IN RemoveVertex(
       [moved EXCEPT
          !.tgt  = [e \in Edge |-> IF e \in mine THEN moved.tgt[e] ELSE h.tgt[e]],
          !.src  = [e \in Edge |-> IF e \in mine THEN moved.src[e] ELSE h.src[e]],
          !.inE  = [@ EXCEPT ![old] = h.inE[old] \ mine,   ![new] = h.inE[old] \cap mine],
          !.outE = [@ EXCEPT ![old] = h.outE[old] \ mine, ![new] = h.outE[old] \cap mine]],
       g, old)

(* Graph::ReplaceVertex.                                                   *)
ReplaceVertex(h, g, old, new) ==
  RemoveVertex(TransferOwnedResources(AddVertex(h, g, new), old, new), g, old)

(* Graph::AddEdge.                                                         *)
AddEdge(h, g, s, t, e) ==
  [h EXCEPT !.outE[s]  = @ \cup {e},
            !.inE[t]   = @ \cup {e},
            !.src[e]   = s,
            !.tgt[e]   = t,
            !.edges[g] = @ \cup {e}]

(* Graph::RemoveEdge.                                                      *)
RemoveEdge(h, g, e) ==
  [h EXCEPT !.outE[h.src[e]] = @ \ {e},
            !.inE[h.tgt[e]]  = @ \ {e},
            !.src[e]         = NULL,
            !.tgt[e]         = NULL,
            !.edges[g]       = @ \ {e}]

(* Edge::ChangeSource and Edge::ChangeTarget of an edge that is placed:    *)
(* leave the list of the old end, join the list of the new one.            *)
ChangeSource(h, e, s) ==
  [h EXCEPT !.outE = [v \in Vertex |->
                        (IF v = h.src[e] THEN h.outE[v] \ {e} ELSE h.outE[v])
                        \cup (IF v = s THEN {e} ELSE {})],
            !.src[e] = s]

ChangeTarget(h, e, t) ==
  [h EXCEPT !.inE = [v \in Vertex |->
                       (IF v = h.tgt[e] THEN h.inE[v] \ {e} ELSE h.inE[v])
                       \cup (IF v = t THEN {e} ELSE {})],
            !.tgt[e] = t]

-----------------------------------------------------------------------------
(* What CheckGraphForConsistency of the unit tests is named for and leaves *)
(* empty: the copies of every edge agree.                                  *)

(* An edge is in a vertex's list exactly when that vertex is its end.      *)
EndsAgree(h) ==
  \A e \in Edge, v \in Vertex :
    /\ e \in h.outE[v] <=> h.src[e] = v
    /\ e \in h.inE[v]  <=> h.tgt[e] = v

(* What the callers should add to that: both ends of an edge some graph    *)
(* holds are vertices some graph holds.                                    *)
EndsPlaced(h) ==
  /\ \A e \in Edge :
       \/ e \in PlacedEdges(h)    /\ h.src[e] \in PlacedVertices(h)
                                  /\ h.tgt[e] \in PlacedVertices(h)
       \/ e \notin PlacedEdges(h) /\ h.src[e] = NULL /\ h.tgt[e] = NULL

(* What the container keeps by itself: an edge has both ends exactly while *)
(* a graph holds it, and neither otherwise.  AddEdge does not ask whether  *)
(* the ends are in a graph, so they need not be.                           *)
EndsGiven(h) ==
  \A e \in Edge :
    \/ e \in PlacedEdges(h)    /\ h.src[e] \in Vertex /\ h.tgt[e] \in Vertex
    \/ e \notin PlacedEdges(h) /\ h.src[e] = NULL    /\ h.tgt[e] = NULL

(* No object is held by two graphs.                                        *)
OneOwner(h) ==
  \A g1, g2 \in GraphId : g1 # g2 =>
    /\ h.verts[g1] \cap h.verts[g2] = {}
    /\ h.edges[g1] \cap h.edges[g2] = {}

(* Vertex.h:87: "The index is guaranteed to be unique to the containing    *)
(* Graph".                                                                 *)
IndexUnique(h) ==
  \A g \in GraphId : \A v, w \in h.verts[g] :
    h.index[v] = h.index[w] => v = w

(* The generator has already passed every index in use.                    *)
IndexIssued(h) ==
  \A g \in GraphId : \A v \in h.verts[g] : h.index[v] \in 0 .. h.nextId[g] - 1

Coherent(h) == EndsAgree(h) /\ EndsGiven(h) /\ OneOwner(h)

Consistent(h) == EndsAgree(h) /\ EndsPlaced(h) /\ OneOwner(h)
=============================================================================
