------------------------------ MODULE CfgGraph ------------------------------
(***************************************************************************)
(* The Graph container under any sequence of calls.  Nothing is asked of a *)
(* call that Graph.cpp does not ask, except what holds of every object a   *)
(* caller has just constructed: an edge that is added is new, a vertex     *)
(* that is added is held by no other graph, and one that takes another's   *)
(* place has no edges yet.  An edge may be drawn to or from a vertex that  *)
(* has left its graph, and a vertex may be removed while edges end at it.  *)
(* Objects which left a graph may have been deleted; the same element      *)
(* standing for a later object at the same address may be added again.     *)
(***************************************************************************)
EXTENDS GraphOps

CONSTANT MaxId   \* bound: no graph numbers more vertices than this

VARIABLES
  heap,    \* the fields of all Graph, Vertex and Edge objects
  thrown   \* the exception the last call ended with, or "none"

vars == <<heap, thrown>>

TypeOK ==
  /\ heap \in Heaps
  /\ thrown \in {"none", "duplicate_add"}

(* No graph holds the object.                                              *)
FreeVertex(v) == v \notin PlacedVertices(heap)
FreeEdge(e)   == e \notin PlacedEdges(heap)

(* ... and its edge lists are empty, as those of a new one are.            *)
NewVertex(v) == FreeVertex(v) /\ InDegreeIs0(heap, v) /\ OutDegreeIs0(heap, v)

Init ==
  /\ heap = EmptyHeap
  /\ thrown = "none"

AddNewVertex(g, v) ==
  /\ FreeVertex(v)
  /\ heap.nextId[g] < MaxId
  /\ heap' = AddVertex(heap, g, v)
  /\ thrown' = "none"

(* The insertion fails after the index has been overwritten.               *)
AddVertexAgain(g, v) ==
  /\ v \in heap.verts[g]
  /\ heap.nextId[g] < MaxId
  /\ heap' = AddVertex(heap, g, v)
  /\ thrown' = "duplicate_add"

(* m_vertices.erase: neither the vertex's edges nor its presence matter.   *)
RemoveAnyVertex(g, v) ==
  /\ heap' = RemoveVertex(heap, g, v)
  /\ thrown' = "none"

ReplaceByNew(g, old, new) ==
  /\ old \in heap.verts[g]
  /\ NewVertex(new)
  /\ heap.nextId[g] < MaxId
  /\ heap' = ReplaceVertex(heap, g, old, new)
  /\ thrown' = "none"

(* Neither end need be in a graph: AddImpossibleEdges draws edges from     *)
(* vertices that were replaced before.                                     *)
AddNewEdge(g, s, t, e) ==
  /\ FreeEdge(e)
  /\ heap' = AddEdge(heap, g, s, t, e)
  /\ thrown' = "none"

RemoveOwnEdge(g, e) ==
  /\ e \in heap.edges[g]
  /\ heap' = RemoveEdge(heap, g, e)
  /\ thrown' = "none"

MoveSource(g, e, s) ==
  /\ e \in heap.edges[g]
  /\ heap' = ChangeSource(heap, e, s)
  /\ thrown' = "none"

MoveTarget(g, e, t) ==
  /\ e \in heap.edges[g]
  /\ heap' = ChangeTarget(heap, e, t)
  /\ thrown' = "none"

Next ==
  \E g \in GraphId :
    \/ \E v \in Vertex :
         \/ AddNewVertex(g, v)
         \/ AddVertexAgain(g, v)
         \/ RemoveAnyVertex(g, v)
         \/ \E new \in Vertex : ReplaceByNew(g, v, new)
    \/ \E e \in Edge :
         \/ \E s, t \in Vertex : AddNewEdge(g, s, t, e)
         \/ RemoveOwnEdge(g, e)
         \/ \E v \in Vertex : MoveSource(g, e, v) \/ MoveTarget(g, e, v)

Spec == Init /\ [][Next]_vars

-----------------------------------------------------------------------------
(* The pointer structure stays consistent whatever is called: both ends of *)
(* every edge know it, no other vertex does, an edge has its ends exactly  *)
(* while a graph holds it, and no object is held twice.  This holds even   *)
(* of edges at vertices that have left their graph; that edges stay inside *)
(* the graphs is for the callers to see to.  GraphTest.cpp:48 declares     *)
(* this check and leaves it empty.                                         *)
GraphConsistent == Coherent(heap)

(* Vertex.h:87: no two vertices of a graph have the same index, whatever   *)
(* was added twice, replaced or removed before.                            *)
IndexesUnique == IndexUnique(heap)

(* The inductive invariant: consistency and uniqueness, with the fact that *)
(* the index generator never goes back.                                    *)
GraphInv ==
  /\ TypeOK
  /\ GraphConsistent
  /\ IndexesUnique
  /\ IndexIssued(heap)

(* The container implements the multigraph its callers have in mind.       *)
ArcsOf(h) ==
  [g \in GraphId |->
     {[edge |-> e, from |-> h.src[e], to |-> h.tgt[e]] : e \in h.edges[g]}]

MG == INSTANCE Multigraph WITH verts <- heap.verts, arcs <- ArcsOf(heap)

(* Every call of Graph, Vertex and Edge is one operation of the abstract   *)
(* multigraph, or none: ReplaceVertex in particular renames the vertex in  *)
(* every arc although it only walks the edge lists of the vertex replaced, *)
(* and renames nothing else, also where arcs end at vertices that are in   *)
(* no graph any more.                                                      *)
ImplementsMultigraph == MG!Spec
=============================================================================
