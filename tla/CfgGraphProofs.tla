--------------------------- MODULE CfgGraphProofs ---------------------------
(***************************************************************************)
(* The Graph container keeps its pointers consistent and its indexes       *)
(* unique, and implements the multigraph of module Multigraph, for any     *)
(* number of graphs, vertices and edges and after any sequence of calls,   *)
(* edges drawn to vertices that have left their graph included.            *)
(*                                                                         *)
(* For each operator of GraphOps an effect predicate says, object by       *)
(* object, what the call does to each field.  A first group of lemmas      *)
(* derives the effects from the definitions; everything else uses only     *)
(* the effects.                                                            *)
(***************************************************************************)
EXTENDS CfgGraph, TLAPS

-----------------------------------------------------------------------------
SameVertexFields(n, h) ==
  n.verts = h.verts /\ n.index = h.index /\ n.nextId = h.nextId

SameEdgeFields(n, h) ==
  /\ n.edges = h.edges /\ n.inE = h.inE /\ n.outE = h.outE
  /\ n.src = h.src /\ n.tgt = h.tgt

(* The vertex gets the next index, and "gone" leaves the graph.            *)
NumberingEffect(n, h, g, v, gone) ==
  /\ \A k \in GraphId :
       n.verts[k] = IF k = g THEN (h.verts[k] \cup {v}) \ gone ELSE h.verts[k]
  /\ \A w \in Vertex : n.index[w] = IF w = v THEN h.nextId[g] ELSE h.index[w]
  /\ \A k \in GraphId : n.nextId[k] = IF k = g THEN h.nextId[k] + 1 ELSE h.nextId[k]

RemoveVertexEffect(n, h, g, v) ==
  /\ \A k \in GraphId :
       n.verts[k] = IF k = g THEN h.verts[k] \ {v} ELSE h.verts[k]
  /\ n.index = h.index
  /\ n.nextId = h.nextId

(* Every edge that ended at "old" ends at "new", and conversely the two    *)
(* vertices have exchanged their edge lists.                               *)
TransferEffect(n, h, old, new) ==
  /\ n.edges = h.edges
  /\ \A e \in Edge :
       /\ n.src[e] = IF e \in h.outE[old] THEN new ELSE h.src[e]
       /\ n.tgt[e] = IF e \in h.inE[old]  THEN new ELSE h.tgt[e]
  /\ \A v \in Vertex :
       /\ n.outE[v] = IF v = new THEN h.outE[old]
                      ELSE IF v = old THEN h.outE[new] ELSE h.outE[v]
       /\ n.inE[v]  = IF v = new THEN h.inE[old]
                      ELSE IF v = old THEN h.inE[new] ELSE h.inE[v]

AddEdgeEffect(n, h, g, s, t, e) ==
  /\ \A k \in GraphId : n.edges[k] = IF k = g THEN h.edges[k] \cup {e} ELSE h.edges[k]
  /\ \A f \in Edge : /\ n.src[f] = IF f = e THEN s ELSE h.src[f]
                     /\ n.tgt[f] = IF f = e THEN t ELSE h.tgt[f]
  /\ \A v \in Vertex :
       /\ n.outE[v] = IF v = s THEN h.outE[v] \cup {e} ELSE h.outE[v]
       /\ n.inE[v]  = IF v = t THEN h.inE[v] \cup {e} ELSE h.inE[v]

RemoveEdgeEffect(n, h, g, e) ==
  /\ \A k \in GraphId : n.edges[k] = IF k = g THEN h.edges[k] \ {e} ELSE h.edges[k]
  /\ \A f \in Edge : /\ n.src[f] = IF f = e THEN NULL ELSE h.src[f]
                     /\ n.tgt[f] = IF f = e THEN NULL ELSE h.tgt[f]
  /\ \A v \in Vertex :
       /\ n.outE[v] = IF v = h.src[e] THEN h.outE[v] \ {e} ELSE h.outE[v]
       /\ n.inE[v]  = IF v = h.tgt[e] THEN h.inE[v] \ {e} ELSE h.inE[v]

(* Both ends of the edge are given: one of them is the old one.            *)
MoveEffect(n, h, e, s, t) ==
  /\ n.edges = h.edges
  /\ \A f \in Edge : /\ n.src[f] = IF f = e THEN s ELSE h.src[f]
                     /\ n.tgt[f] = IF f = e THEN t ELSE h.tgt[f]
  /\ \A v \in Vertex, f \in Edge \ {e} :
       /\ f \in n.outE[v] <=> f \in h.outE[v]
       /\ f \in n.inE[v]  <=> f \in h.inE[v]
  /\ \A v \in Vertex :
       /\ e \in n.outE[v] <=> v = s
       /\ e \in n.inE[v]  <=> v = t

-----------------------------------------------------------------------------
(* The definitions of GraphOps have these effects.                         *)

LEMMA AddVertexFields ==
  ASSUME NEW h \in Heaps, NEW g \in GraphId, NEW v \in Vertex
  PROVE  /\ AddVertex(h, g, v) \in Heaps
         /\ NumberingEffect(AddVertex(h, g, v), h, g, v, {})
         /\ SameEdgeFields(AddVertex(h, g, v), h)
<1> DEFINE n == AddVertex(h, g, v)
<1>1. h.nextId[g] \in Nat
  BY DEF Heaps
<1>2. SameEdgeFields(n, h)
  BY DEF AddVertex, Heaps, SameEdgeFields
<1>3. NumberingEffect(n, h, g, v, {})
  BY DEF AddVertex, Heaps, NumberingEffect
<1>4. /\ n.verts = [h.verts EXCEPT ![g] = h.verts[g] \cup {v}]
      /\ n.index = [h.index EXCEPT ![v] = h.nextId[g]]
      /\ n.nextId = [h.nextId EXCEPT ![g] = h.nextId[g] + 1]
  BY DEF AddVertex, Heaps
<1>5. /\ n.verts \in [GraphId -> SUBSET Vertex]
      /\ n.index \in [Vertex -> Nat \cup {NoIndex}]
      /\ n.nextId \in [GraphId -> Nat]
  BY <1>1, <1>4 DEF Heaps
<1>6. n \in Heaps
  BY <1>2, <1>5 DEF AddVertex, Heaps, SameEdgeFields
<1> QED BY <1>2, <1>3, <1>6

LEMMA RemoveVertexFields ==
  ASSUME NEW h \in Heaps, NEW g \in GraphId, NEW v \in Vertex
  PROVE  /\ RemoveVertex(h, g, v) \in Heaps
         /\ RemoveVertexEffect(RemoveVertex(h, g, v), h, g, v)
         /\ SameEdgeFields(RemoveVertex(h, g, v), h)
<1> DEFINE n == RemoveVertex(h, g, v)
<1>1. n \in Heaps
  BY DEF RemoveVertex, Heaps
<1>2. RemoveVertexEffect(n, h, g, v) /\ SameEdgeFields(n, h)
  BY DEF RemoveVertex, Heaps, RemoveVertexEffect, SameEdgeFields
<1> QED BY <1>1, <1>2

LEMMA TransferFields ==
  ASSUME NEW h \in Heaps, NEW old \in Vertex, NEW new \in Vertex
  PROVE  /\ TransferOwnedResources(h, old, new) \in Heaps
         /\ TransferEffect(TransferOwnedResources(h, old, new), h, old, new)
         /\ SameVertexFields(TransferOwnedResources(h, old, new), h)
<1> DEFINE n == TransferOwnedResources(h, old, new)
<1>1. n \in Heaps
  BY DEF TransferOwnedResources, Heaps
<1>2. SameVertexFields(n, h)
  BY DEF TransferOwnedResources, Heaps, SameVertexFields
<1>3. TransferEffect(n, h, old, new)
  BY DEF TransferOwnedResources, Heaps, TransferEffect
<1> QED BY <1>1, <1>2, <1>3

LEMMA AddEdgeFields ==
  ASSUME NEW h \in Heaps, NEW g \in GraphId, NEW s \in Vertex, NEW t \in Vertex,
         NEW e \in Edge
  PROVE  /\ AddEdge(h, g, s, t, e) \in Heaps
         /\ AddEdgeEffect(AddEdge(h, g, s, t, e), h, g, s, t, e)
         /\ SameVertexFields(AddEdge(h, g, s, t, e), h)
<1> DEFINE n == AddEdge(h, g, s, t, e)
<1>1. n \in Heaps
  <2>1. /\ [h.edges EXCEPT ![g] = h.edges[g] \cup {e}] \in [GraphId -> SUBSET Edge]
        /\ [h.outE EXCEPT ![s] = h.outE[s] \cup {e}] \in [Vertex -> SUBSET Edge]
        /\ [h.inE EXCEPT ![t] = h.inE[t] \cup {e}] \in [Vertex -> SUBSET Edge]
    BY DEF Heaps
  <2>2. /\ [h.src EXCEPT ![e] = s] \in [Edge -> Vertex \cup {NULL}]
        /\ [h.tgt EXCEPT ![e] = t] \in [Edge -> Vertex \cup {NULL}]
    BY DEF Heaps
  <2> QED BY <2>1, <2>2 DEF AddEdge, Heaps
<1>2. SameVertexFields(n, h)
  BY DEF AddEdge, Heaps, SameVertexFields
<1>3. AddEdgeEffect(n, h, g, s, t, e)
  BY DEF AddEdge, Heaps, AddEdgeEffect
<1> QED BY <1>1, <1>2, <1>3

LEMMA RemoveEdgeFields ==
  ASSUME NEW h \in Heaps, NEW g \in GraphId, NEW e \in Edge,
         h.src[e] \in Vertex, h.tgt[e] \in Vertex
  PROVE  /\ RemoveEdge(h, g, e) \in Heaps
         /\ RemoveEdgeEffect(RemoveEdge(h, g, e), h, g, e)
         /\ SameVertexFields(RemoveEdge(h, g, e), h)
<1> DEFINE n == RemoveEdge(h, g, e)
<1>1. n \in Heaps
  BY DEF RemoveEdge, Heaps
<1>2. SameVertexFields(n, h)
  BY DEF RemoveEdge, Heaps, SameVertexFields
<1>3. RemoveEdgeEffect(n, h, g, e)
  BY DEF RemoveEdge, Heaps, RemoveEdgeEffect
<1> QED BY <1>1, <1>2, <1>3

LEMMA ChangeSourceFields ==
  ASSUME NEW h \in Heaps, EndsAgree(h), NEW e \in Edge, NEW s \in Vertex
  PROVE  /\ ChangeSource(h, e, s) \in Heaps
         /\ MoveEffect(ChangeSource(h, e, s), h, e, s, h.tgt[e])
         /\ SameVertexFields(ChangeSource(h, e, s), h)
<1> DEFINE n == ChangeSource(h, e, s)
<1>1. n \in Heaps
  BY DEF ChangeSource, Heaps
<1>2. SameVertexFields(n, h)
  BY DEF ChangeSource, Heaps, SameVertexFields
<1>3. MoveEffect(n, h, e, s, h.tgt[e])
  BY DEF ChangeSource, Heaps, MoveEffect, EndsAgree
<1> QED BY <1>1, <1>2, <1>3

LEMMA ChangeTargetFields ==
  ASSUME NEW h \in Heaps, EndsAgree(h), NEW e \in Edge, NEW t \in Vertex
  PROVE  /\ ChangeTarget(h, e, t) \in Heaps
         /\ MoveEffect(ChangeTarget(h, e, t), h, e, h.src[e], t)
         /\ SameVertexFields(ChangeTarget(h, e, t), h)
<1> DEFINE n == ChangeTarget(h, e, t)
<1>1. n \in Heaps
  BY DEF ChangeTarget, Heaps
<1>2. SameVertexFields(n, h)
  BY DEF ChangeTarget, Heaps, SameVertexFields
<1>3. MoveEffect(n, h, e, h.src[e], t)
  BY DEF ChangeTarget, Heaps, MoveEffect, EndsAgree
<1> QED BY <1>1, <1>2, <1>3

(* ReplaceVertex is an AddVertex, a transfer and a RemoveVertex in a row.  *)
LEMMA ReplaceVertexFields ==
  ASSUME NEW h \in Heaps, NEW g \in GraphId, NEW old \in Vertex, NEW new \in Vertex
  PROVE  /\ ReplaceVertex(h, g, old, new) \in Heaps
         /\ NumberingEffect(ReplaceVertex(h, g, old, new), h, g, new, {old})
         /\ TransferEffect(ReplaceVertex(h, g, old, new), h, old, new)
<1> DEFINE a == AddVertex(h, g, new)
           b == TransferOwnedResources(a, old, new)
           n == RemoveVertex(b, g, old)
<1>1. a \in Heaps /\ NumberingEffect(a, h, g, new, {}) /\ SameEdgeFields(a, h)
  BY AddVertexFields
<1>2. b \in Heaps /\ TransferEffect(b, a, old, new) /\ SameVertexFields(b, a)
  BY <1>1, TransferFields
<1>3. n \in Heaps /\ RemoveVertexEffect(n, b, g, old) /\ SameEdgeFields(n, b)
  BY <1>2, RemoveVertexFields
<1>4. n = ReplaceVertex(h, g, old, new)
  BY DEF ReplaceVertex
<1> HIDE DEF a, b, n
<1>5. NumberingEffect(n, h, g, new, {old})
  <2>1. b.verts = a.verts /\ b.index = a.index /\ b.nextId = a.nextId
    BY <1>2 DEF SameVertexFields
  <2>2. n.index = b.index /\ n.nextId = b.nextId
    BY <1>3 DEF RemoveVertexEffect
  <2>3. ASSUME NEW k \in GraphId
        PROVE  n.verts[k] = IF k = g THEN (h.verts[k] \cup {new}) \ {old} ELSE h.verts[k]
    <3>1. a.verts[k] = IF k = g THEN (h.verts[k] \cup {new}) \ {} ELSE h.verts[k]
      BY <1>1 DEF NumberingEffect
    <3>2. n.verts[k] = IF k = g THEN b.verts[k] \ {old} ELSE b.verts[k]
      BY <1>3 DEF RemoveVertexEffect
    <3> QED BY <2>1, <3>1, <3>2
  <2>4. \A w \in Vertex : n.index[w] = IF w = new THEN h.nextId[g] ELSE h.index[w]
    BY <1>1, <2>1, <2>2 DEF NumberingEffect
  <2>5. \A k \in GraphId : n.nextId[k] = IF k = g THEN h.nextId[k] + 1 ELSE h.nextId[k]
    BY <1>1, <2>1, <2>2 DEF NumberingEffect
  <2> QED BY <2>3, <2>4, <2>5 DEF NumberingEffect
<1>6. TransferEffect(n, h, old, new)
  BY <1>1, <1>2, <1>3 DEF SameEdgeFields, TransferEffect
<1> QED BY <1>3, <1>4, <1>5, <1>6

-----------------------------------------------------------------------------
(* The invariant of one heap, whoever calls.                               *)
Sound(h) ==
  h \in Heaps /\ Coherent(h) /\ IndexUnique(h) /\ IndexIssued(h)

(* The same, for callers that draw edges only between vertices of graphs.  *)
Good(h) ==
  h \in Heaps /\ Consistent(h) /\ IndexUnique(h) /\ IndexIssued(h)

LEMMA GoodIsSound ==
  ASSUME NEW h
  PROVE  Good(h) <=> Sound(h) /\ EndsPlaced(h)
<1>1. ASSUME Good(h) PROVE Sound(h) /\ EndsPlaced(h)
  <2>1. PlacedVertices(h) \subseteq Vertex
    BY <1>1 DEF Good, Heaps, PlacedVertices
  <2>2. EndsGiven(h)
    BY <1>1, <2>1 DEF Good, Consistent, EndsPlaced, EndsGiven
  <2> QED BY <1>1, <2>2 DEF Good, Consistent, Sound, Coherent
<1>2. ASSUME Sound(h), EndsPlaced(h) PROVE Good(h)
  BY <1>2 DEF Good, Consistent, Sound, Coherent
<1> QED BY <1>1, <1>2

(* A vertex whose lists are empty is the end of no edge.                   *)
LEMMA BareVertex ==
  ASSUME NEW h, Sound(h), NEW v \in Vertex, h.inE[v] = {}, h.outE[v] = {}
  PROVE  \A e \in Edge : h.src[e] # v /\ h.tgt[e] # v
  BY DEF Sound, Coherent, EndsAgree

(* A placed edge has two ends.                                             *)
LEMMA PlacedEdgeHasEnds ==
  ASSUME NEW h, Sound(h), NEW g \in GraphId, NEW e \in h.edges[g]
  PROVE  /\ e \in Edge /\ e \in PlacedEdges(h)
         /\ h.src[e] \in Vertex /\ h.tgt[e] \in Vertex
<1>1. e \in Edge /\ e \in PlacedEdges(h)
  BY DEF Sound, Heaps, PlacedEdges
<1>2. h.src[e] \in Vertex /\ h.tgt[e] \in Vertex
  BY <1>1 DEF Sound, Coherent, EndsGiven
<1> QED BY <1>1, <1>2

(* Numbering a vertex with the next index keeps indexes unique, whether    *)
(* the vertex is new to the graph or added a second time, and whether or   *)
(* not another one leaves at the same time.                                *)
LEMMA NumberingKeepsIndexes ==
  ASSUME NEW h, Sound(h), NEW n \in Heaps,
         NEW g \in GraphId, NEW v \in Vertex, NEW gone,
         \A k \in GraphId : k # g => v \notin h.verts[k],
         NumberingEffect(n, h, g, v, gone)
  PROVE  IndexUnique(n) /\ IndexIssued(n)
<1>1. \A k \in GraphId : h.nextId[k] \in Nat
  BY DEF Sound, Heaps
<1>2. ASSUME NEW k \in GraphId, NEW w \in n.verts[k]
      PROVE  /\ w = v => k = g /\ n.index[w] = h.nextId[g]
             /\ w # v => w \in h.verts[k] /\ n.index[w] = h.index[w]
                         /\ h.index[w] \in 0 .. h.nextId[k] - 1
  <2>1. w \in Vertex
    BY DEF Heaps
  <2> QED BY <2>1 DEF NumberingEffect, Sound, IndexIssued
<1>3. IndexIssued(n)
  <2> SUFFICES ASSUME NEW k \in GraphId, NEW w \in n.verts[k]
               PROVE  n.index[w] \in 0 .. n.nextId[k] - 1
    BY DEF IndexIssued
  <2>1. n.nextId[k] = IF k = g THEN h.nextId[k] + 1 ELSE h.nextId[k]
    BY DEF NumberingEffect
  <2>2. CASE w = v
    BY <1>1, <1>2, <2>1, <2>2
  <2>3. CASE w # v
    BY <1>1, <1>2, <2>1, <2>3
  <2> QED BY <2>2, <2>3
<1>4. IndexUnique(n)
  <2> SUFFICES ASSUME NEW k \in GraphId, NEW w \in n.verts[k], NEW x \in n.verts[k],
                      n.index[w] = n.index[x]
               PROVE  w = x
    BY DEF IndexUnique
  <2>1. CASE w # v /\ x # v
    BY <1>2, <2>1 DEF Sound, IndexUnique
  <2>2. CASE w = v /\ x # v
    BY <1>1, <1>2, <2>2
  <2>3. CASE w # v /\ x = v
    BY <1>1, <1>2, <2>3
  <2> QED BY <2>1, <2>2, <2>3
<1> QED BY <1>3, <1>4

-----------------------------------------------------------------------------
(* One lemma for each call: the invariant survives it.                     *)

LEMMA AddVertexSound ==
  ASSUME NEW h, Sound(h), NEW g \in GraphId, NEW v \in Vertex,
         v \notin PlacedVertices(h) \/ v \in h.verts[g]
  PROVE  Sound(AddVertex(h, g, v))
<1> DEFINE n == AddVertex(h, g, v)
<1>1. n \in Heaps /\ NumberingEffect(n, h, g, v, {}) /\ SameEdgeFields(n, h)
  BY AddVertexFields DEF Sound
<1> HIDE DEF n
<1>2. \A k \in GraphId : k # g => v \notin h.verts[k]
  BY DEF Sound, Coherent, OneOwner, PlacedVertices
<1>3. EndsAgree(n)
  BY <1>1 DEF Sound, Coherent, EndsAgree, SameEdgeFields
<1>4. PlacedEdges(n) = PlacedEdges(h)
  BY <1>1 DEF SameEdgeFields, PlacedEdges
<1>5. EndsGiven(n)
  BY <1>1, <1>4 DEF Sound, Coherent, EndsGiven, SameEdgeFields
<1>6. OneOwner(n)
  <2>1. \A k \in GraphId : n.verts[k] = IF k = g THEN h.verts[k] \cup {v} ELSE h.verts[k]
    BY <1>1 DEF NumberingEffect
  <2>2. n.edges = h.edges
    BY <1>1 DEF SameEdgeFields
  <2>3. OneOwner(h)
    BY DEF Sound, Coherent
  <2> SUFFICES ASSUME NEW g1 \in GraphId, NEW g2 \in GraphId, g1 # g2
               PROVE  n.verts[g1] \cap n.verts[g2] = {} /\ n.edges[g1] \cap n.edges[g2] = {}
    BY DEF OneOwner
  <2>4. /\ h.verts[g1] \cap h.verts[g2] = {} /\ h.edges[g1] \cap h.edges[g2] = {}
    BY <2>3 DEF OneOwner
  <2>5. v \in h.verts[g1] => g1 = g
    BY <1>2
  <2>6. v \in h.verts[g2] => g2 = g
    BY <1>2
  <2>7. /\ n.verts[g1] = IF g1 = g THEN h.verts[g1] \cup {v} ELSE h.verts[g1]
        /\ n.verts[g2] = IF g2 = g THEN h.verts[g2] \cup {v} ELSE h.verts[g2]
    BY <2>1
  <2> QED BY <2>2, <2>4, <2>5, <2>6, <2>7
<1>7. IndexUnique(n) /\ IndexIssued(n)
  BY <1>1, <1>2, NumberingKeepsIndexes
<1>8. Sound(n)
  BY <1>1, <1>3, <1>5, <1>6, <1>7 DEF Sound, Coherent
<1> QED BY <1>8 DEF n

LEMMA RemoveVertexSound ==
  ASSUME NEW h, Sound(h), NEW g \in GraphId, NEW v \in Vertex
  PROVE  Sound(RemoveVertex(h, g, v))
<1> DEFINE n == RemoveVertex(h, g, v)
<1>1. n \in Heaps /\ RemoveVertexEffect(n, h, g, v) /\ SameEdgeFields(n, h)
  BY RemoveVertexFields DEF Sound
<1> HIDE DEF n
<1>2. EndsAgree(n)
  BY <1>1 DEF Sound, Coherent, EndsAgree, SameEdgeFields
<1>3. PlacedEdges(n) = PlacedEdges(h)
  BY <1>1 DEF SameEdgeFields, PlacedEdges
<1>4. EndsGiven(n)
  BY <1>1, <1>3 DEF Sound, Coherent, EndsGiven, SameEdgeFields
<1>5. \A k \in GraphId : n.verts[k] \subseteq h.verts[k] /\ n.edges[k] = h.edges[k]
  BY <1>1 DEF RemoveVertexEffect, SameEdgeFields
<1>6. OneOwner(n)
  BY <1>5 DEF Sound, Coherent, OneOwner
<1>7. IndexUnique(n) /\ IndexIssued(n)
  <2>1. n.index = h.index /\ n.nextId = h.nextId
    BY <1>1 DEF RemoveVertexEffect
  <2> QED BY <1>5, <2>1 DEF Sound, IndexUnique, IndexIssued
<1>8. Sound(n)
  BY <1>1, <1>2, <1>4, <1>6, <1>7 DEF Sound, Coherent
<1> QED BY <1>8 DEF n

LEMMA ReplaceVertexSound ==
  ASSUME NEW h, Sound(h), NEW g \in GraphId, NEW old \in h.verts[g],
         NEW new \in Vertex, new \notin PlacedVertices(h),
         h.inE[new] = {}, h.outE[new] = {}
  PROVE  Sound(ReplaceVertex(h, g, old, new))
<1> DEFINE n == ReplaceVertex(h, g, old, new)
<1>0. old \in Vertex /\ old \in PlacedVertices(h) /\ old # new
  BY DEF Sound, Heaps, PlacedVertices
<1>1. /\ n \in Heaps
      /\ NumberingEffect(n, h, g, new, {old})
      /\ TransferEffect(n, h, old, new)
  BY <1>0, ReplaceVertexFields DEF Sound
<1> HIDE DEF n
<1>2. /\ h.inE[new] = {} /\ h.outE[new] = {}
      /\ \A e \in Edge : h.src[e] # new /\ h.tgt[e] # new
  BY BareVertex
<1>3. EndsAgree(h)
  BY DEF Sound, Coherent
<1>4. \A e \in Edge : /\ n.src[e] = IF h.src[e] = old THEN new ELSE h.src[e]
                      /\ n.tgt[e] = IF h.tgt[e] = old THEN new ELSE h.tgt[e]
  BY <1>0, <1>1, <1>3 DEF EndsAgree, TransferEffect
<1>5. EndsAgree(n)
  <2> SUFFICES ASSUME NEW e \in Edge, NEW v \in Vertex
               PROVE  /\ e \in n.outE[v] <=> n.src[e] = v
                      /\ e \in n.inE[v]  <=> n.tgt[e] = v
    BY DEF EndsAgree
  <2>1. /\ n.outE[v] = IF v = new THEN h.outE[old]
                       ELSE IF v = old THEN {} ELSE h.outE[v]
        /\ n.inE[v]  = IF v = new THEN h.inE[old]
                       ELSE IF v = old THEN {} ELSE h.inE[v]
    BY <1>1, <1>2 DEF TransferEffect
  <2> QED BY <1>0, <1>2, <1>3, <1>4, <2>1 DEF EndsAgree
<1>6. PlacedEdges(n) = PlacedEdges(h)
  BY <1>1 DEF TransferEffect, PlacedEdges
<1>7. EndsGiven(n)
  <2> SUFFICES ASSUME NEW e \in Edge
               PROVE  \/ e \in PlacedEdges(n) /\ n.src[e] \in Vertex /\ n.tgt[e] \in Vertex
                      \/ e \notin PlacedEdges(n) /\ n.src[e] = NULL /\ n.tgt[e] = NULL
    BY DEF EndsGiven
  <2>1. \/ e \in PlacedEdges(h) /\ h.src[e] \in Vertex /\ h.tgt[e] \in Vertex
        \/ e \notin PlacedEdges(h) /\ h.src[e] = NULL /\ h.tgt[e] = NULL
    BY DEF Sound, Coherent, EndsGiven
  <2> QED BY <1>0, <1>4, <1>6, <2>1, NullAssumption
<1>8. \A k \in GraphId : new \notin h.verts[k]
  BY DEF PlacedVertices
<1>9. OneOwner(n)
  <2>1. \A k \in GraphId :
          n.verts[k] = IF k = g THEN (h.verts[k] \cup {new}) \ {old} ELSE h.verts[k]
    BY <1>1 DEF NumberingEffect
  <2>2. n.edges = h.edges
    BY <1>1 DEF TransferEffect
  <2>3. OneOwner(h)
    BY DEF Sound, Coherent
  <2> SUFFICES ASSUME NEW g1 \in GraphId, NEW g2 \in GraphId, g1 # g2
               PROVE  n.verts[g1] \cap n.verts[g2] = {} /\ n.edges[g1] \cap n.edges[g2] = {}
    BY DEF OneOwner
  <2>4. /\ h.verts[g1] \cap h.verts[g2] = {} /\ h.edges[g1] \cap h.edges[g2] = {}
    BY <2>3 DEF OneOwner
  <2> QED BY <1>8, <2>1, <2>2, <2>4
<1>10. IndexUnique(n) /\ IndexIssued(n)
  BY <1>1, <1>8, NumberingKeepsIndexes
<1>11. Sound(n)
  BY <1>1, <1>5, <1>7, <1>9, <1>10 DEF Sound, Coherent
<1> QED BY <1>11 DEF n

LEMMA AddEdgeSound ==
  ASSUME NEW h, Sound(h), NEW g \in GraphId,
         NEW s \in Vertex, NEW t \in Vertex,
         NEW e \in Edge, e \notin PlacedEdges(h)
  PROVE  Sound(AddEdge(h, g, s, t, e))
<1> DEFINE n == AddEdge(h, g, s, t, e)
<1>1. n \in Heaps /\ AddEdgeEffect(n, h, g, s, t, e) /\ SameVertexFields(n, h)
  BY AddEdgeFields DEF Sound
<1> HIDE DEF n
<1>2. h.src[e] = NULL /\ h.tgt[e] = NULL
  BY DEF Sound, Coherent, EndsGiven
<1>3. EndsAgree(n)
  <2> SUFFICES ASSUME NEW f \in Edge, NEW v \in Vertex
               PROVE  /\ f \in n.outE[v] <=> n.src[f] = v
                      /\ f \in n.inE[v]  <=> n.tgt[f] = v
    BY DEF EndsAgree
  <2>1. /\ f \in h.outE[v] <=> h.src[f] = v
        /\ f \in h.inE[v]  <=> h.tgt[f] = v
    BY DEF Sound, Coherent, EndsAgree
  <2>2. v # NULL
    BY NullAssumption
  <2>3. /\ n.src[f] = IF f = e THEN s ELSE h.src[f]
        /\ n.tgt[f] = IF f = e THEN t ELSE h.tgt[f]
        /\ n.outE[v] = IF v = s THEN h.outE[v] \cup {e} ELSE h.outE[v]
        /\ n.inE[v]  = IF v = t THEN h.inE[v] \cup {e} ELSE h.inE[v]
    BY <1>1 DEF AddEdgeEffect
  <2>4. CASE f = e
    BY <1>2, <2>1, <2>2, <2>3, <2>4
  <2>5. CASE f # e
    BY <2>1, <2>3, <2>5
  <2> QED BY <2>4, <2>5
<1>4. PlacedVertices(n) = PlacedVertices(h) /\ PlacedEdges(n) = PlacedEdges(h) \cup {e}
  <2>1. \A k \in GraphId : n.edges[k] = IF k = g THEN h.edges[k] \cup {e} ELSE h.edges[k]
    BY <1>1 DEF AddEdgeEffect
  <2>2. n.verts = h.verts
    BY <1>1 DEF SameVertexFields
  <2>3. \A x : x \in PlacedEdges(n) <=> x \in PlacedEdges(h) \cup {e}
    BY <2>1 DEF PlacedEdges
  <2>4. PlacedEdges(n) = PlacedEdges(h) \cup {e}
    BY <2>3
  <2> QED BY <2>2, <2>4 DEF PlacedVertices
<1>5. EndsGiven(n)
  BY <1>1, <1>4 DEF Sound, Coherent, EndsGiven, AddEdgeEffect
<1>6. OneOwner(n)
  <2>1. \A k \in GraphId : n.edges[k] = IF k = g THEN h.edges[k] \cup {e} ELSE h.edges[k]
    BY <1>1 DEF AddEdgeEffect
  <2>2. n.verts = h.verts
    BY <1>1 DEF SameVertexFields
  <2>3. \A k \in GraphId : e \notin h.edges[k]
    BY DEF PlacedEdges
  <2> SUFFICES ASSUME NEW j \in GraphId, NEW k \in GraphId, j # k
               PROVE  n.verts[j] \cap n.verts[k] = {} /\ n.edges[j] \cap n.edges[k] = {}
    BY DEF OneOwner
  <2>4. h.verts[j] \cap h.verts[k] = {} /\ h.edges[j] \cap h.edges[k] = {}
    BY DEF Sound, Coherent, OneOwner
  <2>5. /\ n.edges[j] = IF j = g THEN h.edges[j] \cup {e} ELSE h.edges[j]
        /\ n.edges[k] = IF k = g THEN h.edges[k] \cup {e} ELSE h.edges[k]
        /\ e \notin h.edges[j] /\ e \notin h.edges[k]
    BY <2>1, <2>3
  <2> QED BY <2>2, <2>4, <2>5
<1>7. IndexUnique(n) /\ IndexIssued(n)
  BY <1>1 DEF Sound, IndexUnique, IndexIssued, SameVertexFields
<1>8. Sound(n)
  BY <1>1, <1>3, <1>5, <1>6, <1>7 DEF Sound, Coherent
<1> QED BY <1>8 DEF n

LEMMA RemoveEdgeSound ==
  ASSUME NEW h, Sound(h), NEW g \in GraphId, NEW e \in h.edges[g]
  PROVE  Sound(RemoveEdge(h, g, e))
<1> DEFINE n == RemoveEdge(h, g, e)
<1>0. e \in Edge /\ h.src[e] \in Vertex /\ h.tgt[e] \in Vertex
  BY PlacedEdgeHasEnds
<1>1. n \in Heaps /\ RemoveEdgeEffect(n, h, g, e) /\ SameVertexFields(n, h)
  BY <1>0, RemoveEdgeFields DEF Sound
<1> HIDE DEF n
<1>2. EndsAgree(n)
  <2> SUFFICES ASSUME NEW f \in Edge, NEW v \in Vertex
               PROVE  /\ f \in n.outE[v] <=> n.src[f] = v
                      /\ f \in n.inE[v]  <=> n.tgt[f] = v
    BY DEF EndsAgree
  <2>1. /\ f \in h.outE[v] <=> h.src[f] = v
        /\ f \in h.inE[v]  <=> h.tgt[f] = v
    BY DEF Sound, Coherent, EndsAgree
  <2>2. v # NULL
    BY NullAssumption
  <2>3. /\ n.outE[v] = IF v = h.src[e] THEN h.outE[v] \ {e} ELSE h.outE[v]
        /\ n.inE[v]  = IF v = h.tgt[e] THEN h.inE[v] \ {e} ELSE h.inE[v]
        /\ n.src[f] = IF f = e THEN NULL ELSE h.src[f]
        /\ n.tgt[f] = IF f = e THEN NULL ELSE h.tgt[f]
    BY <1>1 DEF RemoveEdgeEffect
  <2>4. CASE f = e
    BY <2>1, <2>2, <2>3, <2>4
  <2>5. CASE f # e
    BY <2>1, <2>3, <2>5
  <2> QED BY <2>4, <2>5
<1>3. \A k \in GraphId : k # g => e \notin h.edges[k]
  BY DEF Sound, Coherent, OneOwner
<1>4. PlacedVertices(n) = PlacedVertices(h) /\ PlacedEdges(n) = PlacedEdges(h) \ {e}
  <2>1. \A k \in GraphId : n.edges[k] = IF k = g THEN h.edges[k] \ {e} ELSE h.edges[k]
    BY <1>1 DEF RemoveEdgeEffect
  <2>2. n.verts = h.verts
    BY <1>1 DEF SameVertexFields
  <2> QED BY <1>3, <2>1, <2>2 DEF PlacedVertices, PlacedEdges
<1>5. EndsGiven(n)
  BY <1>1, <1>4 DEF Sound, Coherent, EndsGiven, RemoveEdgeEffect
<1>6. OneOwner(n)
  BY <1>1 DEF Sound, Coherent, OneOwner, RemoveEdgeEffect, SameVertexFields
<1>7. IndexUnique(n) /\ IndexIssued(n)
  BY <1>1 DEF Sound, IndexUnique, IndexIssued, SameVertexFields
<1>8. Sound(n)
  BY <1>1, <1>2, <1>5, <1>6, <1>7 DEF Sound, Coherent
<1> QED BY <1>8 DEF n

(* Shared by ChangeSource and ChangeTarget.                                *)
LEMMA MoveSound ==
  ASSUME NEW h, Sound(h), NEW n \in Heaps, NEW e \in PlacedEdges(h),
         NEW s \in Vertex, NEW t \in Vertex,
         MoveEffect(n, h, e, s, t), SameVertexFields(n, h)
  PROVE  Sound(n)
<1>1. EndsAgree(n)
  <2> SUFFICES ASSUME NEW f \in Edge, NEW v \in Vertex
               PROVE  /\ f \in n.outE[v] <=> n.src[f] = v
                      /\ f \in n.inE[v]  <=> n.tgt[f] = v
    BY DEF EndsAgree
  <2>1. CASE f = e
    BY <2>1 DEF MoveEffect
  <2>2. CASE f # e
    BY <2>2 DEF MoveEffect, Sound, Coherent, EndsAgree
  <2> QED BY <2>1, <2>2
<1>2. PlacedVertices(n) = PlacedVertices(h) /\ PlacedEdges(n) = PlacedEdges(h)
  BY DEF PlacedVertices, PlacedEdges, MoveEffect, SameVertexFields
<1>3. EndsGiven(n)
  BY <1>2 DEF Sound, Coherent, EndsGiven, MoveEffect
<1>4. OneOwner(n)
  BY DEF Sound, Coherent, OneOwner, MoveEffect, SameVertexFields
<1>5. IndexUnique(n) /\ IndexIssued(n)
  BY DEF Sound, IndexUnique, IndexIssued, SameVertexFields
<1> QED BY <1>1, <1>3, <1>4, <1>5 DEF Sound, Coherent

LEMMA ChangeSourceSound ==
  ASSUME NEW h, Sound(h), NEW g \in GraphId, NEW e \in h.edges[g], NEW s \in Vertex
  PROVE  Sound(ChangeSource(h, e, s))
<1>1. e \in Edge /\ e \in PlacedEdges(h) /\ h.tgt[e] \in Vertex
  BY PlacedEdgeHasEnds
<1>2. /\ ChangeSource(h, e, s) \in Heaps
      /\ MoveEffect(ChangeSource(h, e, s), h, e, s, h.tgt[e])
      /\ SameVertexFields(ChangeSource(h, e, s), h)
  BY <1>1, ChangeSourceFields DEF Sound, Coherent
<1> QED BY <1>1, <1>2, MoveSound

LEMMA ChangeTargetSound ==
  ASSUME NEW h, Sound(h), NEW g \in GraphId, NEW e \in h.edges[g], NEW t \in Vertex
  PROVE  Sound(ChangeTarget(h, e, t))
<1>1. e \in Edge /\ e \in PlacedEdges(h) /\ h.src[e] \in Vertex
  BY PlacedEdgeHasEnds
<1>2. /\ ChangeTarget(h, e, t) \in Heaps
      /\ MoveEffect(ChangeTarget(h, e, t), h, e, h.src[e], t)
      /\ SameVertexFields(ChangeTarget(h, e, t), h)
  BY <1>1, ChangeTargetFields DEF Sound, Coherent
<1> QED BY <1>1, <1>2, MoveSound

(* The two calls that link functions also keep both ends of every edge in  *)
(* a graph, where the caller hands them vertices that are in one.          *)
LEMMA ReplaceVertexGood ==
  ASSUME NEW h, Good(h), NEW g \in GraphId, NEW old \in h.verts[g],
         NEW new \in Vertex, new \notin PlacedVertices(h)
  PROVE  Good(ReplaceVertex(h, g, old, new))
<1> DEFINE n == ReplaceVertex(h, g, old, new)
<1>1. Sound(h) /\ EndsPlaced(h)
  BY GoodIsSound
<1>2. old \in Vertex /\ old \in PlacedVertices(h) /\ old # new
  BY DEF Good, Heaps, PlacedVertices
<1>3. /\ \A e \in Edge : h.src[e] # new /\ h.tgt[e] # new
      /\ h.inE[new] = {} /\ h.outE[new] = {}
  <2>1. \A e \in Edge : h.src[e] # new /\ h.tgt[e] # new
    BY <1>1, NullAssumption DEF EndsPlaced
  <2>2. h.inE[new] \subseteq Edge /\ h.outE[new] \subseteq Edge
    BY DEF Good, Heaps
  <2> QED BY <2>1, <2>2 DEF Good, Consistent, EndsAgree
<1>4. Sound(n)
  BY <1>1, <1>3, ReplaceVertexSound
<1>5. NumberingEffect(n, h, g, new, {old}) /\ TransferEffect(n, h, old, new)
  BY <1>2, ReplaceVertexFields DEF Good
<1> HIDE DEF n
<1>6. \A e \in Edge : /\ n.src[e] = IF h.src[e] = old THEN new ELSE h.src[e]
                      /\ n.tgt[e] = IF h.tgt[e] = old THEN new ELSE h.tgt[e]
  BY <1>2, <1>5 DEF Good, Consistent, EndsAgree, TransferEffect
<1>7. /\ (PlacedVertices(h) \cup {new}) \ {old} \subseteq PlacedVertices(n)
      /\ PlacedEdges(n) = PlacedEdges(h)
  <2>1. \A k \in GraphId :
          n.verts[k] = IF k = g THEN (h.verts[k] \cup {new}) \ {old} ELSE h.verts[k]
    BY <1>5 DEF NumberingEffect
  <2>2. n.edges = h.edges
    BY <1>5 DEF TransferEffect
  <2> QED BY <2>1, <2>2 DEF PlacedVertices, PlacedEdges
<1>8. EndsPlaced(n)
  <2> SUFFICES ASSUME NEW e \in Edge
               PROVE  \/ e \in PlacedEdges(n) /\ n.src[e] \in PlacedVertices(n)
                                              /\ n.tgt[e] \in PlacedVertices(n)
                      \/ e \notin PlacedEdges(n) /\ n.src[e] = NULL /\ n.tgt[e] = NULL
    BY DEF EndsPlaced
  <2>1. \/ e \in PlacedEdges(h) /\ h.src[e] \in PlacedVertices(h)
                                /\ h.tgt[e] \in PlacedVertices(h)
        \/ e \notin PlacedEdges(h) /\ h.src[e] = NULL /\ h.tgt[e] = NULL
    BY <1>1 DEF EndsPlaced
  <2>2. CASE e \in PlacedEdges(h)
    BY <1>2, <1>6, <1>7, <2>1, <2>2
  <2>3. CASE e \notin PlacedEdges(h)
    BY <1>2, <1>6, <1>7, <2>1, <2>3, NullAssumption
  <2> QED BY <2>2, <2>3
<1>9. Good(n)
  BY <1>4, <1>8, GoodIsSound
<1> QED BY <1>9 DEF n

LEMMA AddEdgeGood ==
  ASSUME NEW h, Good(h), NEW g \in GraphId,
         NEW s \in PlacedVertices(h), NEW t \in PlacedVertices(h),
         NEW e \in Edge, e \notin PlacedEdges(h)
  PROVE  Good(AddEdge(h, g, s, t, e))
<1> DEFINE n == AddEdge(h, g, s, t, e)
<1>1. Sound(h) /\ EndsPlaced(h)
  BY GoodIsSound
<1>2. s \in Vertex /\ t \in Vertex
  BY DEF Good, Heaps, PlacedVertices
<1>3. Sound(n)
  BY <1>1, <1>2, AddEdgeSound
<1>4. AddEdgeEffect(n, h, g, s, t, e) /\ SameVertexFields(n, h)
  BY <1>2, AddEdgeFields DEF Good
<1> HIDE DEF n
<1>5. PlacedVertices(n) = PlacedVertices(h) /\ PlacedEdges(n) = PlacedEdges(h) \cup {e}
  <2>1. \A k \in GraphId : n.edges[k] = IF k = g THEN h.edges[k] \cup {e} ELSE h.edges[k]
    BY <1>4 DEF AddEdgeEffect
  <2>2. n.verts = h.verts
    BY <1>4 DEF SameVertexFields
  <2>3. \A x : x \in PlacedEdges(n) <=> x \in PlacedEdges(h) \cup {e}
    BY <2>1 DEF PlacedEdges
  <2>4. PlacedEdges(n) = PlacedEdges(h) \cup {e}
    BY <2>3
  <2> QED BY <2>2, <2>4 DEF PlacedVertices
<1>6. EndsPlaced(n)
  BY <1>1, <1>4, <1>5 DEF EndsPlaced, AddEdgeEffect
<1>7. Good(n)
  BY <1>3, <1>6, GoodIsSound
<1> QED BY <1>7 DEF n

-----------------------------------------------------------------------------
(* The invariant of the container, in the words of the lemmas.             *)
LEMMA GraphInvIsSound ==
  GraphInv <=> Sound(heap) /\ thrown \in {"none", "duplicate_add"}
  BY DEF GraphInv, Sound, TypeOK, GraphConsistent, IndexesUnique

LEMMA EmptyHeapSound == Sound(EmptyHeap)
<1>1. EmptyHeap \in Heaps
  BY DEF EmptyHeap, Heaps
<1>2. PlacedVertices(EmptyHeap) = {} /\ PlacedEdges(EmptyHeap) = {}
  BY DEF PlacedVertices, PlacedEdges, EmptyHeap
<1>3. EndsAgree(EmptyHeap)
  BY NullAssumption DEF EmptyHeap, EndsAgree
<1>4. EndsGiven(EmptyHeap)
  BY <1>2 DEF EmptyHeap, EndsGiven
<1>5. OneOwner(EmptyHeap) /\ IndexUnique(EmptyHeap) /\ IndexIssued(EmptyHeap)
  BY DEF EmptyHeap, OneOwner, IndexUnique, IndexIssued
<1> QED BY <1>1, <1>3, <1>4, <1>5 DEF Sound, Coherent

(* Each call of the container keeps the invariant.                         *)
LEMMA GraphInvStep == GraphInv /\ [Next]_vars => GraphInv'
<1> SUFFICES ASSUME Sound(heap), thrown \in {"none", "duplicate_add"}, [Next]_vars
             PROVE  Sound(heap') /\ thrown' \in {"none", "duplicate_add"}
  <2>1. GraphInv' <=> Sound(heap') /\ thrown' \in {"none", "duplicate_add"}
    BY DEF GraphInv, Sound, TypeOK, GraphConsistent, IndexesUnique
  <2> QED BY <2>1, GraphInvIsSound
<1>1. ASSUME NEW g \in GraphId, NEW v \in Vertex, AddNewVertex(g, v)
      PROVE  Sound(heap') /\ thrown' = "none"
  BY <1>1, AddVertexSound DEF AddNewVertex, FreeVertex
<1>2. ASSUME NEW g \in GraphId, NEW v \in Vertex, AddVertexAgain(g, v)
      PROVE  Sound(heap') /\ thrown' = "duplicate_add"
  BY <1>2, AddVertexSound DEF AddVertexAgain
<1>3. ASSUME NEW g \in GraphId, NEW v \in Vertex, RemoveAnyVertex(g, v)
      PROVE  Sound(heap') /\ thrown' = "none"
  BY <1>3, RemoveVertexSound DEF RemoveAnyVertex
<1>4. ASSUME NEW g \in GraphId, NEW v \in Vertex, NEW new \in Vertex,
             ReplaceByNew(g, v, new)
      PROVE  Sound(heap') /\ thrown' = "none"
  BY <1>4, ReplaceVertexSound
     DEF ReplaceByNew, NewVertex, FreeVertex, InDegreeIs0, OutDegreeIs0
<1>5. ASSUME NEW g \in GraphId, NEW e \in Edge, NEW s \in Vertex, NEW t \in Vertex,
             AddNewEdge(g, s, t, e)
      PROVE  Sound(heap') /\ thrown' = "none"
  BY <1>5, AddEdgeSound DEF AddNewEdge, FreeEdge
<1>6. ASSUME NEW g \in GraphId, NEW e \in Edge, RemoveOwnEdge(g, e)
      PROVE  Sound(heap') /\ thrown' = "none"
  BY <1>6, RemoveEdgeSound DEF RemoveOwnEdge
<1>7. ASSUME NEW g \in GraphId, NEW e \in Edge, NEW v \in Vertex, MoveSource(g, e, v)
      PROVE  Sound(heap') /\ thrown' = "none"
  BY <1>7, ChangeSourceSound DEF MoveSource
<1>8. ASSUME NEW g \in GraphId, NEW e \in Edge, NEW v \in Vertex, MoveTarget(g, e, v)
      PROVE  Sound(heap') /\ thrown' = "none"
  BY <1>8, ChangeTargetSound DEF MoveTarget
<1>9. CASE UNCHANGED vars
  BY <1>9 DEF vars
<1> QED BY <1>1, <1>2, <1>3, <1>4, <1>5, <1>6, <1>7, <1>8, <1>9 DEF Next

(* After any sequence of calls the structure is consistent, indexes are    *)
(* unique and the generator is ahead of all of them.                       *)
THEOREM GraphInvariant == Spec => []GraphInv
<1>1. Init => GraphInv
  BY EmptyHeapSound, GraphInvIsSound DEF Init
<1>2. QED
  BY <1>1, GraphInvStep, PTL DEF Spec

(* Type correctness of the container.                                      *)
THEOREM TypeCorrect == Spec => []TypeOK
<1>1. GraphInv => TypeOK
  BY DEF GraphInv
<1>2. QED
  BY <1>1, GraphInvariant, PTL

(* Both ends of every edge know it and only they do, and it has its ends   *)
(* exactly while a graph holds it: what the unit tests'                    *)
(* CheckGraphForConsistency is declared for.  Whether the ends are in a    *)
(* graph the container does not know.                                      *)
THEOREM AlwaysConsistent == Spec => []GraphConsistent
<1>1. GraphInv => GraphConsistent
  BY DEF GraphInv
<1>2. QED
  BY <1>1, GraphInvariant, PTL

(* The promise of Vertex::GetIndex: unique within the containing graph.    *)
THEOREM AlwaysUniqueIndexes == Spec => []IndexesUnique
<1>1. GraphInv => IndexesUnique
  BY DEF GraphInv
<1>2. QED
  BY <1>1, GraphInvariant, PTL

-----------------------------------------------------------------------------
(* The refinement.  First, what each effect means for the abstract state.  *)

ArcOf(h, e) == [edge |-> e, from |-> h.src[e], to |-> h.tgt[e]]

LEMMA ArcsOfGraph ==
  ASSUME NEW h, NEW g \in GraphId
  PROVE  ArcsOf(h)[g] = {ArcOf(h, e) : e \in h.edges[g]}
  BY DEF ArcsOf, ArcOf

LEMMA SameArcs ==
  ASSUME NEW h, NEW n, SameEdgeFields(n, h)
  PROVE  ArcsOf(n) = ArcsOf(h)
  BY DEF ArcsOf, SameEdgeFields

(* Vertex sets as one map, from the effect on each graph.                  *)
LEMMA VertsChange ==
  ASSUME NEW h \in Heaps, NEW n \in Heaps, NEW g \in GraphId, NEW S,
         \A k \in GraphId : n.verts[k] = IF k = g THEN S ELSE h.verts[k]
  PROVE  n.verts = [h.verts EXCEPT ![g] = S]
<1>1. /\ h.verts \in [GraphId -> SUBSET Vertex]
      /\ n.verts \in [GraphId -> SUBSET Vertex]
  BY DEF Heaps
<1> QED BY <1>1

(* The arcs of all graphs are those of the placed edges.                   *)
LEMMA AbstractArcs ==
  ASSUME Sound(heap)
  PROVE  /\ MG!AllVertices = PlacedVertices(heap)
         /\ MG!AllArcs = {ArcOf(heap, e) : e \in PlacedEdges(heap)}
<1>1. MG!AllVertices = PlacedVertices(heap)
  BY DEF MG!AllVertices, PlacedVertices
<1>2. \A g \in GraphId : ArcsOf(heap)[g] = {ArcOf(heap, e) : e \in heap.edges[g]}
  BY ArcsOfGraph
<1>3. MG!AllArcs = UNION {ArcsOf(heap)[g] : g \in GraphId}
  BY DEF MG!AllArcs
<1>4. MG!AllArcs = {ArcOf(heap, e) : e \in PlacedEdges(heap)}
  BY <1>2, <1>3 DEF PlacedEdges
<1> QED BY <1>1, <1>4

LEMMA RefineAdd ==
  ASSUME Sound(heap), NEW g \in GraphId, NEW v \in Vertex, AddNewVertex(g, v)
  PROVE  MG!Add(g, v)
<1>1. /\ heap' \in Heaps /\ NumberingEffect(heap', heap, g, v, {})
      /\ SameEdgeFields(heap', heap)
  BY AddVertexFields DEF AddNewVertex, Sound
<1>2. heap'.verts = [heap.verts EXCEPT ![g] = heap.verts[g] \cup {v}]
  <2>1. \A k \in GraphId :
          heap'.verts[k] = IF k = g THEN heap.verts[g] \cup {v} ELSE heap.verts[k]
    BY <1>1 DEF NumberingEffect
  <2> QED BY <1>1, <2>1, VertsChange DEF Sound
<1>3. ArcsOf(heap') = ArcsOf(heap)
  BY <1>1, SameArcs
<1>4. v \notin MG!AllVertices
  BY AbstractArcs DEF AddNewVertex, FreeVertex
<1> QED BY <1>2, <1>3, <1>4 DEF MG!Add

LEMMA RefineAddAgain ==
  ASSUME Sound(heap), NEW g \in GraphId, NEW v \in Vertex, AddVertexAgain(g, v)
  PROVE  UNCHANGED MG!vars
<1>1. /\ heap' \in Heaps /\ NumberingEffect(heap', heap, g, v, {})
      /\ SameEdgeFields(heap', heap)
  BY AddVertexFields DEF AddVertexAgain, Sound
<1>2. heap'.verts = heap.verts
  <2>1. \A k \in GraphId : heap'.verts[k] = heap.verts[k]
    BY <1>1 DEF NumberingEffect, AddVertexAgain
  <2> QED BY <1>1, <2>1 DEF Sound, Heaps
<1>3. ArcsOf(heap') = ArcsOf(heap)
  BY <1>1, SameArcs
<1> QED BY <1>2, <1>3 DEF MG!vars

LEMMA RefineRemove ==
  ASSUME Sound(heap), NEW g \in GraphId, NEW v \in Vertex, RemoveAnyVertex(g, v)
  PROVE  MG!Remove(g, v)
<1>1. /\ heap' \in Heaps /\ RemoveVertexEffect(heap', heap, g, v)
      /\ SameEdgeFields(heap', heap)
  BY RemoveVertexFields DEF RemoveAnyVertex, Sound
<1>2. heap'.verts = [heap.verts EXCEPT ![g] = heap.verts[g] \ {v}]
  <2>1. \A k \in GraphId :
          heap'.verts[k] = IF k = g THEN heap.verts[g] \ {v} ELSE heap.verts[k]
    BY <1>1 DEF RemoveVertexEffect
  <2>2. heap \in Heaps /\ heap' \in Heaps
    BY <1>1 DEF Sound
  <2> QED BY <2>1, <2>2, VertsChange
<1>3. ArcsOf(heap') = ArcsOf(heap)
  BY <1>1, SameArcs
<1> QED BY <1>2, <1>3 DEF MG!Remove

LEMMA RefineReplace ==
  ASSUME Sound(heap), NEW g \in GraphId, NEW old \in Vertex, NEW new \in Vertex,
         ReplaceByNew(g, old, new)
  PROVE  MG!Replace(g, old, new)
<1> DEFINE Renamed(v) == IF v = old THEN new ELSE v
           Rename(a) == MG!Arc(a.edge, Renamed(a.from), Renamed(a.to))
<1>1. /\ heap' \in Heaps /\ NumberingEffect(heap', heap, g, new, {old})
      /\ TransferEffect(heap', heap, old, new)
  BY ReplaceVertexFields DEF ReplaceByNew, Sound
<1>2. heap'.verts = [heap.verts EXCEPT ![g] = (heap.verts[g] \cup {new}) \ {old}]
  <2>1. \A k \in GraphId :
          heap'.verts[k] = IF k = g THEN (heap.verts[g] \cup {new}) \ {old}
                                    ELSE heap.verts[k]
    BY <1>1 DEF NumberingEffect
  <2>2. heap \in Heaps /\ heap' \in Heaps
    BY <1>1 DEF Sound
  <2> DEFINE S == (heap.verts[g] \cup {new}) \ {old}
  <2>3. \A k \in GraphId : heap'.verts[k] = IF k = g THEN S ELSE heap.verts[k]
    BY <2>1
  <2> HIDE DEF S
  <2>4. heap'.verts = [heap.verts EXCEPT ![g] = S]
    BY <2>2, <2>3, VertsChange
  <2> QED BY <2>4 DEF S
<1>3. \A e \in Edge : ArcOf(heap', e) = Rename(ArcOf(heap, e))
  <2>1. \A e \in Edge : /\ heap'.src[e] = Renamed(heap.src[e])
                        /\ heap'.tgt[e] = Renamed(heap.tgt[e])
    BY <1>1 DEF TransferEffect, Sound, Coherent, EndsAgree
  <2> QED BY <2>1 DEF ArcOf, MG!Arc
<1>4. ASSUME NEW k \in GraphId
      PROVE  ArcsOf(heap')[k] = {Rename(a) : a \in ArcsOf(heap)[k]}
  <2>1. heap'.edges[k] = heap.edges[k] /\ heap.edges[k] \subseteq Edge
    BY <1>1 DEF TransferEffect, Sound, Heaps
  <2>2. /\ ArcsOf(heap')[k] = {ArcOf(heap', e) : e \in heap'.edges[k]}
        /\ ArcsOf(heap)[k]  = {ArcOf(heap, e) : e \in heap.edges[k]}
    BY ArcsOfGraph
  <2> HIDE DEF Rename
  <2> QED BY <1>3, <2>1, <2>2
<1>5. ArcsOf(heap') = [k \in GraphId |-> {Rename(a) : a \in ArcsOf(heap)[k]}]
  BY <1>4 DEF ArcsOf
<1>6. old \in heap.verts[g] /\ new \notin MG!AllVertices
  BY AbstractArcs DEF ReplaceByNew, NewVertex, FreeVertex
<1>7. \A a \in MG!AllArcs : a.from # new /\ a.to # new
  <2>1. \A e \in Edge : heap.src[e] # new /\ heap.tgt[e] # new
    BY BareVertex DEF ReplaceByNew, NewVertex, InDegreeIs0, OutDegreeIs0
  <2>2. PlacedEdges(heap) \subseteq Edge
    BY DEF PlacedEdges, Sound, Heaps
  <2> QED BY <2>1, <2>2, AbstractArcs DEF ArcOf
<1> QED BY <1>2, <1>5, <1>6, <1>7 DEF MG!Replace

(* Arc sets as one map, from the change to one graph's arcs.               *)
LEMMA ArcsChange ==
  ASSUME NEW g \in GraphId, NEW S,
         \A k \in GraphId : ArcsOf(heap')[k] = IF k = g THEN S ELSE ArcsOf(heap)[k]
  PROVE  ArcsOf(heap') = [ArcsOf(heap) EXCEPT ![g] = S]
<1> DEFINE A == ArcsOf(heap)
           B == ArcsOf(heap')
<1>1. A = [k \in GraphId |-> A[k]] /\ B = [k \in GraphId |-> B[k]]
  BY DEF ArcsOf
<1>2. \A k \in GraphId : B[k] = IF k = g THEN S ELSE A[k]
  OBVIOUS
<1> HIDE DEF A, B
<1>3. B = [A EXCEPT ![g] = S]
  BY <1>1, <1>2
<1> QED BY <1>3 DEF A, B

LEMMA RefineConnect ==
  ASSUME Sound(heap), NEW g \in GraphId, NEW s \in Vertex, NEW t \in Vertex,
         NEW e \in Edge, AddNewEdge(g, s, t, e)
  PROVE  MG!Connect(g, s, t, e)
<1>1. /\ heap' \in Heaps /\ AddEdgeEffect(heap', heap, g, s, t, e)
      /\ SameVertexFields(heap', heap)
  BY AddEdgeFields DEF AddNewEdge, Sound
<1>2. \A f \in Edge : ArcOf(heap', f) = IF f = e THEN MG!Arc(e, s, t) ELSE ArcOf(heap, f)
  BY <1>1 DEF AddEdgeEffect, ArcOf, MG!Arc
<1>3. ASSUME NEW k \in GraphId
      PROVE  ArcsOf(heap')[k] = IF k = g THEN ArcsOf(heap)[g] \cup {MG!Arc(e, s, t)}
                                         ELSE ArcsOf(heap)[k]
  <2>1. /\ heap'.edges[k] = IF k = g THEN heap.edges[k] \cup {e} ELSE heap.edges[k]
        /\ heap.edges[k] \subseteq Edge
    BY <1>1 DEF AddEdgeEffect, Sound, Heaps
  <2>2. e \notin heap.edges[k]
    BY DEF AddNewEdge, FreeEdge, PlacedEdges
  <2>3. /\ ArcsOf(heap')[k] = {ArcOf(heap', f) : f \in heap'.edges[k]}
        /\ ArcsOf(heap)[k]  = {ArcOf(heap, f) : f \in heap.edges[k]}
    BY ArcsOfGraph
  <2> QED BY <1>2, <2>1, <2>2, <2>3
<1>4. ArcsOf(heap') = [ArcsOf(heap) EXCEPT ![g] = ArcsOf(heap)[g] \cup {MG!Arc(e, s, t)}]
  <2> DEFINE S == ArcsOf(heap)[g] \cup {MG!Arc(e, s, t)}
  <2>1. \A k \in GraphId : ArcsOf(heap')[k] = IF k = g THEN S ELSE ArcsOf(heap)[k]
    BY <1>3
  <2> HIDE DEF S
  <2>2. ArcsOf(heap') = [ArcsOf(heap) EXCEPT ![g] = S]
    BY <2>1, ArcsChange
  <2> QED BY <2>2 DEF S
<1>5. heap'.verts = heap.verts
  BY <1>1 DEF SameVertexFields
<1>6. \A a \in MG!AllArcs : a.edge # e
  BY AbstractArcs DEF AddNewEdge, FreeEdge, ArcOf
<1> QED BY <1>4, <1>5, <1>6 DEF MG!Connect

(* An edge owned by one graph is not owned by another, so two graphs never *)
(* share an arc, and an arc determines its edge.                           *)
LEMMA RefineDisconnect ==
  ASSUME Sound(heap), NEW g \in GraphId, NEW e \in Edge, RemoveOwnEdge(g, e)
  PROVE  \E a \in ArcsOf(heap)[g] : MG!Disconnect(g, a)
<1> DEFINE a == ArcOf(heap, e)
<1>0. e \in heap.edges[g]
  BY DEF RemoveOwnEdge
<1>1. /\ heap' \in Heaps /\ RemoveEdgeEffect(heap', heap, g, e)
      /\ SameVertexFields(heap', heap)
  <2>1. heap.src[e] \in Vertex /\ heap.tgt[e] \in Vertex
    BY <1>0, PlacedEdgeHasEnds
  <2> QED BY <2>1, RemoveEdgeFields DEF RemoveOwnEdge, Sound
<1>2. \A f \in Edge : f # e => ArcOf(heap', f) = ArcOf(heap, f)
  BY <1>1 DEF RemoveEdgeEffect, ArcOf
<1>3. ASSUME NEW k \in GraphId
      PROVE  ArcsOf(heap')[k] = IF k = g THEN ArcsOf(heap)[g] \ {a} ELSE ArcsOf(heap)[k]
  <2>1. /\ heap'.edges[k] = IF k = g THEN heap.edges[k] \ {e} ELSE heap.edges[k]
        /\ heap.edges[k] \subseteq Edge
    BY <1>1 DEF RemoveEdgeEffect, Sound, Heaps
  <2>2. k # g => e \notin heap.edges[k]
    BY <1>0 DEF Sound, Coherent, OneOwner
  <2>3. /\ ArcsOf(heap')[k] = {ArcOf(heap', f) : f \in heap'.edges[k]}
        /\ ArcsOf(heap)[k]  = {ArcOf(heap, f) : f \in heap.edges[k]}
    BY ArcsOfGraph
  <2>4. \A f \in Edge : ArcOf(heap, f) = a => f = e
    BY DEF ArcOf
  <2>5. CASE k # g
    BY <1>2, <2>1, <2>2, <2>3, <2>5
  <2>6. CASE k = g
    <3>1. heap'.edges[k] = heap.edges[k] \ {e}
      BY <2>1, <2>6
    <3> HIDE DEF a
    <3> QED BY <1>2, <2>1, <2>3, <2>4, <2>6, <3>1 DEF a
  <2> QED BY <2>5, <2>6
<1>4. ArcsOf(heap') = [ArcsOf(heap) EXCEPT ![g] = ArcsOf(heap)[g] \ {a}]
  <2> DEFINE S == ArcsOf(heap)[g] \ {a}
  <2>1. \A k \in GraphId : ArcsOf(heap')[k] = IF k = g THEN S ELSE ArcsOf(heap)[k]
    BY <1>3
  <2> HIDE DEF S
  <2>2. ArcsOf(heap') = [ArcsOf(heap) EXCEPT ![g] = S]
    BY <2>1, ArcsChange
  <2> QED BY <2>2 DEF S
<1>5. heap'.verts = heap.verts
  BY <1>1 DEF SameVertexFields
<1>6. a \in ArcsOf(heap)[g]
  BY <1>0, ArcsOfGraph
<1> QED BY <1>4, <1>5, <1>6 DEF MG!Disconnect

(* Shared by the two ways of moving an edge.                               *)
LEMMA RefineMove ==
  ASSUME Sound(heap), NEW g \in GraphId, NEW e \in heap.edges[g],
         NEW s \in Vertex, NEW t \in Vertex,
         s = heap.src[e] \/ t = heap.tgt[e],
         heap' \in Heaps, MoveEffect(heap', heap, e, s, t), SameVertexFields(heap', heap)
  PROVE  \E a \in ArcsOf(heap)[g] : MG!Move(g, a, s, t)
<1> DEFINE a == ArcOf(heap, e)
           b == MG!Arc(a.edge, s, t)
<1>0. e \in Edge
  BY PlacedEdgeHasEnds
<1>1. /\ \A f \in Edge : f # e => ArcOf(heap', f) = ArcOf(heap, f)
      /\ ArcOf(heap', e) = b
  BY <1>0 DEF MoveEffect, ArcOf, MG!Arc
<1>2. ASSUME NEW k \in GraphId
      PROVE  ArcsOf(heap')[k] = IF k = g THEN (ArcsOf(heap)[g] \ {a}) \cup {b}
                                         ELSE ArcsOf(heap)[k]
  <2>1. heap'.edges[k] = heap.edges[k] /\ heap.edges[k] \subseteq Edge
    BY DEF MoveEffect, Sound, Heaps
  <2>2. k # g => e \notin heap.edges[k]
    BY DEF Sound, Coherent, OneOwner
  <2>3. /\ ArcsOf(heap')[k] = {ArcOf(heap', f) : f \in heap'.edges[k]}
        /\ ArcsOf(heap)[k]  = {ArcOf(heap, f) : f \in heap.edges[k]}
    BY ArcsOfGraph
  <2>4. \A f \in Edge : ArcOf(heap, f) = a => f = e
    BY DEF ArcOf
  <2> HIDE DEF a, b
  <2>5. CASE k # g
    BY <1>1, <2>1, <2>2, <2>3, <2>5
  <2>6. CASE k = g
    BY <1>1, <2>1, <2>3, <2>4, <2>6 DEF a
  <2> QED BY <2>5, <2>6
<1>3. ArcsOf(heap') = [ArcsOf(heap) EXCEPT ![g] = (ArcsOf(heap)[g] \ {a}) \cup {b}]
  BY <1>2, ArcsChange
<1>4. heap'.verts = heap.verts
  BY DEF SameVertexFields
<1>5. a \in ArcsOf(heap)[g]
  BY ArcsOfGraph
<1>6. s = a.from \/ t = a.to
  BY DEF ArcOf
<1> QED BY <1>3, <1>4, <1>5, <1>6 DEF MG!Move

LEMMA RefineMoveSource ==
  ASSUME Sound(heap), NEW g \in GraphId, NEW e \in Edge, NEW s \in Vertex,
         MoveSource(g, e, s)
  PROVE  \E a \in ArcsOf(heap)[g] : \E t \in Vertex : MG!Move(g, a, s, t)
<1>1. heap.tgt[e] \in Vertex /\ e \in heap.edges[g]
  BY PlacedEdgeHasEnds DEF MoveSource
<1>2. /\ heap' \in Heaps
      /\ MoveEffect(heap', heap, e, s, heap.tgt[e])
      /\ SameVertexFields(heap', heap)
  BY ChangeSourceFields DEF MoveSource, Sound, Coherent
<1>3. \E a \in ArcsOf(heap)[g] : MG!Move(g, a, s, heap.tgt[e])
  BY <1>1, <1>2, RefineMove
<1> QED BY <1>1, <1>3

LEMMA RefineMoveTarget ==
  ASSUME Sound(heap), NEW g \in GraphId, NEW e \in Edge, NEW t \in Vertex,
         MoveTarget(g, e, t)
  PROVE  \E a \in ArcsOf(heap)[g] : \E s \in Vertex : MG!Move(g, a, s, t)
<1>1. heap.src[e] \in Vertex /\ e \in heap.edges[g]
  BY PlacedEdgeHasEnds DEF MoveTarget
<1>2. /\ heap' \in Heaps
      /\ MoveEffect(heap', heap, e, heap.src[e], t)
      /\ SameVertexFields(heap', heap)
  BY ChangeTargetFields DEF MoveTarget, Sound, Coherent
<1>3. \E a \in ArcsOf(heap)[g] : MG!Move(g, a, heap.src[e], t)
  BY <1>1, <1>2, RefineMove
<1> QED BY <1>1, <1>3

(* Every call is one abstract operation or, for the failing AddVertex,     *)
(* none.                                                                   *)
LEMMA RefineStep == GraphInv /\ [Next]_vars => [MG!Next]_(MG!vars)
<1> SUFFICES ASSUME Sound(heap), [Next]_vars
             PROVE  MG!Next \/ UNCHANGED MG!vars
  BY GraphInvIsSound
<1>1. ASSUME NEW g \in GraphId, NEW v \in Vertex, AddNewVertex(g, v)
      PROVE  MG!Next
  BY <1>1, RefineAdd DEF MG!Next
<1>2. ASSUME NEW g \in GraphId, NEW v \in Vertex, AddVertexAgain(g, v)
      PROVE  UNCHANGED MG!vars
  BY <1>2, RefineAddAgain
<1>3. ASSUME NEW g \in GraphId, NEW v \in Vertex, RemoveAnyVertex(g, v)
      PROVE  MG!Next
  BY <1>3, RefineRemove DEF MG!Next
<1>4. ASSUME NEW g \in GraphId, NEW v \in Vertex, NEW new \in Vertex,
             ReplaceByNew(g, v, new)
      PROVE  MG!Next
  BY <1>4, RefineReplace DEF MG!Next
<1>5. ASSUME NEW g \in GraphId, NEW e \in Edge, NEW s \in Vertex, NEW t \in Vertex,
             AddNewEdge(g, s, t, e)
      PROVE  MG!Next
  BY <1>5, RefineConnect DEF MG!Next
<1>6. ASSUME NEW g \in GraphId, NEW e \in Edge, RemoveOwnEdge(g, e)
      PROVE  MG!Next
  BY <1>6, RefineDisconnect DEF MG!Next
<1>7. ASSUME NEW g \in GraphId, NEW e \in Edge, NEW v \in Vertex, MoveSource(g, e, v)
      PROVE  MG!Next
  BY <1>7, RefineMoveSource DEF MG!Next
<1>8. ASSUME NEW g \in GraphId, NEW e \in Edge, NEW v \in Vertex, MoveTarget(g, e, v)
      PROVE  MG!Next
  BY <1>8, RefineMoveTarget DEF MG!Next
<1>9. CASE UNCHANGED vars
  BY <1>9 DEF vars, MG!vars
<1> QED BY <1>1, <1>2, <1>3, <1>4, <1>5, <1>6, <1>7, <1>8, <1>9 DEF Next

(* The container implements the multigraph: no call loses an arc, attaches *)
(* one to the wrong vertex or leaves one with the vertex it has replaced.  *)
THEOREM RefinesMultigraph == Spec => ImplementsMultigraph
<1>1. Init => MG!Init
  BY DEF Init, EmptyHeap, ArcsOf, MG!Init
<1>2. QED
  BY <1>1, RefineStep, GraphInvariant, PTL DEF Spec, ImplementsMultigraph, MG!Spec
=============================================================================
