-------------------------- MODULE FunctionCfgProofs --------------------------
(***************************************************************************)
(* The graph CreateControlFlowGraph builds hangs together, for every       *)
(* statement list and in whatever order the hash sets of pointers are      *)
(* walked: no edge of control flow leads from or to a vertex that linking  *)
(* replaced or the removal deleted, nothing but a jump behind dead code    *)
(* is left without an in-edge, every cycle has an edge the search found,   *)
(* one pass of the removal is enough, and the graph has the control flow   *)
(* of the source.                                                          *)
(*                                                                         *)
(* The invariant follows the function phase by phase: what the lists made  *)
(* of the statements say (ListsInv), which vertices are in the graph       *)
(* (MembersInv), what the edges hang on (EdgesInv), which way leads on     *)
(* from a vertex and into it (WaysInv, EnteredInv), and what the search    *)
(* and the removal have recorded (SearchInv, PruningInv).  Two more rest   *)
(* on it: one about the colors of the search (ColorsInv), and one about    *)
(* the arms of the statements that the edges have made so far (ArmsInv).   *)
(***************************************************************************)
EXTENDS FunctionCfg, FiniteSetTheorems, WellFoundedInduction, TLAPS

(* The statements added so far, and those of them that end a block.        *)
Added == IF pc = "statements" THEN 1 .. i - 1 ELSE 1 .. Len(prog)
Jumps == {m \in Added : EndsBlock(prog[m])}

StatementsInv ==
  pc = "statements" =>
    /\ i <= Len(prog) + 1
    /\ prev = IF i = 1 THEN Entry ELSE Stmt(i - 1)
    /\ ended <=> i - 1 \in Jumps
    /\ \A m \in Added : Stmt(m) \in InGraph

(* The jumps are listed in order.                                          *)
FlowInv ==
  /\ \A n \in DOMAIN flow : flow[n] - 1 \in Jumps
  /\ \A m, n \in DOMAIN flow : m < n => flow[m] < flow[n]
  /\ \A m \in Jumps : \E n \in DOMAIN flow : flow[n] = Stmt(m)

(* What stands behind a jump is watched, together with the jump.           *)
LeadersInv ==
  /\ \A n \in DOMAIN leaders :
       /\ leaders[n].leader - 1 \in Added /\ leaders[n].leader - 2 \in Jumps
       /\ leaders[n].pred = leaders[n].leader - 1
  /\ \A m \in Added : m - 1 \in Jumps => Stmt(m) \in Watched

(* A label is known by a statement that is a label, or by EXIT.            *)
LabelsInv ==
  /\ Known("EXIT")
  /\ \A l \in Label \cup {"EXIT"} :
       \/ labelMap[l] \in {Null, Exit}
       \/ labelMap[l] - 1 \in Added /\ prog[labelMap[l] - 1].op = "label"
  /\ \A m \in Added : prog[m].op = "label" => Known(prog[m].to[1])

ListsInv == StatementsInv /\ FlowInv /\ LeadersInv /\ LabelsInv

(* A jump is in the graph by itself or by the object it was replaced by,   *)
(* and never by itself once it could be resolved.                          *)
Waiting(v) == pc = "link" /\ \E n \in DOMAIN flow : i <= n /\ flow[n] = v
MembersInv ==
  /\ Entry \in InGraph /\ Exit \in InGraph
  /\ \A v \in InGraph :
       \/ v \in {Entry, Exit}
       \/ v - 1 \in Added
       \/ v - Linked(0) \in Jumps /\ Stmt(v - Linked(0)) \notin InGraph
  /\ pc # "done" => \A m \in Added \ Jumps : Stmt(m) \in InGraph
  /\ \A v \in Vertices : Waiting(v) => v \in InGraph
  /\ TargetsDefined(prog) /\ pc # "statements" =>
       \A m \in Jumps : Stmt(m) \in InGraph => Waiting(Stmt(m))
  /\ \A v \in Vertices :
       v \in InGraph \/ v - 1 \in Added => heap.index[v] # NoIndex

(* In one heap with k edges made so far, the copies of every edge agree    *)
(* and an edge has both ends while the graph holds it.                     *)
Joined(h, k) ==
  /\ h \in Heaps /\ EndsAgree(h)
  /\ h.edges[Self] \subseteq 1 .. k
  /\ \A e \in h.edges[Self] : h.src[e] \in Vertices /\ h.tgt[e] \in Vertices
  /\ \A e \in Edges \ h.edges[Self] : h.src[e] = Null /\ h.tgt[e] = Null

EdgesInv ==
  /\ Joined(heap, Len(kinds))
  /\ \A e \in GraphEdges :
       /\ IsReal(e) => heap.src[e] \in InGraph /\ heap.tgt[e] \in InGraph
       /\ pc \in {"statements", "link"} => IsReal(e)
       /\ TargetsDefined(prog) /\ heap.src[e] \in InGraph => heap.tgt[e] \in InGraph
       /\ heap.index[heap.src[e]] # NoIndex

(* Control leads on from all vertices but EXIT and jumps not resolved.     *)
LeadsOn(v) == \E e \in GraphEdges : heap.src[e] = v /\ IsReal(e)
WaysInv ==
  \A v \in InGraph :
    \/ v = Exit \/ v - 1 \in Jumps \/ v \in doomed
    \/ pc = "statements" /\ v = prev
    \/ LeadsOn(v)

(* Every vertex has an in-edge, but for those still to get one and jumps   *)
(* that were replaced before they got one.                                 *)
HasIn(v) == \E e \in GraphEdges : heap.tgt[e] = v
EnteredInv ==
  /\ \A v \in InGraph :
       \/ HasIn(v)
       \/ v \in {Entry, Exit} /\ pc \in {"statements", "link", "leaders", "check", "selfedges"}
       \/ v \in Watched /\ pc \in {"statements", "link", "leaders"}
       \/ v - MaxLen \in Watched
       \/ v \in doomed
  /\ \A n \in DOMAIN leaders :
       pc = "check" \/ (pc = "leaders" /\ n < i) => HasIn(leaders[n].leader)
  /\ warned = {}

(* The search walks out-edges only, and leaves the graph only through a    *)
(* jump that was not resolved.                                             *)
Unsearched == {"statements", "link", "leaders", "check", "selfedges"}
SearchInv ==
  /\ pc \in Unsearched =>
       stack = <<>> /\ found = <<>> /\ \A v \in Vertices : order[v] = <<>>
  /\ pc = "dfs" =>
       /\ \A v \in Vertices : \A k \in DOMAIN order[v] : order[v][k] \in heap.outE[v]
       /\ TargetsDefined(prog) => \A n \in DOMAIN stack : stack[n].v \in InGraph
  /\ pc \in {"dfs", "mark"} =>
       \A n \in DOMAIN found :
         /\ found[n].edge \in GraphEdges
         /\ TargetsDefined(prog) =>
              /\ heap.src[found[n].edge] \in InGraph
              /\ found[n].proxy \in InGraph \cup {Null}

(* A vertex bypassed has no edge left, and one kept is needed for good.    *)
PruningInv ==
  /\ pc \notin {"redundant", "done"} => doomed = {}
  /\ pc = "redundant" =>
       /\ todo \subseteq InGraph /\ todo \cap doomed = {}
       /\ \A v \in todo \cup doomed : Removable(v)
       /\ \A v \in doomed : heap.inE[v] = {} /\ heap.outE[v] = {}
  /\ pc = "done" => InGraph \cap doomed = {}
  /\ pc \in {"redundant", "done"} =>
       \A v \in InGraph : Removable(v) =>
          v \in doomed \/ ~Redundant(heap, v) \/ (pc = "redundant" /\ v \in todo)

CfgInv ==
  /\ TypeOK /\ i >= 1
  /\ ListsInv /\ MembersInv /\ EdgesInv /\ WaysInv /\ EnteredInv /\ SearchInv /\ PruningInv

-----------------------------------------------------------------------------
(* What the operations do to one heap.                                     *)

LEMMA HeapFields ==
  ASSUME NEW h
  PROVE  h \in Heaps <=>
           /\ h = [verts |-> h.verts, edges |-> h.edges, nextId |-> h.nextId,
                   inE |-> h.inE, outE |-> h.outE, index |-> h.index,
                   src |-> h.src, tgt |-> h.tgt]
           /\ h.verts \in [{Self} -> SUBSET Vertices]
           /\ h.edges \in [{Self} -> SUBSET Edges]
           /\ h.nextId \in [{Self} -> Nat]
           /\ h.inE \in [Vertices -> SUBSET Edges]
           /\ h.outE \in [Vertices -> SUBSET Edges]
           /\ h.index \in [Vertices -> Nat \cup {NoIndex}]
           /\ h.src \in [Edges -> Vertices \cup {Null}]
           /\ h.tgt \in [Edges -> Vertices \cup {Null}]
  BY DEF Heaps, Vertices, Edges

SameEdges(g, h) ==
  /\ g.edges = h.edges /\ g.inE = h.inE /\ g.outE = h.outE
  /\ g.src = h.src /\ g.tgt = h.tgt

LEMMA AddVertexDoes ==
  ASSUME NEW h \in Heaps, NEW v \in Vertices
  PROVE  /\ AddVertex(h, Self, v) \in Heaps
         /\ SameEdges(AddVertex(h, Self, v), h)
         /\ AddVertex(h, Self, v).verts[Self] = h.verts[Self] \cup {v}
         /\ \A w \in Vertices :
              AddVertex(h, Self, v).index[w] = NoIndex => w # v /\ h.index[w] = NoIndex
<1> DEFINE n == AddVertex(h, Self, v)
<1>1. /\ n.verts = [h.verts EXCEPT ![Self] = h.verts[Self] \cup {v}]
      /\ n.index = [h.index EXCEPT ![v] = h.nextId[Self]]
      /\ n.nextId = [h.nextId EXCEPT ![Self] = h.nextId[Self] + 1]
  BY DEF AddVertex, Heaps, Vertices
<1>2. SameEdges(n, h)
  BY DEF AddVertex, Heaps, SameEdges
<1>3. h.nextId[Self] \in Nat
  BY HeapFields
<1>4. /\ n.verts \in [{Self} -> SUBSET Vertices]
      /\ n.index \in [Vertices -> Nat \cup {NoIndex}]
      /\ n.nextId \in [{Self} -> Nat]
  BY <1>1, <1>3, HeapFields
<1>6. n \in Heaps
  BY <1>2, <1>4 DEF AddVertex, Heaps, SameEdges, Vertices, Edges
<1>7. \A w \in Vertices : n.index[w] = IF w = v THEN h.nextId[Self] ELSE h.index[w]
  BY <1>1, HeapFields
<1>8. n.verts[Self] = h.verts[Self] \cup {v}
  BY <1>1, HeapFields
<1>9. \A w \in Vertices : n.index[w] = NoIndex => w # v /\ h.index[w] = NoIndex
  BY <1>3, <1>7 DEF NoIndex
<1> HIDE DEF n
<1>10. n \in Heaps /\ SameEdges(n, h)
       /\ n.verts[Self] = h.verts[Self] \cup {v}
       /\ \A w \in Vertices : n.index[w] = NoIndex => w # v /\ h.index[w] = NoIndex
  BY <1>2, <1>6, <1>8, <1>9
<1> QED BY <1>10 DEF n

LEMMA SameEdgesJoined ==
  ASSUME NEW g \in Heaps, NEW h, NEW k, Joined(h, k), SameEdges(g, h)
  PROVE  Joined(g, k)
  BY DEF Joined, SameEdges, EndsAgree

(* The vertices stay, and so do the edges; those in "new" are added.       *)
SameVertices(g, h) == g.verts = h.verts /\ g.index = h.index
Gains(g, h, new) ==
  /\ SameVertices(g, h)
  /\ g.edges[Self] = h.edges[Self] \cup new
  /\ \A e \in h.edges[Self] : g.src[e] = h.src[e] /\ g.tgt[e] = h.tgt[e]

LEMMA AddEdgeDoes ==
  ASSUME NEW h, NEW k \in Nat, Joined(h, k), k + 1 <= MaxEdges,
         NEW s \in Vertices, NEW t \in Vertices
  PROVE  /\ Joined(AddEdge(h, Self, s, t, k + 1), k + 1)
         /\ Gains(AddEdge(h, Self, s, t, k + 1), h, {k + 1})
         /\ AddEdge(h, Self, s, t, k + 1).src[k + 1] = s
         /\ AddEdge(h, Self, s, t, k + 1).tgt[k + 1] = t
<1> DEFINE n == AddEdge(h, Self, s, t, k + 1)
<1>0. h \in Heaps /\ k + 1 \in Edges /\ EndsAgree(h)
  BY BoundsAssumption DEF Joined, Edges
<1>1. /\ n.edges = [h.edges EXCEPT ![Self] = h.edges[Self] \cup {k + 1}]
      /\ n.outE = [h.outE EXCEPT ![s] = h.outE[s] \cup {k + 1}]
      /\ n.inE = [h.inE EXCEPT ![t] = h.inE[t] \cup {k + 1}]
      /\ n.src = [h.src EXCEPT ![k + 1] = s]
      /\ n.tgt = [h.tgt EXCEPT ![k + 1] = t]
      /\ n.nextId = h.nextId
  BY <1>0 DEF AddEdge, Heaps
<1>2. SameVertices(n, h)
  BY <1>0 DEF AddEdge, Heaps, SameVertices
<1> HIDE DEF n
<1>5. n \in Heaps
  <2>1. /\ n.edges \in [{Self} -> SUBSET Edges] /\ n.src \in [Edges -> Vertices \cup {Null}]
        /\ n.tgt \in [Edges -> Vertices \cup {Null}]
        /\ n.outE \in [Vertices -> SUBSET Edges] /\ n.inE \in [Vertices -> SUBSET Edges]
    BY <1>0, <1>1, HeapFields
  <2> QED BY <1>0, <2>1 DEF n, AddEdge, Heaps
<1>6. /\ n.edges[Self] = h.edges[Self] \cup {k + 1}
      /\ \A e \in Edges : /\ n.src[e] = IF e = k + 1 THEN s ELSE h.src[e]
                          /\ n.tgt[e] = IF e = k + 1 THEN t ELSE h.tgt[e]
      /\ \A v \in Vertices : /\ n.outE[v] = IF v = s THEN h.outE[v] \cup {k + 1} ELSE h.outE[v]
                             /\ n.inE[v] = IF v = t THEN h.inE[v] \cup {k + 1} ELSE h.inE[v]
  <2>1. n.edges[Self] = h.edges[Self] \cup {k + 1}
    BY <1>0, <1>1, HeapFields
  <2>2. h.src \in [Edges -> Vertices \cup {Null}] /\ h.tgt \in [Edges -> Vertices \cup {Null}]
    BY <1>0, HeapFields
  <2>3. h.inE \in [Vertices -> SUBSET Edges] /\ h.outE \in [Vertices -> SUBSET Edges]
    BY <1>0, HeapFields
  <2> QED BY <1>1, <2>1, <2>2, <2>3
<1>7. k + 1 \notin h.edges[Self] /\ h.edges[Self] \subseteq Edges
  BY <1>0, HeapFields DEF Joined
<1>8. h.src[k + 1] = Null /\ h.tgt[k + 1] = Null /\ Null \notin Vertices
  BY <1>0, <1>7 DEF Joined, Null, Vertices
<1>9. EndsAgree(n)
  <2> SUFFICES ASSUME NEW e \in Edges, NEW v \in Vertices
               PROVE  /\ e \in n.outE[v] <=> n.src[e] = v
                      /\ e \in n.inE[v]  <=> n.tgt[e] = v
    BY DEF EndsAgree, Edges, Vertices
  <2>1. /\ e \in h.outE[v] <=> h.src[e] = v
        /\ e \in h.inE[v]  <=> h.tgt[e] = v
    BY <1>0 DEF EndsAgree, Edges, Vertices
  <2>2. CASE e = k + 1
    <3>1. e \notin h.outE[v] /\ e \notin h.inE[v] /\ n.src[e] = s /\ n.tgt[e] = t
      BY <1>6, <1>8, <2>1, <2>2
    <3> QED BY <1>6, <2>2, <3>1
  <2>3. CASE e # k + 1
    <3>1. /\ n.src[e] = h.src[e] /\ n.tgt[e] = h.tgt[e]
          /\ e \in n.outE[v] <=> e \in h.outE[v]
          /\ e \in n.inE[v] <=> e \in h.inE[v]
      BY <1>6, <2>3
    <3> QED BY <2>1, <3>1
  <2> QED BY <2>2, <2>3
<1>10. n.edges[Self] \subseteq 1 .. k + 1
  BY <1>6 DEF Joined
<1>11. Joined(n, k + 1)
  <2>1. \A e \in n.edges[Self] : n.src[e] \in Vertices /\ n.tgt[e] \in Vertices
    BY <1>0, <1>6, <1>7 DEF Joined
  <2>2. \A e \in Edges \ n.edges[Self] : n.src[e] = Null /\ n.tgt[e] = Null
    BY <1>0, <1>6, <1>7 DEF Joined
  <2> QED BY <1>5, <1>9, <1>10, <2>1, <2>2 DEF Joined
<1>12. Gains(n, h, {k + 1})
  BY <1>2, <1>6, <1>7 DEF Gains
<1>13. n.src[k + 1] = s /\ n.tgt[k + 1] = t
  BY <1>0, <1>6
<1> QED BY <1>11, <1>12, <1>13 DEF n

LEMMA AddArmsDoes ==
  ASSUME NEW h, Joined(h, Len(kinds)), Len(kinds) \in Nat,
         NEW v \in Vertices, NEW labels, NEW c \in Nat, DOMAIN labels = 1 .. c,
         \A n \in 1 .. c : labelMap[labels[n]] \in Vertices,
         Len(kinds) + c <= MaxEdges
  PROVE  /\ Joined(AddArms(h, v, labels), Len(kinds) + c)
         /\ Gains(AddArms(h, v, labels), h, Len(kinds) + 1 .. Len(kinds) + c)
         /\ \A n \in 1 .. c :
              /\ AddArms(h, v, labels).src[Len(kinds) + n] = v
              /\ AddArms(h, v, labels).tgt[Len(kinds) + n] = labelMap[labels[n]]
<1> DEFINE k == Len(kinds)
           n == AddArms(h, v, labels)
           Arm == {Len(kinds) + m : m \in DOMAIN labels}
           To(e) == labelMap[labels[e - Len(kinds)]]
<1>0. h \in Heaps /\ EndsAgree(h) /\ MaxEdges \in Nat
  BY BoundsAssumption DEF Joined
<1>1. Arm = k + 1 .. k + c
  <2>1. ASSUME NEW e \in k + 1 .. k + c PROVE e \in Arm
    <3>1. e - k \in 1 .. c /\ e = k + (e - k)
      OBVIOUS
    <3> QED BY <3>1
  <2> QED BY <2>1
<1>2. Arm \subseteq Edges /\ \A e \in Arm : To(e) \in Vertices
  <2>1. ASSUME NEW e \in Arm PROVE e \in Edges /\ e - k \in 1 .. c
    BY <1>0, <1>1 DEF Edges
  <2> QED BY <2>1
<1>3. n = [h EXCEPT !.outE[v] = h.outE[v] \cup Arm,
                    !.inE = [w \in Vertices |-> h.inE[w] \cup {e \in Arm : To(e) = w}],
                    !.src = [e \in Edges |-> IF e \in Arm THEN v ELSE h.src[e]],
                    !.tgt = [e \in Edges |-> IF e \in Arm THEN To(e) ELSE h.tgt[e]],
                    !.edges[Self] = h.edges[Self] \cup Arm]
  BY DEF AddArms
<1> HIDE DEF n, Arm, To
<1>4. /\ n.edges = [h.edges EXCEPT ![Self] = h.edges[Self] \cup Arm]
      /\ n.outE = [h.outE EXCEPT ![v] = h.outE[v] \cup Arm]
      /\ n.inE = [w \in Vertices |-> h.inE[w] \cup {e \in Arm : To(e) = w}]
      /\ n.src = [e \in Edges |-> IF e \in Arm THEN v ELSE h.src[e]]
      /\ n.tgt = [e \in Edges |-> IF e \in Arm THEN To(e) ELSE h.tgt[e]]
  BY <1>0, <1>3 DEF Heaps
<1>5. SameVertices(n, h)
  BY <1>0, <1>3 DEF Heaps, SameVertices
<1>6. /\ n.edges \in [{Self} -> SUBSET Edges]
      /\ n.inE \in [Vertices -> SUBSET Edges]
      /\ n.outE \in [Vertices -> SUBSET Edges]
      /\ n.src \in [Edges -> Vertices \cup {Null}]
      /\ n.tgt \in [Edges -> Vertices \cup {Null}]
  BY <1>0, <1>2, <1>4, HeapFields
<1>7. n \in Heaps
  BY <1>0, <1>3, <1>6 DEF Heaps, Vertices, Edges
<1>8. /\ n.edges[Self] = h.edges[Self] \cup Arm
      /\ \A e \in Edges : /\ n.src[e] = IF e \in Arm THEN v ELSE h.src[e]
                          /\ n.tgt[e] = IF e \in Arm THEN To(e) ELSE h.tgt[e]
      /\ \A w \in Vertices : /\ n.outE[w] = IF w = v THEN h.outE[w] \cup Arm ELSE h.outE[w]
                             /\ n.inE[w] = h.inE[w] \cup {e \in Arm : To(e) = w}
  <2>1. h.edges \in [{Self} -> SUBSET Edges] /\ h.outE \in [Vertices -> SUBSET Edges]
    BY <1>0, HeapFields
  <2> QED BY <1>4, <2>1
<1>9. h.edges[Self] \subseteq Edges /\ h.edges[Self] \cap Arm = {}
  BY <1>0, <1>1, HeapFields DEF Joined
<1>10. \A e \in Arm : h.src[e] = Null /\ h.tgt[e] = Null
  BY <1>2, <1>9 DEF Joined
<1>11. Null \notin Vertices
  BY DEF Null, Vertices
<1>12. EndsAgree(n)
  <2> SUFFICES ASSUME NEW e \in Edges, NEW w \in Vertices
               PROVE  /\ e \in n.outE[w] <=> n.src[e] = w
                      /\ e \in n.inE[w]  <=> n.tgt[e] = w
    BY DEF EndsAgree, Edges, Vertices
  <2>1. /\ e \in h.outE[w] <=> h.src[e] = w
        /\ e \in h.inE[w]  <=> h.tgt[e] = w
    BY <1>0 DEF EndsAgree, Edges, Vertices
  <2>4. e \in n.inE[w] <=> e \in h.inE[w] \/ (e \in Arm /\ To(e) = w)
    <3>1. n.inE[w] = h.inE[w] \cup {x \in Arm : To(x) = w}
      BY <1>8
    <3> QED BY <3>1
  <2>2. CASE e \in Arm
    <3>1. e \in n.outE[w] <=> n.src[e] = w
      <4>1. n.src[e] = v /\ e \notin h.outE[w]
        BY <1>8, <1>10, <1>11, <2>1, <2>2
      <4>2. n.outE[w] = IF w = v THEN h.outE[w] \cup Arm ELSE h.outE[w]
        BY <1>8
      <4> QED BY <2>2, <4>1, <4>2
    <3>2. e \notin h.inE[w] /\ n.tgt[e] = To(e)
      BY <1>8, <1>10, <1>11, <2>1, <2>2
    <3> QED BY <2>2, <2>4, <3>1, <3>2
  <2>3. CASE e \notin Arm
    BY <1>8, <2>1, <2>3, <2>4
  <2> QED BY <2>2, <2>3
<1>13. Joined(n, k + c)
  <2>1. n.edges[Self] \subseteq 1 .. k + c
    BY <1>1, <1>8 DEF Joined
  <2>2. \A e \in n.edges[Self] : n.src[e] \in Vertices /\ n.tgt[e] \in Vertices
    BY <1>2, <1>8, <1>9 DEF Joined
  <2>3. \A e \in Edges \ n.edges[Self] : n.src[e] = Null /\ n.tgt[e] = Null
    BY <1>8 DEF Joined
  <2> QED BY <1>7, <1>12, <2>1, <2>2, <2>3 DEF Joined
<1>14. Gains(n, h, k + 1 .. k + c)
  <2>1. \A e \in h.edges[Self] : n.src[e] = h.src[e] /\ n.tgt[e] = h.tgt[e]
    BY <1>8, <1>9
  <2> QED BY <1>1, <1>5, <1>8, <2>1 DEF Gains
<1>15. ASSUME NEW m \in 1 .. c
       PROVE  n.src[k + m] = v /\ n.tgt[k + m] = labelMap[labels[m]]
  <2>1. k + m \in Arm /\ (k + m) - k = m
    BY <1>1
  <2>2. To(k + m) = labelMap[labels[m]]
    BY <2>1 DEF To
  <2> QED BY <1>2, <1>8, <2>1, <2>2
<1> QED BY <1>13, <1>14, <1>15 DEF n

LEMMA ReplaceVertexDoes ==
  ASSUME NEW h, NEW k, Joined(h, k), NEW old \in Vertices, NEW new \in Vertices,
         old # new, h.inE[new] = {}, h.outE[new] = {}
  PROVE  LET n == ReplaceVertex(h, Self, old, new) IN
         /\ Joined(n, k) /\ n.edges = h.edges
         /\ n.verts[Self] = (h.verts[Self] \cup {new}) \ {old}
         /\ \A e \in Edges : /\ n.src[e] = IF h.src[e] = old THEN new ELSE h.src[e]
                             /\ n.tgt[e] = IF h.tgt[e] = old THEN new ELSE h.tgt[e]
         /\ \A w \in Vertices : n.index[w] = NoIndex => w # new /\ h.index[w] = NoIndex
<1> DEFINE a == AddVertex(h, Self, new)
           b == TransferOwnedResources(a, old, new)
           n == RemoveVertex(b, Self, old)
<1>0. h \in Heaps /\ EndsAgree(h)
  BY DEF Joined
<1>1. /\ a \in Heaps /\ SameEdges(a, h)
      /\ a.verts[Self] = h.verts[Self] \cup {new}
      /\ \A w \in Vertices : a.index[w] = NoIndex => w # new /\ h.index[w] = NoIndex
  BY <1>0, AddVertexDoes
<1>2. n = ReplaceVertex(h, Self, old, new)
  BY DEF ReplaceVertex
<1> HIDE DEF a
<1>3. /\ b.verts = a.verts /\ b.index = a.index /\ b.edges = a.edges
      /\ b.src = [e \in Edges |-> IF e \in a.outE[old] THEN new ELSE a.src[e]]
      /\ b.tgt = [e \in Edges |-> IF e \in a.inE[old] THEN new ELSE a.tgt[e]]
      /\ b.outE = [a.outE EXCEPT ![old] = a.outE[new], ![new] = a.outE[old]]
      /\ b.inE = [a.inE EXCEPT ![old] = a.inE[new], ![new] = a.inE[old]]
  BY <1>1 DEF TransferOwnedResources, Heaps, Edges
<1>4. b \in Heaps
  BY <1>1 DEF TransferOwnedResources, Heaps, Vertices, Edges
<1> HIDE DEF b
<1>5. SameEdges(n, b) /\ n.index = b.index
      /\ n.verts = [b.verts EXCEPT ![Self] = b.verts[Self] \ {old}]
  BY <1>4 DEF RemoveVertex, Heaps, SameEdges
<1>6. n \in Heaps
  BY <1>4 DEF RemoveVertex, Heaps
<1> HIDE DEF n
<1>7. n.verts[Self] = (h.verts[Self] \cup {new}) \ {old}
  BY <1>1, <1>3, <1>4, <1>5, HeapFields
<1>8. \A w \in Vertices : n.index[w] = NoIndex => w # new /\ h.index[w] = NoIndex
  BY <1>1, <1>3, <1>5
<1>9. n.edges = h.edges
  BY <1>1, <1>3, <1>5 DEF SameEdges
<1>10. \A e \in Edges : /\ e \in h.outE[old] <=> h.src[e] = old
                        /\ e \in h.inE[old] <=> h.tgt[e] = old
  BY <1>0 DEF EndsAgree, Edges, Vertices
<1>11. \A e \in Edges : /\ n.src[e] = IF h.src[e] = old THEN new ELSE h.src[e]
                        /\ n.tgt[e] = IF h.tgt[e] = old THEN new ELSE h.tgt[e]
  BY <1>1, <1>3, <1>5, <1>10 DEF SameEdges
<1>12. \A v \in Vertices :
         /\ n.outE[v] = IF v = new THEN h.outE[old] ELSE IF v = old THEN {} ELSE h.outE[v]
         /\ n.inE[v] = IF v = new THEN h.inE[old] ELSE IF v = old THEN {} ELSE h.inE[v]
  <2>1. /\ a.outE = h.outE /\ a.inE = h.inE /\ n.outE = b.outE /\ n.inE = b.inE
        /\ h.outE \in [Vertices -> SUBSET Edges] /\ h.inE \in [Vertices -> SUBSET Edges]
    BY <1>0, <1>1, <1>5, HeapFields DEF SameEdges
  <2>2. old # new /\ h.outE[new] = {} /\ h.inE[new] = {}
    BY <1>0
  <2>3. \A v \in Vertices :
          n.outE[v] = IF v = new THEN h.outE[old] ELSE IF v = old THEN {} ELSE h.outE[v]
    <3>1. n.outE = [h.outE EXCEPT ![old] = {}, ![new] = h.outE[old]]
      BY <1>3, <2>1, <2>2
    <3> QED BY <2>1, <2>2, <3>1
  <2>4. \A v \in Vertices :
          n.inE[v] = IF v = new THEN h.inE[old] ELSE IF v = old THEN {} ELSE h.inE[v]
    <3>1. n.inE = [h.inE EXCEPT ![old] = {}, ![new] = h.inE[old]]
      BY <1>3, <2>1, <2>2
    <3> QED BY <2>1, <2>2, <3>1
  <2> QED BY <2>3, <2>4
<1>13. EndsAgree(n)
  <2> SUFFICES ASSUME NEW e \in Edges, NEW v \in Vertices
               PROVE  /\ e \in n.outE[v] <=> n.src[e] = v
                      /\ e \in n.inE[v]  <=> n.tgt[e] = v
    BY DEF EndsAgree, Edges, Vertices
  <2>1. \A w \in Vertices : /\ e \in h.outE[w] <=> h.src[e] = w
                            /\ e \in h.inE[w]  <=> h.tgt[e] = w
    BY <1>0 DEF EndsAgree, Edges, Vertices
  <2>2. h.src[e] # new /\ h.tgt[e] # new
    BY <2>1
  <2> QED BY <1>11, <1>12, <2>1, <2>2
<1>14. Joined(n, k)
  <2>1. n.edges[Self] \subseteq 1 .. k
    BY <1>9 DEF Joined
  <2>2. h.edges[Self] \subseteq Edges
    BY <1>0, HeapFields
  <2>3. \A e \in n.edges[Self] : n.src[e] \in Vertices /\ n.tgt[e] \in Vertices
    BY <1>9, <1>11, <2>2 DEF Joined
  <2>4. Null \notin Vertices
    BY DEF Null, Vertices
  <2>5. \A e \in Edges \ n.edges[Self] : n.src[e] = Null /\ n.tgt[e] = Null
    BY <1>9, <1>11, <2>4 DEF Joined
  <2> QED BY <1>6, <1>13, <2>1, <2>3, <2>5 DEF Joined
<1> QED BY <1>2, <1>7, <1>8, <1>9, <1>11, <1>14

(* The vertex bypassed has no edges afterwards; what led to it leads to    *)
(* what it led to.                                                         *)
Bypassed(n, h, k, v, a, b) ==
  /\ Joined(n, k) /\ SameVertices(n, h)
  /\ a \in h.edges[Self] /\ b \in h.edges[Self]
  /\ n.edges[Self] = h.edges[Self] \ {b}
  /\ \A e \in n.edges[Self] :
       /\ n.src[e] = h.src[e]
       /\ n.tgt[e] = IF e = a THEN h.tgt[b] ELSE h.tgt[e]
  /\ n.inE[v] = {} /\ n.outE[v] = {}
  /\ \A w \in Vertices \ {v} :
       /\ n.outE[w] = h.outE[w]
       /\ n.inE[w] = IF b \in h.inE[w] THEN (h.inE[w] \ {b}) \cup {a} ELSE h.inE[w]

LEMMA BypassDoes ==
  ASSUME NEW h, NEW k, Joined(h, k), NEW v \in Vertices, NEW a, NEW b,
         h.inE[v] = {a}, h.outE[v] = {b}
  PROVE  Bypassed(Bypass(h, v), h, k, v, a, b)
<1> DEFINE m == ChangeTarget(h, a, h.tgt[b])
           n == RemoveEdge(m, Self, b)
<1>0. h \in Heaps /\ EndsAgree(h)
  BY DEF Joined
<1>1. a \in Edges /\ b \in Edges /\ h.tgt[a] = v /\ h.src[b] = v
  <2>1. h.inE[v] \subseteq Edges /\ h.outE[v] \subseteq Edges
    BY <1>0, HeapFields
  <2>2. a \in h.inE[v] /\ b \in h.outE[v]
    OBVIOUS
  <2> QED BY <1>0, <2>1, <2>2 DEF EndsAgree, Edges, Vertices
<1>2. Null \notin Vertices
  BY DEF Null, Vertices
<1>3. a \in h.edges[Self] /\ b \in h.edges[Self] /\ h.src[a] \in Vertices /\ h.tgt[b] \in Vertices
  BY <1>1, <1>2 DEF Joined
<1>4. n = Bypass(h, v)
  <2>1. \A x : x \in h.inE[v] <=> x = a
    OBVIOUS
  <2>2. \A x : x \in h.outE[v] <=> x = b
    OBVIOUS
  <2>3. (CHOOSE e \in h.inE[v] : TRUE) = a
    BY <2>1
  <2>4. (CHOOSE e \in h.outE[v] : TRUE) = b
    BY <2>2
  <2> QED BY <2>3, <2>4 DEF Bypass
<1>5. /\ m \in Heaps /\ SameVertices(m, h) /\ m.edges = h.edges
      /\ m.outE = h.outE /\ m.src = h.src
      /\ m.tgt = [h.tgt EXCEPT ![a] = h.tgt[b]]
      /\ \A w \in Vertices : \A e \in Edges :
           e \in m.inE[w] <=> IF e = a THEN w = h.tgt[b] ELSE e \in h.inE[w]
  <2>1. m \in Heaps
    BY <1>0, <1>1, <1>3 DEF ChangeTarget, Heaps, Vertices, Edges
  <2>2. /\ SameVertices(m, h) /\ m.edges = h.edges
        /\ m.outE = h.outE /\ m.src = h.src
        /\ m.tgt = [h.tgt EXCEPT ![a] = h.tgt[b]]
    BY <1>0 DEF ChangeTarget, Heaps, SameVertices
  <2>3. \A w \in Vertices : m.inE[w] =
           (IF w = h.tgt[a] THEN h.inE[w] \ {a} ELSE h.inE[w])
           \cup (IF w = h.tgt[b] THEN {a} ELSE {})
    BY <1>0 DEF ChangeTarget, Heaps, Vertices
  <2>4. \A w \in Vertices : a \in h.inE[w] <=> h.tgt[a] = w
    BY <1>0, <1>1 DEF EndsAgree, Edges, Vertices
  <2> QED BY <2>1, <2>2, <2>3, <2>4
<1>6. \A e \in Edges : m.tgt[e] = IF e = a THEN h.tgt[b] ELSE h.tgt[e]
  BY <1>0, <1>5, HeapFields
<1>7. m.src[b] = v /\ m.tgt[b] = h.tgt[b]
  BY <1>1, <1>5, <1>6
<1> HIDE DEF m
<1>8. /\ n \in Heaps /\ SameVertices(n, m)
      /\ n.edges = [m.edges EXCEPT ![Self] = m.edges[Self] \ {b}]
      /\ n.outE = [m.outE EXCEPT ![v] = m.outE[v] \ {b}]
      /\ n.inE = [m.inE EXCEPT ![h.tgt[b]] = m.inE[h.tgt[b]] \ {b}]
      /\ n.src = [m.src EXCEPT ![b] = Null]
      /\ n.tgt = [m.tgt EXCEPT ![b] = Null]
  <2>1. n \in Heaps
    BY <1>1, <1>3, <1>5, <1>7 DEF RemoveEdge, Heaps, Edges, Vertices
  <2> QED BY <1>5, <1>7, <2>1 DEF RemoveEdge, Heaps, SameVertices
<1> HIDE DEF n
<1>9. SameVertices(n, h)
  BY <1>5, <1>8 DEF SameVertices
<1>10. n.edges[Self] = h.edges[Self] \ {b} /\ h.edges[Self] \subseteq Edges
  BY <1>0, <1>5, <1>8, HeapFields
<1>11. \A e \in Edges :
         /\ n.src[e] = IF e = b THEN Null ELSE h.src[e]
         /\ n.tgt[e] = IF e = b THEN Null ELSE IF e = a THEN h.tgt[b] ELSE h.tgt[e]
  <2>1. m.src \in [Edges -> Vertices \cup {Null}] /\ m.tgt \in [Edges -> Vertices \cup {Null}]
    BY <1>5, HeapFields
  <2> QED BY <1>5, <1>6, <1>8, <2>1
<1>12. \A w \in Vertices :
         /\ n.outE[w] = IF w = v THEN h.outE[w] \ {b} ELSE h.outE[w]
         /\ n.inE[w] = IF w = h.tgt[b] THEN m.inE[w] \ {b} ELSE m.inE[w]
  <2>1. DOMAIN m.inE = Vertices /\ DOMAIN m.outE = Vertices
    BY <1>5, HeapFields
  <2> SUFFICES ASSUME NEW w \in Vertices
               PROVE  /\ n.outE[w] = IF w = v THEN h.outE[w] \ {b} ELSE h.outE[w]
                      /\ n.inE[w] = IF w = h.tgt[b] THEN m.inE[w] \ {b} ELSE m.inE[w]
    OBVIOUS
  <2>2. n.outE[w] = IF w = v THEN m.outE[w] \ {b} ELSE m.outE[w]
    BY <1>8, <2>1
  <2>3. n.inE[w] = IF w = h.tgt[b] THEN m.inE[w] \ {b} ELSE m.inE[w]
    BY <1>8, <2>1
  <2> QED BY <1>5, <2>2, <2>3
<1>13. \A w \in Vertices : \A e \in Edges :
         e \in n.inE[w] <=> e # b /\ IF e = a THEN w = h.tgt[b] ELSE e \in h.inE[w]
  <2> SUFFICES ASSUME NEW w \in Vertices, NEW e \in Edges
               PROVE  e \in n.inE[w] <=> e # b /\ IF e = a THEN w = h.tgt[b] ELSE e \in h.inE[w]
    OBVIOUS
  <2>1. b \in h.inE[w] <=> h.tgt[b] = w
    BY <1>0, <1>1 DEF EndsAgree, Edges, Vertices
  <2>2. e \in m.inE[w] <=> IF e = a THEN w = h.tgt[b] ELSE e \in h.inE[w]
    BY <1>5
  <2>3. n.inE[w] = IF w = h.tgt[b] THEN m.inE[w] \ {b} ELSE m.inE[w]
    BY <1>12
  <2>4. e \in n.inE[w] <=> e \in m.inE[w] /\ ~(e = b /\ w = h.tgt[b])
    BY <2>3
  <2> QED BY <2>1, <2>2, <2>4
<1>14. EndsAgree(n)
  <2> SUFFICES ASSUME NEW e \in Edges, NEW w \in Vertices
               PROVE  /\ e \in n.outE[w] <=> n.src[e] = w
                      /\ e \in n.inE[w]  <=> n.tgt[e] = w
    BY DEF EndsAgree, Edges, Vertices
  <2>1. /\ e \in h.outE[w] <=> h.src[e] = w
        /\ e \in h.inE[w]  <=> h.tgt[e] = w
    BY <1>0 DEF EndsAgree, Edges, Vertices
  <2>2. e \in n.outE[w] <=> n.src[e] = w
    <3>1. n.outE[w] = IF w = v THEN h.outE[w] \ {b} ELSE h.outE[w]
      BY <1>12
    <3>2. n.src[e] = IF e = b THEN Null ELSE h.src[e]
      BY <1>11
    <3> QED BY <1>1, <1>2, <2>1, <3>1, <3>2
  <2>3. e \in n.inE[w] <=> n.tgt[e] = w
    BY <1>1, <1>2, <1>11, <1>13, <2>1
  <2> QED BY <2>2, <2>3
<1>15. Joined(n, k)
  <2>1. n.edges[Self] \subseteq 1 .. k
    BY <1>10 DEF Joined
  <2>2. \A e \in n.edges[Self] : n.src[e] \in Vertices /\ n.tgt[e] \in Vertices
    BY <1>3, <1>10, <1>11 DEF Joined
  <2>3. \A e \in Edges \ n.edges[Self] : n.src[e] = Null /\ n.tgt[e] = Null
    <3> SUFFICES ASSUME NEW e \in Edges \ n.edges[Self]
                 PROVE  n.src[e] = Null /\ n.tgt[e] = Null
      OBVIOUS
    <3>1. e = b \/ (e \notin h.edges[Self] /\ e # a)
      BY <1>3, <1>10
    <3> QED BY <1>11, <3>1 DEF Joined
  <2> QED BY <1>8, <1>14, <2>1, <2>2, <2>3 DEF Joined
<1>16. n.inE[v] = {} /\ n.outE[v] = {}
  <2>1. n.outE[v] = {}
    BY <1>12
  <2>2. n.inE[v] \subseteq Edges
    BY <1>8, HeapFields
  <2>3. ASSUME NEW e \in Edges, e \in n.inE[v] PROVE FALSE
    <3>1. e # b /\ (e = a => h.tgt[b] = v) /\ (e # a => e \in h.inE[v])
      BY <1>13, <2>3
    <3>2. e = a /\ b # a /\ h.tgt[b] = v
      BY <3>1
    <3>3. b \in h.inE[v]
      BY <1>0, <1>1, <3>2 DEF EndsAgree, Edges, Vertices
    <3> QED BY <3>2, <3>3
  <2> QED BY <2>1, <2>2, <2>3
<1>17. ASSUME NEW w \in Vertices \ {v}
       PROVE  /\ n.outE[w] = h.outE[w]
              /\ n.inE[w] = IF b \in h.inE[w] THEN (h.inE[w] \ {b}) \cup {a} ELSE h.inE[w]
  <2>1. n.outE[w] = h.outE[w]
    BY <1>12
  <2>2. n.inE[w] \subseteq Edges /\ h.inE[w] \subseteq Edges
    BY <1>0, <1>8, HeapFields
  <2>3. b \in h.inE[w] <=> h.tgt[b] = w
    BY <1>0, <1>1 DEF EndsAgree, Edges, Vertices
  <2>4. a \notin h.inE[w]
    BY <1>0, <1>1 DEF EndsAgree, Edges, Vertices
  <2>5. a = b => h.tgt[b] # w
    BY <1>1
  <2>6. \A e \in Edges : e \in n.inE[w] <=>
          e \in IF b \in h.inE[w] THEN (h.inE[w] \ {b}) \cup {a} ELSE h.inE[w]
    BY <1>13, <2>3, <2>4, <2>5
  <2> QED BY <1>1, <2>1, <2>2, <2>6
<1>18. \A e \in n.edges[Self] : /\ n.src[e] = h.src[e]
                                /\ n.tgt[e] = IF e = a THEN h.tgt[b] ELSE h.tgt[e]
  BY <1>10, <1>11
<1>19. Bypassed(n, h, k, v, a, b)
  BY <1>3, <1>9, <1>10, <1>15, <1>16, <1>17, <1>18 DEF Bypassed
<1> QED BY <1>4, <1>19

-----------------------------------------------------------------------------
(* What the statements are.                                                *)

LEMMA TheProgram ==
  ASSUME TypeOK
  PROVE  /\ MaxLen \in Nat /\ MaxEdges \in Nat
         /\ Len(prog) \in 0 .. MaxLen /\ DOMAIN prog = 1 .. Len(prog)
         /\ \A m \in 1 .. Len(prog) : prog[m] \in Statement
<1>1. prog \in Seq(Statement) /\ Len(prog) <= MaxLen
  BY ProgramsAssumption DEF TypeOK
<1>2. MaxLen \in Nat /\ MaxEdges \in Nat
  BY BoundsAssumption
<1> HIDE DEF Statement
<1> QED BY <1>1, <1>2

LEMMA TheStatement ==
  ASSUME NEW s \in Statement
  PROVE  /\ s.to \in Seq(Label)
         /\ s.op = "label" => Len(s.to) = 1
         /\ s.op \in {"goto", "if", "switch"} => Len(s.to) >= 1
         /\ s.op \in {"plain", "label", "goto", "return", "if", "switch"}
<1>1. s \in [op : Op, to : Seq(Label)]
  BY DEF Statement
<1>2. s.op \in Op /\ s.to \in Seq(Label)
  BY <1>1
<1>3. /\ s.op \in {"label", "goto"}   => Len(s.to) = 1
      /\ s.op = "if"                  => Len(s.to) = 2
      /\ s.op = "switch"              => Len(s.to) >= 1
  BY DEF Statement
<1> QED BY <1>2, <1>3 DEF Op

LEMMA LeastNatural ==
  ASSUME NEW S \in SUBSET Nat, S # {}
  PROVE  \E m \in S : \A n \in S : m <= n
<1>1. PICK m \in S : \A n \in S : ~(<<n, m>> \in OpToRel(<, Nat))
  BY NatLessThanWellFounded, WFMin
<1>2. \A n \in S : ~(n < m)
  BY <1>1 DEF OpToRel
<1> QED
  BY <1>2

LEMMA GreatestNatural ==
  ASSUME NEW S \in SUBSET Nat, S # {}, NEW b \in Nat, \A n \in S : n <= b
  PROVE  \E m \in S : \A n \in S : n <= m
<1> DEFINE T == {b - n : n \in S}
<1>1. T \in SUBSET Nat /\ T # {}
  <2>1. \A n \in S : n \in Nat /\ n <= b
    OBVIOUS
  <2>2. \A n \in S : b - n \in Nat
    BY <2>1
  <2> QED BY <2>2
<1>2. PICK t \in T : \A u \in T : t <= u
  <2> HIDE DEF T
  <2> QED BY <1>1, LeastNatural
<1>3. PICK m \in S : t = b - m
  BY <1>2
<1>4. \A n \in S : b - m <= b - n
  BY <1>2, <1>3
<1> QED BY <1>3, <1>4

LEMMA SequencesOf ==
  ASSUME NEW S, NEW f
  PROVE  f \in SX!SetToSeqs(S) <=>
           /\ f \in [1 .. Cardinality(S) -> S]
           /\ \A m, n \in 1 .. Cardinality(S) : m # n => f[m] # f[n]
<1>1. SX!Cardinality(S) = Cardinality(S)
  BY Zenon DEF SX!Cardinality, Cardinality
<1> QED BY <1>1 DEF SX!SetToSeqs

InOrder(at) == \A m, n \in DOMAIN at : m < n => at[m] < at[n]

LEMMA PositionsAreFinite ==
  ASSUME NEW b \in Nat, NEW T \in SUBSET (1 .. b)
  PROVE  IsFiniteSet(T) /\ Cardinality(T) \in Nat
<1>1. IsFiniteSet(1 .. b)
  BY FS_Interval
<1>2. IsFiniteSet(T)
  BY <1>1, FS_Subset
<1> QED BY <1>2, FS_CardinalityType

(* The positions up to a bound can be listed from the first to the last.   *)
LEMMA OrderExists ==
  ASSUME NEW b \in Nat, NEW S \in SUBSET (1 .. b)
  PROVE  \E at \in SX!SetToSeqs(S) : InOrder(at)
<1> DEFINE Bad == {n \in Nat : \E T \in SUBSET (1 .. b) :
                      /\ Cardinality(T) = n
                      /\ \A at \in SX!SetToSeqs(T) : ~InOrder(at)}
<1>1. \A T \in SUBSET (1 .. b) : IsFiniteSet(T) /\ Cardinality(T) \in Nat
  BY PositionsAreFinite
<1> SUFFICES ASSUME \A at \in SX!SetToSeqs(S) : ~InOrder(at) PROVE FALSE
  OBVIOUS
<1>2. PICK c \in Bad : \A n \in Bad : c <= n
  <2>1. Cardinality(S) \in Bad
    BY <1>1
  <2>2. Bad \in SUBSET Nat /\ Bad # {}
    BY <2>1
  <2> HIDE DEF Bad
  <2> QED BY <2>2, LeastNatural
<1>3. PICK T \in SUBSET (1 .. b) : /\ Cardinality(T) = c
                                   /\ \A at \in SX!SetToSeqs(T) : ~InOrder(at)
  BY <1>2
<1>4. T # {}
  <2> SUFFICES ASSUME T = {} PROVE FALSE
    OBVIOUS
  <2>1. Cardinality(T) = 0
    BY FS_EmptySet
  <2>2. <<>> \in [1 .. 0 -> T] /\ 1 .. 0 = {}
    OBVIOUS
  <2>3. <<>> \in SX!SetToSeqs(T)
    BY <2>1, <2>2, SequencesOf
  <2>4. InOrder(<<>>)
    BY DEF InOrder
  <2> QED BY <1>3, <2>3, <2>4
<1>5. PICK top \in T : \A n \in T : n <= top
  <2>1. T \in SUBSET Nat /\ \A n \in T : n <= b
    OBVIOUS
  <2> QED BY <1>4, <2>1, GreatestNatural
<1> DEFINE U == T \ {top}
<1>6. c \in Nat \ {0} /\ Cardinality(U) = c - 1 /\ U \in SUBSET (1 .. b)
  BY <1>1, <1>3, <1>4, FS_RemoveElement, FS_EmptySet
<1>7. PICK at \in SX!SetToSeqs(U) : InOrder(at)
  <2>1. c - 1 \notin Bad
    BY <1>2, <1>6
  <2> QED BY <1>6, <2>1
<1>8. /\ at \in [1 .. c - 1 -> U]
      /\ \A m, n \in 1 .. c - 1 : m # n => at[m] # at[n]
  BY <1>6, <1>7, SequencesOf
<1> DEFINE all == [n \in 1 .. c |-> IF n = c THEN top ELSE at[n]]
<1>9. \A n \in 1 .. c : n # c => n \in 1 .. c - 1 /\ at[n] \in T /\ at[n] # top /\ at[n] \in Nat
  <2> SUFFICES ASSUME NEW n \in 1 .. c, n # c
               PROVE  n \in 1 .. c - 1 /\ at[n] \in T /\ at[n] # top /\ at[n] \in Nat
    OBVIOUS
  <2>1. n \in 1 .. c - 1
    BY <1>6
  <2>2. at[n] \in U
    BY <1>8, <2>1
  <2>3. at[n] \in T /\ at[n] # top
    BY <2>2
  <2>4. T \subseteq Nat
    OBVIOUS
  <2> HIDE DEF U
  <2> QED BY <2>1, <2>3, <2>4
<1>10. all \in [1 .. c -> T]
  BY <1>5, <1>9
<1>11. \A m, n \in 1 .. c : m < n => all[m] < all[n]
  <2> SUFFICES ASSUME NEW m \in 1 .. c, NEW n \in 1 .. c, m < n PROVE all[m] < all[n]
    OBVIOUS
  <2>1. m # c /\ m \in 1 .. c - 1 /\ all[m] = at[m]
    BY <1>6, <1>9
  <2>2. CASE n = c
    <3>1. all[n] = top /\ at[m] # top /\ at[m] <= top /\ top \in Nat /\ at[m] \in Nat
      BY <1>5, <1>9, <2>1, <2>2
    <3> QED BY <2>1, <3>1
  <2>3. CASE n # c
    BY <1>7, <1>8, <1>9, <2>1, <2>3 DEF InOrder
  <2> QED BY <2>2, <2>3
<1>12. \A m, n \in 1 .. c : m # n => all[m] # all[n]
  <2> SUFFICES ASSUME NEW m \in 1 .. c, NEW n \in 1 .. c, m # n PROVE all[m] # all[n]
    OBVIOUS
  <2>1. all[m] \in Nat /\ all[n] \in Nat /\ (m < n \/ n < m)
    <3>1. all[m] \in T /\ all[n] \in T
      BY <1>10
    <3>2. all[m] \in Nat /\ all[n] \in Nat
      <4>1. T \subseteq Nat
        OBVIOUS
      <4> HIDE DEF all
      <4> QED BY <3>1, <4>1
    <3> QED BY <1>6, <3>2
  <2> HIDE DEF all
  <2> QED BY <1>11, <2>1
<1>13. all \in SX!SetToSeqs(T) /\ InOrder(all)
  <2> HIDE DEF all
  <2>1. DOMAIN all = 1 .. c
    BY <1>10
  <2>2. all \in SX!SetToSeqs(T)
    BY <1>3, <1>10, <1>12, SequencesOf
  <2> QED BY <1>11, <2>1, <2>2 DEF InOrder
<1> QED BY <1>3, <1>13

(* Every label a jump is resolved with is known, or it is EXIT; and a jump *)
(* is resolved once all its labels are known.                              *)
LEMMA TheArms ==
  ASSUME NEW s \in Statement, s.op \notin {"plain", "label"}, Known("EXIT")
  PROVE  /\ Resolved(s) \in Seq(Label \cup {"EXIT"})
         /\ \A n \in DOMAIN Resolved(s) :
              Known(Resolved(s)[n])
         /\ (\A n \in DOMAIN s.to : Known(s.to[n])) => Resolved(s) # <<>>
<1>0. /\ s.to \in Seq(Label)
      /\ s.op \in {"goto", "if", "switch"} => Len(s.to) >= 1
      /\ s.op \in {"goto", "if", "switch", "return"}
  BY TheStatement
<1>1. CASE s.op = "return"
  <2>1. Resolved(s) = <<"EXIT">>
    BY <1>1, Zenon DEF Resolved
  <2> QED BY <2>1
<1>2. CASE s.op = "switch"
  <2> DEFINE S == {n \in DOMAIN s.to : Known(s.to[n])}
             at == KnownInOrder(s)
  <2>1. DOMAIN s.to = 1 .. Len(s.to) /\ Len(s.to) \in Nat
    BY <1>0
  <2>2. at \in SX!SetToSeqs(S)
    <3>1. \E x \in SX!SetToSeqs(S) : \A m, n \in DOMAIN x : m < n => x[m] < x[n]
      BY <2>1, OrderExists DEF InOrder
    <3> QED BY <3>1 DEF KnownInOrder
  <2>3. IsFiniteSet(S) /\ Cardinality(S) \in Nat
    <3>1. S \in SUBSET (1 .. Len(s.to))
      BY <2>1
    <3> QED BY <2>1, <3>1, PositionsAreFinite
  <2>4. at \in [1 .. Cardinality(S) -> S]
    BY <2>2, SequencesOf
  <2>5. Resolved(s) = [n \in DOMAIN at |-> s.to[at[n]]]
    <3>1. s.op # "return"
      BY <1>2
    <3> QED BY <1>2, <3>1, Zenon DEF Resolved
  <2> HIDE DEF at
  <2>6. DOMAIN Resolved(s) = 1 .. Cardinality(S)
    BY <2>4, <2>5
  <2>7. ASSUME NEW n \in DOMAIN Resolved(s)
        PROVE  Resolved(s)[n] \in Label /\ Known(Resolved(s)[n])
    <3>1. n \in DOMAIN at /\ at[n] \in S /\ Resolved(s)[n] = s.to[at[n]]
      BY <2>4, <2>5, <2>6, <2>7
    <3> QED BY <1>0, <2>1, <3>1
  <2>8. ASSUME \A n \in DOMAIN s.to : Known(s.to[n]) PROVE Resolved(s) # <<>>
    <3>1. 1 \in S
      BY <1>0, <1>2, <2>1, <2>8
    <3>2. Cardinality(S) # 0
      BY <2>3, <3>1, FS_EmptySet
    <3>3. 1 \in DOMAIN Resolved(s)
      BY <2>3, <2>6, <3>2
    <3> QED BY <3>3
  <2>9. Resolved(s) \in Seq(Label \cup {"EXIT"})
    <3>1. Resolved(s) \in [1 .. Cardinality(S) -> Label \cup {"EXIT"}]
      BY <2>5, <2>6, <2>7
    <3> HIDE DEF S
    <3> QED BY <2>3, <3>1
  <2> QED BY <2>7, <2>8, <2>9
<1>3. CASE s.op \in {"goto", "if"}
  <2>1. Resolved(s) = IF \A n \in DOMAIN s.to : Known(s.to[n]) THEN s.to ELSE <<>>
    <3>1. s.op # "return" /\ s.op # "switch"
      BY <1>3
    <3> QED BY <3>1, Zenon DEF Resolved
  <2>2. CASE \A n \in DOMAIN s.to : Known(s.to[n])
    <3>1. Resolved(s) = s.to /\ Len(s.to) \in Nat /\ DOMAIN s.to = 1 .. Len(s.to)
      BY <1>0, <2>1, <2>2
    <3>2. \A n \in DOMAIN s.to : s.to[n] \in Label
      BY <1>0
    <3>3. s.to # <<>>
      BY <1>0, <1>3
    <3>4. s.to \in [1 .. Len(s.to) -> Label \cup {"EXIT"}]
      <4>1. s.to = [n \in DOMAIN s.to |-> s.to[n]]
        BY <1>0
      <4> QED BY <3>1, <3>2, <4>1
    <3>5. s.to \in Seq(Label \cup {"EXIT"})
      BY <3>1, <3>4
    <3>6. \A n \in DOMAIN Resolved(s) : Known(Resolved(s)[n])
      BY <2>2, <3>1
    <3> QED BY <3>1, <3>3, <3>5, <3>6
  <2>3. CASE ~ \A n \in DOMAIN s.to : Known(s.to[n])
    <3>1. Resolved(s) = <<>> /\ DOMAIN <<>> = 1 .. 0
      BY <2>1, <2>3
    <3>2. DOMAIN Resolved(s) = {} /\ 0 \in Nat
      BY <3>1
    <3> QED BY <2>3, <3>1, <3>2
  <2> QED BY <2>2, <2>3
<1> QED BY <1>0, <1>1, <1>2, <1>3

LEMMA ArmsAreReal ==
  ASSUME NEW s, NEW n
  PROVE  ArmKind(s, n) \in Kind \ {"Impossible"}
<1>1. ArmKind(s, n) \in {"IfTrue", "IfFalse", "Fallthrough"}
  BY Zenon DEF ArmKind
<1> QED BY <1>1 DEF Kind

-----------------------------------------------------------------------------
(* The statement loop.                                                     *)

(* The edges of the graph stay in it, where and what they are.             *)
EdgesCarried ==
  \A e \in GraphEdges :
    /\ e \in GraphEdges'
    /\ heap'.src[e] = heap.src[e] /\ heap'.tgt[e] = heap.tgt[e]
    /\ kinds'[e] = kinds[e]

LEMMA WaysCarried ==
  ASSUME EdgesCarried, NEW v
  PROVE  (LeadsOn(v) => LeadsOn(v)') /\ (HasIn(v) => HasIn(v)')
  BY DEF EdgesCarried, LeadsOn, HasIn, IsReal

LEMMA TheGraph ==
  ASSUME TypeOK
  PROVE  InGraph \subseteq Vertices /\ GraphEdges \subseteq Edges /\ heap \in Heaps
  BY HeapFields DEF TypeOK, InGraph, GraphEdges

LEMMA TheKinds ==
  ASSUME TypeOK, NEW k \in Kind, kinds' = Append(kinds, k), Room(1)
  PROVE  /\ kinds' \in Seq(Kind) /\ Len(kinds') = Len(kinds) + 1
         /\ Len(kinds') <= MaxEdges /\ Len(kinds) \in Nat
         /\ \A e \in 1 .. Len(kinds) : kinds'[e] = kinds[e]
         /\ kinds'[NewEdge] = k
  BY DEF TypeOK, Room, NewEdge

(* One edge more.                                                          *)
LEMMA OneEdgeMore ==
  ASSUME TypeOK, Joined(heap, Len(kinds)), NEW s \in Vertices, NEW t \in Vertices,
         NEW k \in Kind, kinds' = Append(kinds, k), Room(1), NEW h \in Heaps,
         SameEdges(h, heap), heap' = AddEdge(h, Self, s, t, NewEdge)
  PROVE  /\ Joined(heap', Len(kinds')) /\ heap'.verts = h.verts /\ heap'.index = h.index
         /\ EdgesCarried
         /\ GraphEdges' = GraphEdges \cup {NewEdge}
         /\ heap'.src[NewEdge] = s /\ heap'.tgt[NewEdge] = t /\ kinds'[NewEdge] = k
<1>1. /\ Len(kinds) \in Nat /\ Len(kinds') = Len(kinds) + 1 /\ Len(kinds) + 1 <= MaxEdges
      /\ \A e \in 1 .. Len(kinds) : kinds'[e] = kinds[e]
      /\ kinds'[NewEdge] = k
  BY TheKinds DEF Room
<1>2. Joined(h, Len(kinds))
  BY SameEdgesJoined
<1>3. /\ Joined(heap', Len(kinds) + 1)
      /\ Gains(heap', h, {NewEdge})
      /\ heap'.src[NewEdge] = s /\ heap'.tgt[NewEdge] = t
  <2>1. /\ Joined(AddEdge(h, Self, s, t, Len(kinds) + 1), Len(kinds) + 1)
        /\ Gains(AddEdge(h, Self, s, t, Len(kinds) + 1), h, {Len(kinds) + 1})
        /\ AddEdge(h, Self, s, t, Len(kinds) + 1).src[Len(kinds) + 1] = s
        /\ AddEdge(h, Self, s, t, Len(kinds) + 1).tgt[Len(kinds) + 1] = t
    BY <1>1, <1>2, AddEdgeDoes
  <2> QED BY <2>1 DEF NewEdge
<1>4. GraphEdges' = GraphEdges \cup {NewEdge}
  BY <1>3 DEF Gains, SameEdges, GraphEdges
<1>5. EdgesCarried
  BY <1>1, <1>3, <1>4 DEF Gains, SameEdges, EdgesCarried, GraphEdges, Joined
<1> QED BY <1>1, <1>3, <1>4, <1>5 DEF Gains, SameVertices

(* What a statement adds to the graph.                                     *)
LEMMA StatementAdded ==
  ASSUME CfgInv, AddStatement
  PROVE  /\ pc = "statements" /\ pc' = pc /\ i \in 1 .. Len(prog) /\ i' = i + 1
         /\ Stmt(i) \in Vertices /\ prev \in Vertices /\ prev \in InGraph
         /\ Joined(heap', Len(kinds')) /\ InGraph' = InGraph \cup {Stmt(i)}
         /\ \A w \in Vertices : heap'.index[w] = NoIndex => w # Stmt(i) /\ heap.index[w] = NoIndex
         /\ EdgesCarried
         /\ kinds' \in Seq(Kind) /\ Len(kinds') <= MaxEdges /\ Len(kinds) <= Len(kinds')
         /\ ended => GraphEdges' = GraphEdges
         /\ ~ended => /\ GraphEdges' = GraphEdges \cup {NewEdge}
                      /\ heap'.src[NewEdge] = prev /\ heap'.tgt[NewEdge] = Stmt(i)
                      /\ kinds'[NewEdge] = "Fallthrough"
<1> DEFINE v == Stmt(i)
           added == AddVertex(heap, Self, v)
<1>0. TypeOK /\ StatementsInv /\ MembersInv /\ EdgesInv
  BY DEF CfgInv, ListsInv
<1>1. /\ MaxLen \in Nat /\ Len(prog) \in 0 .. MaxLen
      /\ i \in Nat /\ i >= 1 /\ heap \in Heaps /\ prev \in Vertices
      /\ kinds \in Seq(Kind) /\ Len(kinds) <= MaxEdges
  BY TheProgram DEF CfgInv, TypeOK
<1>2. pc = "statements" /\ pc' = pc /\ i \in 1 .. Len(prog) /\ i' = i + 1
  BY <1>1 DEF AddStatement
<1>3. v \in Vertices
  BY <1>1, <1>2 DEF Stmt, Vertices
<1>4. prev \in InGraph
  <2>1. CASE i = 1
    BY <1>0, <1>2, <2>1 DEF StatementsInv, MembersInv
  <2>2. CASE i # 1
    <3>1. i - 1 \in Added
      BY <1>2, <2>2 DEF Added
    <3> QED BY <1>0, <1>2, <2>2, <3>1 DEF StatementsInv
  <2> QED BY <2>1, <2>2
<1>5. /\ added \in Heaps /\ SameEdges(added, heap)
      /\ added.verts[Self] = heap.verts[Self] \cup {v}
      /\ \A w \in Vertices : added.index[w] = NoIndex => w # v /\ heap.index[w] = NoIndex
  BY <1>1, <1>3, AddVertexDoes
<1>6. IF ended THEN heap' = added /\ kinds' = kinds
      ELSE /\ Room(1)
           /\ heap' = AddEdge(added, Self, prev, v, NewEdge)
           /\ kinds' = Append(kinds, "Fallthrough")
  BY DEF AddStatement
<1>7. Joined(heap, Len(kinds))
  BY <1>0 DEF EdgesInv
<1> HIDE DEF added
<1>8. CASE ended
  <2>1. Joined(heap', Len(kinds'))
    BY <1>5, <1>6, <1>7, <1>8, SameEdgesJoined
  <2>2. GraphEdges' = GraphEdges /\ EdgesCarried
    BY <1>5, <1>6, <1>8 DEF SameEdges, GraphEdges, EdgesCarried
  <2>3. InGraph' = InGraph \cup {Stmt(i)}
    BY <1>5, <1>6, <1>8 DEF InGraph
  <2> QED BY <1>1, <1>2, <1>3, <1>4, <1>5, <1>6, <1>8, <2>1, <2>2, <2>3
<1>9. CASE ~ended
  <2>1. /\ Joined(heap', Len(kinds')) /\ heap'.verts = added.verts /\ heap'.index = added.index
        /\ EdgesCarried
        /\ GraphEdges' = GraphEdges \cup {NewEdge}
        /\ heap'.src[NewEdge] = prev /\ heap'.tgt[NewEdge] = v
        /\ kinds'[NewEdge] = "Fallthrough"
    <3>1. "Fallthrough" \in Kind
      BY DEF Kind
    <3> QED BY <1>0, <1>1, <1>3, <1>5, <1>6, <1>7, <1>9, <3>1, OneEdgeMore
  <2>2. kinds' \in Seq(Kind) /\ Len(kinds') <= MaxEdges /\ Len(kinds) <= Len(kinds')
    <3>1. "Fallthrough" \in Kind
      BY DEF Kind
    <3> QED BY <1>0, <1>6, <1>9, <3>1, TheKinds
  <2>3. InGraph' = InGraph \cup {Stmt(i)}
    BY <1>5, <2>1 DEF InGraph
  <2> QED BY <1>1, <1>2, <1>3, <1>4, <1>5, <1>9, <2>1, <2>2, <2>3
<1> QED BY <1>8, <1>9

LEMMA AddStatementLists ==
  ASSUME CfgInv, AddStatement
  PROVE  /\ ListsInv' /\ Added' = Added \cup {i}
         /\ Jumps' = Jumps \cup (IF EndsBlock(prog[i]) THEN {i} ELSE {})
         /\ Watched' = Watched \cup (IF ended THEN {Stmt(i)} ELSE {})
<1> DEFINE s == prog[i]
           v == Stmt(i)
<1>0. TypeOK /\ StatementsInv /\ FlowInv /\ LeadersInv /\ LabelsInv
  BY DEF CfgInv, ListsInv
<1>1. /\ pc = "statements" /\ pc' = pc /\ i \in 1 .. Len(prog) /\ i' = i + 1
      /\ InGraph' = InGraph \cup {v}
  BY StatementAdded
<1>2. /\ MaxLen \in Nat /\ Len(prog) \in 0 .. MaxLen /\ Len(prog) \in Nat /\ s \in Statement
  BY <1>0, <1>1, TheProgram
<1>3. /\ labelMap' = IF s.op = "label" THEN [labelMap EXCEPT ![s.to[1]] = v] ELSE labelMap
      /\ flow' = IF EndsBlock(s) THEN Append(flow, v) ELSE flow
      /\ leaders' = IF ended THEN Append(leaders, [leader |-> v, pred |-> prev]) ELSE leaders
      /\ ended' = EndsBlock(s) /\ prev' = v /\ prog' = prog
  BY DEF AddStatement
<1>4. Added = 1 .. i - 1 /\ Added' = Added \cup {i}
  BY <1>1, <1>3 DEF Added
<1>5. Jumps' = Jumps \cup (IF EndsBlock(s) THEN {i} ELSE {})
  BY <1>3, <1>4 DEF Jumps
<1>6. \A m \in Jumps : m \in 1 .. i - 1
  BY <1>4 DEF Jumps
<1>7. /\ flow \in Seq(Vertices) /\ leaders \in Seq([leader : Vertices, pred : Vertices])
      /\ ended \in BOOLEAN /\ prev \in Vertices /\ v \in Vertices
  BY <1>0, StatementAdded DEF TypeOK
<1>8. Watched' = Watched \cup (IF ended THEN {v} ELSE {})
  <2>1. CASE ended
    <3> DEFINE new == [leader |-> v, pred |-> prev]
    <3>1. /\ leaders' = Append(leaders, new) /\ Len(leaders) \in Nat
          /\ DOMAIN leaders = 1 .. Len(leaders)
      BY <1>3, <1>7, <2>1
    <3>2. /\ DOMAIN leaders' = DOMAIN leaders \cup {Len(leaders) + 1}
          /\ \A n \in DOMAIN leaders : leaders'[n] = leaders[n]
          /\ leaders'[Len(leaders) + 1].leader = v
      BY <1>7, <3>1
    <3> HIDE DEF new
    <3> QED BY <2>1, <3>1, <3>2 DEF Watched
  <2>2. CASE ~ended
    BY <1>3, <2>2 DEF Watched
  <2> QED BY <2>1, <2>2
<1>9. StatementsInv'
  <2>1. i' <= Len(prog') + 1 /\ prev' = Stmt(i' - 1) /\ i' # 1
    BY <1>1, <1>2, <1>3 DEF Stmt
  <2>2. ended' <=> i' - 1 \in Jumps'
    BY <1>1, <1>3, <1>5, <1>6
  <2>3. \A m \in Added' : Stmt(m) \in InGraph'
    BY <1>0, <1>1, <1>4 DEF StatementsInv
  <2> QED BY <2>1, <2>2, <2>3 DEF StatementsInv
<1>10. FlowInv'
  <2>1. CASE EndsBlock(s)
    <3>1. /\ flow' = Append(flow, v) /\ Len(flow) \in Nat /\ DOMAIN flow = 1 .. Len(flow)
          /\ DOMAIN flow' = 1 .. Len(flow) + 1
          /\ \A n \in DOMAIN flow : flow'[n] = flow[n]
          /\ flow'[Len(flow) + 1] = v
      BY <1>3, <1>7, <2>1
    <3>2. \A n \in DOMAIN flow : flow[n] < v
      <4> SUFFICES ASSUME NEW n \in DOMAIN flow PROVE flow[n] < v
        OBVIOUS
      <4>1. flow[n] - 1 \in 1 .. i - 1
        BY <1>0, <1>6 DEF FlowInv
      <4>2. flow[n] \in Vertices
        BY <1>7, <3>1
      <4>3. flow[n] \in Int
        BY <1>2, <4>2 DEF Vertices
      <4> QED BY <1>1, <4>1, <4>3 DEF Stmt
    <3>3. \A n \in DOMAIN flow' : flow'[n] - 1 \in Jumps'
      BY <1>0, <1>1, <1>5, <2>1, <3>1 DEF FlowInv, Stmt
    <3>4. \A m, n \in DOMAIN flow' : m < n => flow'[m] < flow'[n]
      BY <1>0, <3>1, <3>2 DEF FlowInv
    <3>5. \A m \in Jumps' : \E n \in DOMAIN flow' : flow'[n] = Stmt(m)
      BY <1>0, <1>5, <2>1, <3>1 DEF FlowInv
    <3> QED BY <3>3, <3>4, <3>5 DEF FlowInv
  <2>2. CASE ~EndsBlock(s)
    BY <1>0, <1>3, <1>5, <2>2 DEF FlowInv
  <2> QED BY <2>1, <2>2
<1>11. LeadersInv'
  <2>1. ASSUME NEW m \in Added', m - 1 \in Jumps' PROVE Stmt(m) \in Watched'
    <3>1. CASE m \in Added
      <4>1. m - 1 # i
        BY <1>1, <1>4, <3>1
      <4> QED BY <1>0, <1>5, <1>8, <2>1, <3>1, <4>1 DEF LeadersInv
    <3>2. CASE m = i
      <4>1. i - 1 \in Jumps
        BY <1>1, <1>5, <2>1, <3>2
      <4>2. ended
        BY <1>0, <1>1, <4>1 DEF StatementsInv
      <4> QED BY <1>8, <3>2, <4>2
    <3> QED BY <1>4, <3>1, <3>2
  <2>2. ASSUME NEW n \in DOMAIN leaders'
        PROVE  /\ leaders'[n].leader - 1 \in Added' /\ leaders'[n].leader - 2 \in Jumps'
               /\ leaders'[n].pred = leaders'[n].leader - 1
    <3>1. CASE n \in DOMAIN leaders /\ leaders'[n] = leaders[n]
      BY <1>0, <1>4, <1>5, <3>1 DEF LeadersInv
    <3>2. CASE ended /\ leaders'[n] = [leader |-> v, pred |-> prev]
      <4>1. leaders'[n].leader = i + 1 /\ leaders'[n].pred = prev
        BY <3>2 DEF Stmt
      <4>2. i - 1 \in Jumps /\ i # 1 /\ prev = i
        BY <1>0, <1>1, <1>6, <3>2 DEF StatementsInv, Stmt
      <4> QED BY <1>1, <1>4, <1>5, <4>1, <4>2
    <3> QED BY <1>3, <1>7, <2>2, <3>1, <3>2
  <2> QED BY <2>1, <2>2 DEF LeadersInv
<1>12. LabelsInv'
  <2>1. labelMap \in [Label \cup {"EXIT"} -> Vertices \cup {Null}]
    BY <1>0 DEF TypeOK
  <2>2. CASE s.op = "label"
    <3>1. s.to[1] \in Label
      BY <1>2, <2>2, TheStatement
    <3>2. \A l \in Label \cup {"EXIT"} : labelMap'[l] = IF l = s.to[1] THEN v ELSE labelMap[l]
      BY <1>3, <2>1, <2>2, <3>1
    <3>3. v # Null /\ v - 1 = i
      BY <1>1 DEF Stmt, Null
    <3>4. \A l \in Label \cup {"EXIT"} : Known(l) => labelMap'[l] # Null
      BY <3>2, <3>3 DEF Known
    <3>5. \A m \in Added' : prog'[m].op = "label" => prog'[m].to[1] \in Label
      <4> SUFFICES ASSUME NEW m \in Added', prog[m].op = "label" PROVE prog[m].to[1] \in Label
        BY <1>3
      <4>1. prog[m] \in Statement
        BY <1>0, <1>1, <1>4, TheProgram
      <4> QED BY <4>1, TheStatement
    <3>6. \A m \in Added' : prog'[m].op = "label" => labelMap'[prog'[m].to[1]] # Null
      BY <1>0, <1>3, <1>4, <3>1, <3>2, <3>3, <3>4, <3>5 DEF LabelsInv
    <3>7. \A l \in Label \cup {"EXIT"} :
            \/ labelMap'[l] \in {Null, Exit}
            \/ labelMap'[l] - 1 \in Added' /\ prog'[labelMap'[l] - 1].op = "label"
      BY <1>0, <1>3, <1>4, <2>2, <3>2, <3>3 DEF LabelsInv
    <3> QED BY <1>0, <3>4, <3>6, <3>7 DEF LabelsInv, Known
  <2>3. CASE s.op # "label"
    BY <1>0, <1>3, <1>4, <2>3 DEF LabelsInv, Known
  <2> QED BY <2>2, <2>3
<1> QED BY <1>4, <1>5, <1>8, <1>9, <1>10, <1>11, <1>12 DEF ListsInv

LEMMA AddStatementKeeps == ASSUME CfgInv, AddStatement PROVE CfgInv'
<1> DEFINE s == prog[i]
           v == Stmt(i)
<1>0. /\ TypeOK /\ StatementsInv /\ MembersInv /\ EdgesInv /\ WaysInv /\ EnteredInv
      /\ SearchInv /\ PruningInv
  BY DEF CfgInv, ListsInv
<1>1. /\ pc = "statements" /\ pc' = pc /\ i \in 1 .. Len(prog) /\ i' = i + 1
      /\ v \in Vertices /\ prev \in Vertices /\ prev \in InGraph
      /\ Joined(heap', Len(kinds')) /\ InGraph' = InGraph \cup {v}
      /\ \A w \in Vertices : heap'.index[w] = NoIndex => w # v /\ heap.index[w] = NoIndex
      /\ EdgesCarried
      /\ kinds' \in Seq(Kind) /\ Len(kinds') <= MaxEdges /\ Len(kinds) <= Len(kinds')
      /\ ended => GraphEdges' = GraphEdges
      /\ ~ended => /\ GraphEdges' = GraphEdges \cup {NewEdge}
                   /\ heap'.src[NewEdge] = prev /\ heap'.tgt[NewEdge] = v
                   /\ kinds'[NewEdge] = "Fallthrough"
  BY StatementAdded
<1>2. /\ ListsInv' /\ Added' = Added \cup {i}
      /\ Jumps' = Jumps \cup (IF EndsBlock(s) THEN {i} ELSE {})
      /\ Watched' = Watched \cup (IF ended THEN {v} ELSE {})
  BY AddStatementLists
<1>3. UNCHANGED <<prog, back, warned, seen, order, stack, found, todo, doomed>>
  BY DEF AddStatement, search, pruning
<1>4. /\ MaxLen \in Nat /\ Len(prog) \in 0 .. MaxLen /\ Len(prog) \in Nat /\ s \in Statement
      /\ InGraph \subseteq Vertices /\ \A w \in Vertices : w \in Int
      /\ Added = 1 .. i - 1 /\ \A m \in Jumps : m \in 1 .. i - 1
  BY <1>0, <1>1, TheProgram, TheGraph DEF Vertices, Added, Jumps
<1>5. TypeOK'
  <2>1. /\ labelMap' = IF s.op = "label" THEN [labelMap EXCEPT ![s.to[1]] = v] ELSE labelMap
        /\ flow' = IF EndsBlock(s) THEN Append(flow, v) ELSE flow
        /\ leaders' = IF ended THEN Append(leaders, [leader |-> v, pred |-> prev]) ELSE leaders
        /\ ended' = EndsBlock(s) /\ prev' = v
    BY DEF AddStatement
  <2>2. labelMap' \in [Label \cup {"EXIT"} -> Vertices \cup {Null}]
    BY <1>0, <1>1, <2>1 DEF TypeOK
  <2>3. flow' \in Seq(Vertices) /\ leaders' \in Seq([leader : Vertices, pred : Vertices])
    <3>1. flow \in Seq(Vertices) /\ leaders \in Seq([leader : Vertices, pred : Vertices])
      BY <1>0 DEF TypeOK
    <3>2. flow' \in Seq(Vertices)
      BY <1>1, <2>1, <3>1
    <3>4. leaders' \in Seq([leader : Vertices, pred : Vertices])
      <4> DEFINE r == [leader |-> v, pred |-> prev]
                 R == [leader : Vertices, pred : Vertices]
      <4>1. leaders' = IF ended THEN Append(leaders, r) ELSE leaders
        BY <2>1
      <4>2. r \in R
        BY <1>1
      <4>3. leaders \in Seq(R)
        BY <3>1
      <4> HIDE DEF r, R
      <4>4. leaders' \in Seq(R)
        BY <4>1, <4>2, <4>3
      <4> QED BY <4>4 DEF R
    <3> QED BY <3>2, <3>4
  <2>4. ended' \in BOOLEAN /\ prev' \in Vertices /\ i' \in Nat /\ pc' \in Phase
    BY <1>0, <1>1, <2>1 DEF TypeOK, EndsBlock
  <2>5. heap' \in Heaps
    BY <1>1 DEF Joined
  <2>6. back' \subseteq 1 .. Len(kinds')
    <3>1. back \subseteq 1 .. Len(kinds) /\ Len(kinds) \in Nat /\ Len(kinds') \in Nat
      BY <1>0, <1>1 DEF TypeOK
    <3> QED BY <1>1, <1>3, <3>1
  <2>7. /\ prog' \in Programs /\ warned' \subseteq Vertices /\ seen' \subseteq Vertices
        /\ order' \in [Vertices -> Seq(Edges)]
        /\ stack' \in Seq([v : Vertices, at : Nat])
        /\ found' \in Seq([edge : Edges, proxy : Vertices \cup {Null}])
        /\ todo' \subseteq Vertices /\ doomed' \subseteq Vertices
    BY <1>0, <1>3 DEF TypeOK
  <2> QED BY <1>1, <2>2, <2>3, <2>4, <2>5, <2>6, <2>7 DEF TypeOK
<1>6. MembersInv'
  <2>1. Entry \in InGraph' /\ Exit \in InGraph'
    BY <1>0, <1>1 DEF MembersInv
  <2>2. ASSUME NEW w \in InGraph' PROVE w \in {Entry, Exit} \/ w - 1 \in Added'
    <3>1. CASE w = v
      BY <1>1, <1>2, <3>1 DEF Stmt
    <3>2. CASE w \in InGraph
      <4>1. ~(w - Linked(0) \in Jumps /\ Stmt(w - Linked(0)) \notin InGraph)
        BY <1>0, <1>1 DEF StatementsInv, Jumps
      <4> QED BY <1>0, <1>2, <3>2, <4>1 DEF MembersInv
    <3> QED BY <1>1, <3>1, <3>2
  <2>3. \A m \in Added' : Stmt(m) \in InGraph'
    BY <1>0, <1>1, <1>2 DEF StatementsInv
  <2>5. ASSUME NEW w \in Vertices, w \in InGraph' \/ w - 1 \in Added'
        PROVE  heap'.index[w] # NoIndex
    <3> SUFFICES ASSUME heap'.index[w] = NoIndex PROVE FALSE
      OBVIOUS
    <3>1. w # v /\ heap.index[w] = NoIndex
      BY <1>1
    <3>2. w - 1 # i
      BY <1>4, <3>1 DEF Stmt
    <3>3. w \in InGraph \/ w - 1 \in Added
      BY <1>1, <1>2, <2>5, <3>1, <3>2
    <3> QED BY <1>0, <3>1, <3>3 DEF MembersInv
  <2>6. \A w \in Vertices : ~Waiting(w)'
    BY <1>1 DEF Waiting
  <2> QED BY <1>1, <2>1, <2>2, <2>3, <2>5, <2>6 DEF MembersInv
<1>7. EdgesInv'
  <2>1. ASSUME NEW e \in GraphEdges'
        PROVE  heap'.src[e] \in InGraph' /\ heap'.tgt[e] \in InGraph' /\ kinds'[e] # "Impossible"
    <3>1. CASE e \in GraphEdges
      <4>1. IsReal(e) /\ heap.src[e] \in InGraph /\ heap.tgt[e] \in InGraph
        BY <1>0, <1>1, <3>1 DEF EdgesInv
      <4> QED BY <1>1, <3>1, <4>1 DEF EdgesCarried, IsReal
    <3>2. CASE e \notin GraphEdges
      BY <1>1, <2>1, <3>2
    <3> QED BY <3>1, <3>2
  <2>2. \A w \in InGraph' : heap'.index[w] # NoIndex
    BY <1>1, <1>4, <1>6 DEF MembersInv
  <2> QED BY <1>1, <2>1, <2>2 DEF EdgesInv, IsReal
<1>8. WaysInv'
  <2> SUFFICES ASSUME NEW w \in InGraph', w # v
               PROVE  w = Exit \/ w - 1 \in Jumps' \/ w \in doomed' \/ LeadsOn(w)'
    <3>1. pc' = "statements" /\ prev' = v
      BY <1>1 DEF AddStatement
    <3> QED BY <3>1 DEF WaysInv
  <2>1. \/ w = Exit \/ w - 1 \in Jumps \/ w \in doomed
        \/ w = prev \/ LeadsOn(w)
    BY <1>0, <1>1 DEF WaysInv
  <2>2. CASE w = prev /\ ended
    <3>1. i - 1 \in Jumps /\ i # 1
      BY <1>0, <1>1, <1>4, <2>2 DEF StatementsInv
    <3>2. w - 1 = i - 1
      BY <1>0, <1>1, <2>2, <3>1 DEF StatementsInv, Stmt
    <3> QED BY <1>2, <3>1, <3>2
  <2>3. CASE w = prev /\ ~ended
    BY <1>1, <2>3 DEF LeadsOn, IsReal
  <2>4. CASE LeadsOn(w)
    BY <1>1, <2>4, WaysCarried
  <2> QED BY <1>2, <1>3, <2>1, <2>2, <2>3, <2>4
<1>9. EnteredInv'
  <2>1. ASSUME NEW w \in InGraph'
        PROVE  \/ HasIn(w)' \/ w \in {Entry, Exit} \/ w \in Watched'
               \/ w - MaxLen \in Watched' \/ w \in doomed'
    <3>1. CASE w = v /\ ended
      BY <1>2, <3>1
    <3>2. CASE w = v /\ ~ended
      BY <1>1, <3>2 DEF HasIn
    <3>3. CASE w \in InGraph
      <4>1. HasIn(w) => HasIn(w)'
        BY <1>1, WaysCarried
      <4> QED BY <1>0, <1>2, <1>3, <3>3, <4>1 DEF EnteredInv
    <3> QED BY <1>1, <3>1, <3>2, <3>3
  <2> QED BY <1>0, <1>1, <1>3, <2>1 DEF EnteredInv
<1>10. SearchInv' /\ PruningInv' /\ i' >= 1
  BY <1>0, <1>1, <1>3 DEF SearchInv, Unsearched, PruningInv
<1> QED BY <1>2, <1>5, <1>6, <1>7, <1>8, <1>9, <1>10 DEF CfgInv

-----------------------------------------------------------------------------
(* The steps after it.                                                     *)

LEMMA LaterLists ==
  ASSUME ListsInv, UNCHANGED <<prog, building>>, Added' = Added, pc' # "statements"
  PROVE  ListsInv' /\ Jumps' = Jumps /\ Watched' = Watched
<1>1. /\ prog' = prog /\ prev' = prev /\ ended' = ended
      /\ labelMap' = labelMap /\ leaders' = leaders /\ flow' = flow
  BY DEF building
<1>2. Jumps' = Jumps /\ Watched' = Watched
  BY <1>1 DEF Jumps, Watched
<1>3. StatementsInv' /\ FlowInv' /\ LeadersInv' /\ LabelsInv'
  BY <1>1, <1>2 DEF ListsInv, StatementsInv, FlowInv, LeadersInv, LabelsInv, Known
<1> QED BY <1>2, <1>3 DEF ListsInv

LEMMA GraphStepTypes ==
  ASSUME TypeOK, UNCHANGED <<prog, warned, building, search, pruning>>,
         heap' \in Heaps, kinds' \in Seq(Kind), Len(kinds') <= MaxEdges,
         back' \subseteq 1 .. Len(kinds'), pc' \in Phase, i' \in Nat
  PROVE  TypeOK'
<1>1. /\ prog' = prog /\ prev' = prev /\ ended' = ended
      /\ labelMap' = labelMap /\ leaders' = leaders /\ flow' = flow
      /\ warned' = warned /\ seen' = seen /\ order' = order /\ stack' = stack
      /\ found' = found /\ todo' = todo /\ doomed' = doomed
  BY DEF building, search, pruning
<1> QED BY <1>1 DEF TypeOK

LEMMA MoreKinds ==
  ASSUME TypeOK, Len(kinds') \in Nat, Len(kinds) <= Len(kinds'), back' = back
  PROVE  back' \subseteq 1 .. Len(kinds')
<1>1. back \subseteq 1 .. Len(kinds) /\ Len(kinds) \in Nat
  BY DEF TypeOK
<1> QED BY <1>1

(* What the end of the list adds to the graph.                             *)
LEMMA EndReached ==
  ASSUME CfgInv, FallOffTheEnd
  PROVE  /\ prev \in InGraph
         /\ Joined(heap', Len(kinds')) /\ heap'.verts = heap.verts /\ heap'.index = heap.index
         /\ EdgesCarried /\ kinds' \in Seq(Kind) /\ Len(kinds') <= MaxEdges
         /\ Len(kinds) <= Len(kinds')
         /\ \A e \in GraphEdges' \ GraphEdges :
              heap'.src[e] = prev /\ heap'.tgt[e] = Exit /\ kinds'[e] = "Fallthrough"
         /\ ~ended => NewEdge \in GraphEdges' \ GraphEdges
         /\ ended => GraphEdges' = GraphEdges
<1>0. TypeOK /\ StatementsInv /\ MembersInv /\ EdgesInv /\ i >= 1 /\ i \in Nat
  BY DEF CfgInv, ListsInv, TypeOK
<1>1. pc = "statements" /\ i > Len(prog)
  BY DEF FallOffTheEnd
<1>2. prev \in Vertices /\ Exit \in Vertices /\ heap \in Heaps
  BY <1>0, TheGraph DEF TypeOK, MembersInv
<1>3. Added = 1 .. i - 1
  BY <1>1 DEF Added
<1>4. prev \in InGraph
  <2>1. CASE i = 1
    BY <1>0, <1>1, <2>1 DEF StatementsInv, MembersInv
  <2>2. CASE i # 1
    <3>1. i - 1 \in Added
      BY <1>0, <1>3, <2>2
    <3> QED BY <1>0, <1>1, <2>2, <3>1 DEF StatementsInv
  <2> QED BY <2>1, <2>2
<1>5. /\ Joined(heap', Len(kinds')) /\ heap'.verts = heap.verts /\ heap'.index = heap.index
      /\ EdgesCarried /\ kinds' \in Seq(Kind) /\ Len(kinds') <= MaxEdges
      /\ Len(kinds) <= Len(kinds')
      /\ \A e \in GraphEdges' \ GraphEdges :
           heap'.src[e] = prev /\ heap'.tgt[e] = Exit /\ kinds'[e] = "Fallthrough"
      /\ ~ended => NewEdge \in GraphEdges' \ GraphEdges
      /\ ended => GraphEdges' = GraphEdges
  <2>1. Joined(heap, Len(kinds))
    BY <1>0 DEF EdgesInv
  <2>2. kinds \in Seq(Kind) /\ Len(kinds) <= MaxEdges /\ Len(kinds) \in Nat
    BY <1>0 DEF TypeOK
  <2>3. CASE ended
    <3>1. heap' = heap /\ kinds' = kinds
      BY <2>3 DEF FallOffTheEnd
    <3> QED BY <2>1, <2>2, <2>3, <3>1 DEF EdgesCarried, GraphEdges
  <2>4. CASE ~ended
    <3>1. /\ Room(1) /\ heap' = AddEdge(heap, Self, prev, Exit, NewEdge)
          /\ kinds' = Append(kinds, "Fallthrough") /\ "Fallthrough" \in Kind
      BY <2>4 DEF FallOffTheEnd, Kind
    <3>2. SameEdges(heap, heap)
      BY DEF SameEdges
    <3>3. /\ Joined(heap', Len(kinds')) /\ heap'.verts = heap.verts
          /\ heap'.index = heap.index /\ EdgesCarried
          /\ GraphEdges' = GraphEdges \cup {NewEdge}
          /\ heap'.src[NewEdge] = prev /\ heap'.tgt[NewEdge] = Exit
          /\ kinds'[NewEdge] = "Fallthrough"
      BY <1>0, <1>2, <2>1, <3>1, <3>2, OneEdgeMore
    <3>4. kinds' \in Seq(Kind) /\ Len(kinds') <= MaxEdges /\ Len(kinds) <= Len(kinds')
      BY <1>0, <3>1, TheKinds
    <3>5. NewEdge \notin GraphEdges
      BY <2>1, <2>2 DEF Joined, NewEdge, GraphEdges
    <3> QED BY <2>4, <3>3, <3>4, <3>5
  <2> QED BY <2>3, <2>4
<1> QED BY <1>4, <1>5

LEMMA FallOffTheEndKeeps == ASSUME CfgInv, FallOffTheEnd PROVE CfgInv'
<1>0. /\ TypeOK /\ ListsInv /\ StatementsInv /\ MembersInv /\ EdgesInv /\ WaysInv
      /\ EnteredInv /\ SearchInv /\ PruningInv /\ i >= 1 /\ i \in Nat
  BY DEF CfgInv, ListsInv, TypeOK
<1>1. /\ pc = "statements" /\ i > Len(prog) /\ pc' = "link" /\ i' = 1
      /\ UNCHANGED <<prog, back, warned, building, search, pruning>>
  BY DEF FallOffTheEnd, GoTo
<1>2. /\ MaxLen \in Nat /\ Len(prog) \in Nat /\ InGraph \subseteq Vertices
      /\ prev \in Vertices /\ Exit \in Vertices /\ Exit \in InGraph /\ heap \in Heaps
  BY <1>0, TheProgram, TheGraph DEF TypeOK, MembersInv
<1>3. Added' = Added /\ Added = 1 .. i - 1
  BY <1>0, <1>1, <1>2 DEF Added, StatementsInv
<1>4. ListsInv' /\ Jumps' = Jumps /\ Watched' = Watched
  BY <1>0, <1>1, <1>3, LaterLists
<1>5. /\ prev \in InGraph
      /\ Joined(heap', Len(kinds')) /\ heap'.verts = heap.verts /\ heap'.index = heap.index
      /\ EdgesCarried /\ kinds' \in Seq(Kind) /\ Len(kinds') <= MaxEdges
      /\ Len(kinds) <= Len(kinds')
      /\ \A e \in GraphEdges' \ GraphEdges :
           heap'.src[e] = prev /\ heap'.tgt[e] = Exit /\ kinds'[e] = "Fallthrough"
      /\ ~ended => NewEdge \in GraphEdges' \ GraphEdges
  BY EndReached
<1>7. InGraph' = InGraph
  BY <1>5 DEF InGraph
<1>8. TypeOK'
  <2>1. heap' \in Heaps /\ Len(kinds') \in Nat /\ pc' \in Phase /\ i' \in Nat /\ back' = back
    BY <1>1, <1>5 DEF Joined, Phase
  <2>2. back' \subseteq 1 .. Len(kinds')
    BY <1>0, <1>5, <2>1, MoreKinds
  <2> QED BY <1>0, <1>1, <1>5, <2>1, <2>2, GraphStepTypes
<1>9. MembersInv'
  <2>1. prog' = prog /\ flow' = flow
    BY <1>1 DEF building
  <2>2. \A w \in InGraph' :
          \/ w \in {Entry, Exit} \/ w - 1 \in Added'
          \/ w - Linked(0) \in Jumps' /\ Stmt(w - Linked(0)) \notin InGraph'
    BY <1>0, <1>3, <1>4, <1>7 DEF MembersInv
  <2>3. \A m \in Added' : Stmt(m) \in InGraph'
    BY <1>0, <1>1, <1>3, <1>7 DEF StatementsInv
  <2>4. \A w \in Vertices : Waiting(w)' => w \in InGraph'
    <3> SUFFICES ASSUME NEW w \in Vertices, NEW n \in DOMAIN flow, flow[n] = w
                 PROVE  w \in InGraph
      BY <1>7, <2>1 DEF Waiting
    <3>1. w - 1 \in Added
      BY <1>0 DEF ListsInv, FlowInv, Jumps
    <3>2. Stmt(w - 1) = w
      BY <1>2 DEF Stmt, Vertices
    <3> QED BY <1>0, <1>1, <3>1, <3>2 DEF StatementsInv
  <2>5. \A m \in Jumps' : Waiting(Stmt(m))'
    <3> SUFFICES ASSUME NEW m \in Jumps PROVE Waiting(Stmt(m))'
      BY <1>4
    <3>1. PICK n \in DOMAIN flow : flow[n] = Stmt(m)
      BY <1>0 DEF ListsInv, FlowInv
    <3>2. n >= 1
      <4>1. DOMAIN flow = 1 .. Len(flow)
        BY <1>0 DEF TypeOK
      <4> QED BY <4>1
    <3>3. Stmt(m)' = Stmt(m)
      BY DEF Stmt
    <3> QED BY <1>1, <2>1, <3>1, <3>2 DEF Waiting
  <2>6. \A w \in Vertices : w \in InGraph' \/ w - 1 \in Added' => heap'.index[w] # NoIndex
    BY <1>0, <1>3, <1>5, <1>7 DEF MembersInv
  <2>7. Entry \in InGraph' /\ Exit \in InGraph'
    BY <1>0, <1>7 DEF MembersInv
  <2> QED BY <2>2, <2>3, <2>4, <2>5, <2>6, <2>7 DEF MembersInv
<1>10. EdgesInv'
  <2>1. ASSUME NEW e \in GraphEdges'
        PROVE  heap'.src[e] \in InGraph' /\ heap'.tgt[e] \in InGraph' /\ kinds'[e] # "Impossible"
    <3>1. CASE e \in GraphEdges
      <4>1. IsReal(e) /\ heap.src[e] \in InGraph /\ heap.tgt[e] \in InGraph
        BY <1>0, <1>1, <3>1 DEF EdgesInv
      <4> QED BY <1>5, <1>7, <3>1, <4>1 DEF EdgesCarried, IsReal
    <3>2. CASE e \notin GraphEdges
      BY <1>2, <1>5, <1>7, <2>1, <3>2
    <3> QED BY <3>1, <3>2
  <2>2. \A w \in InGraph' : heap'.index[w] # NoIndex
    BY <1>2, <1>7, <1>9 DEF MembersInv
  <2> QED BY <1>5, <2>1, <2>2 DEF EdgesInv, IsReal
<1>11. WaysInv'
  <2> SUFFICES ASSUME NEW w \in InGraph
               PROVE  w = Exit \/ w - 1 \in Jumps' \/ w \in doomed' \/ LeadsOn(w)'
    BY <1>7 DEF WaysInv
  <2>1. \/ w = Exit \/ w - 1 \in Jumps \/ w \in doomed
        \/ w = prev \/ LeadsOn(w)
    BY <1>0, <1>1 DEF WaysInv
  <2>2. CASE w = prev /\ ended
    <3>1. i - 1 \in Jumps
      BY <1>0, <1>1, <2>2 DEF StatementsInv
    <3>2. i # 1
      BY <1>3, <3>1 DEF Jumps
    <3>3. w - 1 = i - 1
      BY <1>0, <1>1, <2>2, <3>2 DEF StatementsInv, Stmt
    <3> QED BY <1>4, <3>1, <3>3
  <2>3. CASE w = prev /\ ~ended
    BY <1>5, <2>3 DEF LeadsOn, IsReal
  <2>4. CASE LeadsOn(w)
    BY <1>5, <2>4, WaysCarried
  <2> QED BY <1>1, <1>4, <2>1, <2>2, <2>3, <2>4 DEF pruning
<1>12. EnteredInv'
  <2>1. \A w \in InGraph : HasIn(w) => HasIn(w)'
    BY <1>5, WaysCarried
  <2>2. doomed' = doomed /\ leaders' = leaders /\ warned' = warned
    BY <1>1 DEF pruning, building
  <2> QED BY <1>0, <1>1, <1>4, <1>7, <2>1, <2>2 DEF EnteredInv
<1>13. SearchInv' /\ PruningInv' /\ i' >= 1
  BY <1>0, <1>1 DEF SearchInv, Unsearched, PruningInv, search, pruning
<1> QED BY <1>4, <1>8, <1>9, <1>10, <1>11, <1>12, <1>13 DEF CfgInv

(* The jump to be linked, the object that replaces it, and the targets.    *)
LEMMA TheJump ==
  ASSUME CfgInv, LinkFlowControl
  PROVE  LET v == flow[i]
             labels == Resolved(prog[v - 1])
         IN
         /\ i \in DOMAIN flow /\ i \in Nat /\ Len(flow) \in Nat /\ v \in Vertices /\ v \in InGraph
         /\ v - 1 \in Jumps /\ v \in 2 .. MaxLen + 1
         /\ Linked(v - 1) \in Vertices /\ Linked(v - 1) \notin InGraph
         /\ labels \in Seq(Label \cup {"EXIT"})
         /\ \A n \in DOMAIN labels :
              /\ labelMap[labels[n]] \in InGraph /\ labelMap[labels[n]] # v
              /\ labelMap[labels[n]] # Linked(v - 1)
         /\ TargetsDefined(prog) => labels # <<>>
<1> DEFINE v == flow[i]
           s == prog[v - 1]
           labels == Resolved(s)
<1>0. /\ TypeOK /\ FlowInv /\ LabelsInv /\ MembersInv /\ i \in Nat /\ i >= 1
      /\ pc = "link" /\ i <= Len(flow)
  BY DEF CfgInv, ListsInv, TypeOK, LinkFlowControl
<1>1. /\ MaxLen \in Nat /\ Len(prog) \in 0 .. MaxLen /\ Added = 1 .. Len(prog)
      /\ \A m \in 1 .. Len(prog) : prog[m] \in Statement
      /\ InGraph \subseteq Vertices /\ \A w \in Vertices : w \in Int
  BY <1>0, TheProgram, TheGraph DEF Added, Vertices
<1>2. i \in DOMAIN flow /\ Len(flow) \in Nat /\ v \in Vertices
  BY <1>0 DEF TypeOK
<1>3. v - 1 \in Jumps
  BY <1>0, <1>2 DEF FlowInv
<1>4. v - 1 \in Added /\ v - 1 \in 1 .. MaxLen /\ EndsBlock(s)
  BY <1>1, <1>3 DEF Jumps
<1>5. v \in InGraph
  <2>1. Waiting(v)
    BY <1>0, <1>2 DEF Waiting
  <2> QED BY <1>0, <1>2, <2>1 DEF MembersInv
<1>6. v \in 2 .. MaxLen + 1 /\ Stmt(v - 1) = v /\ Linked(v - 1) = MaxLen + v
  BY <1>1, <1>2, <1>4 DEF Stmt, Linked
<1>7. Linked(v - 1) \in Vertices
  BY <1>1, <1>6 DEF Vertices
<1>8. Linked(v - 1) \notin InGraph
  <2> SUFFICES ASSUME Linked(v - 1) \in InGraph PROVE FALSE
    OBVIOUS
  <2>1. Linked(v - 1) - 1 \notin Added /\ Linked(v - 1) \notin {Entry, Exit}
    BY <1>1, <1>6 DEF Entry, Exit
  <2>2. Linked(v - 1) - Linked(0) = v - 1
    BY <1>1, <1>6 DEF Linked
  <2> QED BY <1>0, <1>5, <1>6, <2>1, <2>2 DEF MembersInv
<1>9. s \in Statement /\ s.op \notin {"plain", "label"} /\ Known("EXIT")
  BY <1>0, <1>1, <1>4 DEF EndsBlock, LabelsInv
<1>10. /\ labels \in Seq(Label \cup {"EXIT"})
       /\ \A n \in DOMAIN labels : Known(labels[n])
       /\ (\A n \in DOMAIN s.to : Known(s.to[n])) => labels # <<>>
  BY <1>9, TheArms
<1> HIDE DEF labels
<1>11. ASSUME NEW n \in DOMAIN labels
       PROVE  /\ labelMap[labels[n]] \in InGraph /\ labelMap[labels[n]] # v
              /\ labelMap[labels[n]] # Linked(v - 1)
  <2> DEFINE t == labelMap[labels[n]]
  <2>1. labels[n] \in Label \cup {"EXIT"} /\ t # Null
    BY <1>10 DEF Known
  <2>2. t = Exit \/ (t - 1 \in Added /\ prog[t - 1].op = "label")
    BY <1>0, <2>1 DEF LabelsInv
  <2>3. t \in Vertices
    BY <1>0, <2>1 DEF TypeOK
  <2> HIDE DEF t
  <2>4. CASE t = Exit
    BY <1>0, <1>1, <1>6, <2>4 DEF MembersInv, Exit, t
  <2>5. CASE t - 1 \in Added /\ prog[t - 1].op = "label"
    <3>1. t - 1 \notin Jumps
      BY <2>5 DEF Jumps, EndsBlock
    <3>2. Stmt(t - 1) = t
      BY <1>1, <2>3 DEF Stmt
    <3>3. t \in InGraph
      BY <1>0, <2>5, <3>1, <3>2 DEF MembersInv
    <3> QED BY <1>3, <1>8, <3>1, <3>3 DEF t
  <2> QED BY <2>2, <2>4, <2>5
<1>12. ASSUME TargetsDefined(prog) PROVE labels # <<>>
  <2> SUFFICES ASSUME NEW n \in DOMAIN s.to PROVE Known(s.to[n])
    BY <1>10
  <2>1. PICK m \in DOMAIN prog : prog[m].op = "label" /\ prog[m].to = <<s.to[n]>>
    <3>1. v - 1 \in DOMAIN prog
      BY <1>0, <1>1, <1>4, TheProgram
    <3> QED BY <1>12, <3>1 DEF TargetsDefined
  <2>2. m \in Added /\ prog[m].to[1] = s.to[n]
    BY <1>0, <1>1, <2>1, TheProgram
  <2> QED BY <1>0, <2>1, <2>2 DEF LabelsInv
<1> QED BY <1>0, <1>2, <1>3, <1>5, <1>6, <1>7, <1>8, <1>10, <1>11, <1>12 DEF labels

LEMMA Joining ==
  ASSUME NEW S, NEW a \in Seq(S), NEW b \in Seq(S)
  PROVE  /\ a \o b \in Seq(S) /\ Len(a \o b) = Len(a) + Len(b)
         /\ \A n \in 1 .. Len(a) : (a \o b)[n] = a[n]
         /\ \A n \in 1 .. Len(b) : (a \o b)[Len(a) + n] = b[n]
  OBVIOUS

(* What linking it does to the graph.                                      *)
LEMMA JumpLinked ==
  ASSUME CfgInv, LinkFlowControl
  PROVE  LET v == flow[i]
             new == Linked(v - 1)
             labels == Resolved(prog[v - 1])
         IN
         /\ kinds' \in Seq(Kind) /\ Len(kinds') <= MaxEdges /\ Len(kinds) <= Len(kinds')
         /\ \A e \in GraphEdges : kinds'[e] = kinds[e]
         /\ labels = <<>> => heap' = heap /\ kinds' = kinds
         /\ labels # <<>> =>
              /\ Joined(heap', Len(kinds'))
              /\ InGraph' = (InGraph \cup {new}) \ {v}
              /\ \A w \in Vertices : heap'.index[w] = NoIndex => w # new /\ heap.index[w] = NoIndex
              /\ GraphEdges \subseteq GraphEdges'
              /\ \A e \in GraphEdges :
                   /\ heap'.src[e] = IF heap.src[e] = v THEN new ELSE heap.src[e]
                   /\ heap'.tgt[e] = IF heap.tgt[e] = v THEN new ELSE heap.tgt[e]
              /\ \A e \in GraphEdges' \ GraphEdges :
                   /\ kinds'[e] # "Impossible"
                   /\ heap'.src[e] = new /\ heap'.tgt[e] \in InGraph /\ heap'.tgt[e] # v
              /\ \E e \in GraphEdges' : heap'.src[e] = new /\ kinds'[e] # "Impossible"
              /\ \A e \in GraphEdges' \ GraphEdges : \E n \in DOMAIN labels :
                   kinds'[e] = ArmKind(prog[v - 1], n) /\ heap'.tgt[e] = labelMap[labels[n]]
              /\ \A n \in DOMAIN labels : \E e \in GraphEdges' \ GraphEdges :
                   kinds'[e] = ArmKind(prog[v - 1], n) /\ heap'.tgt[e] = labelMap[labels[n]]
<1> DEFINE v == flow[i]
           new == Linked(v - 1)
           s == prog[v - 1]
           labels == Resolved(s)
           c == Len(labels)
           K == [n \in DOMAIN labels |-> ArmKind(s, n)]
           k == Len(kinds)
           h == AddArms(heap, v, labels)
<1>1. /\ v \in Vertices /\ v \in InGraph /\ v - 1 \in Jumps /\ v \in 2 .. MaxLen + 1
      /\ new \in Vertices /\ new \notin InGraph
      /\ labels \in Seq(Label \cup {"EXIT"})
      /\ \A n \in DOMAIN labels :
           /\ labelMap[labels[n]] \in InGraph /\ labelMap[labels[n]] # v
           /\ labelMap[labels[n]] # new
  BY TheJump
<1>2. /\ pc = "link" /\ Room(c)
      /\ heap' = IF labels = <<>> THEN heap ELSE ReplaceVertex(h, Self, v, new)
      /\ kinds' = kinds \o K
  BY DEF LinkFlowControl
<1>3. TypeOK /\ EdgesInv /\ Joined(heap, k) /\ InGraph \subseteq Vertices
  BY TheGraph DEF CfgInv, EdgesInv
<1> HIDE DEF labels, new, v
<1>4. /\ c \in Nat /\ DOMAIN labels = 1 .. c /\ k \in Nat /\ k + c <= MaxEdges
      /\ kinds \in Seq(Kind) /\ k <= MaxEdges
  BY <1>1, <1>2, <1>3 DEF TypeOK, Room
<1>5. /\ K \in Seq(Kind \ {"Impossible"}) /\ K \in Seq(Kind) /\ Len(K) = c
      /\ \A n \in 1 .. c : K[n] = ArmKind(s, n)
  <2>0. \A n \in 1 .. c : K[n] = ArmKind(s, n)
    BY <1>4
  <2>1. K \in [1 .. c -> Kind \ {"Impossible"}]
    BY <1>4, ArmsAreReal
  <2> HIDE DEF K, c
  <2>2. K \in Seq(Kind \ {"Impossible"}) /\ Len(K) = c
    BY <1>4, <2>1
  <2> QED BY <2>0, <2>2
<1> HIDE DEF K, s
<1>6. /\ kinds' \in Seq(Kind) /\ Len(kinds') = k + c
      /\ \A e \in 1 .. k : kinds'[e] = kinds[e]
      /\ \A n \in 1 .. c : kinds'[k + n] = K[n] /\ K[n] # "Impossible"
  <2>1. \A n \in 1 .. c : K[n] # "Impossible"
    BY <1>5
  <2> HIDE DEF c
  <2>2. /\ kinds' \in Seq(Kind) /\ Len(kinds') = k + Len(K)
        /\ \A e \in 1 .. k : kinds'[e] = kinds[e]
        /\ \A n \in 1 .. Len(K) : kinds'[k + n] = K[n]
    <3>1. kinds \in Seq(Kind) /\ K \in Seq(Kind)
      BY <1>4, <1>5
    <3>2. /\ kinds \o K \in Seq(Kind) /\ Len(kinds \o K) = Len(kinds) + Len(K)
          /\ \A n \in 1 .. Len(kinds) : (kinds \o K)[n] = kinds[n]
          /\ \A n \in 1 .. Len(K) : (kinds \o K)[Len(kinds) + n] = K[n]
      BY <3>1, Joining
    <3> QED BY <1>2, <3>2
  <2> QED BY <1>5, <2>1, <2>2
<1>7. \A e \in GraphEdges : e \in 1 .. k /\ kinds'[e] = kinds[e]
  BY <1>3, <1>6 DEF Joined, GraphEdges
<1>8. ASSUME labels = <<>> PROVE heap' = heap /\ kinds' = kinds
  <2>1. c = 0
    BY <1>8
  <2>2. K = <<>>
    BY <1>5, <2>1
  <2> QED BY <1>2, <1>4, <1>8, <2>2
<1>9. ASSUME labels # <<>>
      PROVE  /\ Joined(heap', Len(kinds'))
             /\ InGraph' = (InGraph \cup {new}) \ {v}
             /\ \A w \in Vertices : heap'.index[w] = NoIndex => w # new /\ heap.index[w] = NoIndex
             /\ GraphEdges \subseteq GraphEdges'
             /\ \A e \in GraphEdges :
                  /\ heap'.src[e] = IF heap.src[e] = v THEN new ELSE heap.src[e]
                  /\ heap'.tgt[e] = IF heap.tgt[e] = v THEN new ELSE heap.tgt[e]
             /\ \A e \in GraphEdges' \ GraphEdges :
                  /\ kinds'[e] # "Impossible"
                  /\ heap'.src[e] = new /\ heap'.tgt[e] \in InGraph /\ heap'.tgt[e] # v
             /\ \E e \in GraphEdges' : heap'.src[e] = new /\ kinds'[e] # "Impossible"
             /\ \A e \in GraphEdges' \ GraphEdges : \E n \in DOMAIN labels :
                  kinds'[e] = ArmKind(s, n) /\ heap'.tgt[e] = labelMap[labels[n]]
             /\ \A n \in DOMAIN labels : \E e \in GraphEdges' \ GraphEdges :
                  kinds'[e] = ArmKind(s, n) /\ heap'.tgt[e] = labelMap[labels[n]]
  <2> HIDE DEF c, h
  <2>1. c # 0
    BY <1>1, <1>9 DEF c
  <2>2. /\ Joined(h, k + c)
        /\ Gains(h, heap, k + 1 .. k + c)
        /\ \A n \in 1 .. c : h.src[k + n] = v /\ h.tgt[k + n] = labelMap[labels[n]]
    <3>1. \A n \in 1 .. c : labelMap[labels[n]] \in Vertices
      BY <1>1, <1>3, <1>4
    <3>2. /\ Joined(heap, k) /\ k \in Nat /\ v \in Vertices /\ c \in Nat
          /\ DOMAIN labels = 1 .. c /\ k + c <= MaxEdges
      BY <1>1, <1>3, <1>4
    <3> QED BY <3>1, <3>2, AddArmsDoes DEF h
  <2>3. /\ h.verts = heap.verts /\ h.index = heap.index
        /\ h.edges[Self] = GraphEdges \cup (k + 1 .. k + c)
        /\ \A e \in GraphEdges : h.src[e] = heap.src[e] /\ h.tgt[e] = heap.tgt[e]
    BY <2>2 DEF Gains, SameVertices, GraphEdges
  <2>4. \A e \in k + 1 .. k + c : \E n \in 1 .. c : e = k + n
    <3> SUFFICES ASSUME NEW e \in k + 1 .. k + c PROVE e - k \in 1 .. c /\ e = k + (e - k)
      OBVIOUS
    <3> QED BY <1>4
  <2>5. \A e \in GraphEdges : heap.src[e] \in InGraph /\ heap.tgt[e] \in InGraph
    BY <1>2, <1>3 DEF EdgesInv
  <2>6. /\ h \in Heaps /\ EndsAgree(h) /\ h.edges[Self] \subseteq Edges
        /\ \A e \in Edges \ h.edges[Self] : h.src[e] = Null /\ h.tgt[e] = Null
    BY <2>2, HeapFields DEF Joined
  <2>7. \A e \in Edges : h.src[e] # new /\ h.tgt[e] # new
    <3> SUFFICES ASSUME NEW e \in Edges PROVE h.src[e] # new /\ h.tgt[e] # new
      OBVIOUS
    <3>1. CASE e \in GraphEdges
      BY <1>1, <2>3, <2>5, <3>1
    <3>2. CASE e \in k + 1 .. k + c
      <4>1. PICK n \in 1 .. c : e = k + n
        BY <2>4, <3>2
      <4> QED BY <1>1, <1>4, <2>2, <4>1
    <3>3. CASE e \notin h.edges[Self]
      BY <1>1, <2>6, <3>3 DEF Null, Vertices
    <3> QED BY <2>3, <3>1, <3>2, <3>3
  <2>8. h.inE[new] = {} /\ h.outE[new] = {}
    <3>1. h.inE[new] \subseteq Edges /\ h.outE[new] \subseteq Edges
      BY <1>1, <2>6, HeapFields
    <3>2. \A e \in Edges : e \notin h.inE[new] /\ e \notin h.outE[new]
      BY <1>1, <2>6, <2>7 DEF EndsAgree, Edges, Vertices
    <3> QED BY <3>1, <3>2
  <2>9. v # new
    BY <1>1
  <2> DEFINE g == ReplaceVertex(h, Self, v, new)
  <2>10. /\ Joined(g, k + c) /\ g.edges = h.edges
         /\ g.verts[Self] = (h.verts[Self] \cup {new}) \ {v}
         /\ \A e \in Edges : /\ g.src[e] = IF h.src[e] = v THEN new ELSE h.src[e]
                             /\ g.tgt[e] = IF h.tgt[e] = v THEN new ELSE h.tgt[e]
         /\ \A w \in Vertices : g.index[w] = NoIndex => w # new /\ h.index[w] = NoIndex
    BY <1>1, <2>2, <2>8, <2>9, ReplaceVertexDoes
  <2>11. heap' = g
    BY <1>2, <1>9
  <2> HIDE DEF g
  <2>12. Joined(heap', Len(kinds'))
    BY <1>6, <2>10, <2>11
  <2>13. InGraph' = (InGraph \cup {new}) \ {v}
    BY <2>3, <2>10, <2>11 DEF InGraph
  <2>14. GraphEdges' = GraphEdges \cup (k + 1 .. k + c) /\ GraphEdges \subseteq Edges
    BY <2>3, <2>6, <2>10, <2>11 DEF GraphEdges
  <2>15. \A e \in GraphEdges :
           /\ heap'.src[e] = IF heap.src[e] = v THEN new ELSE heap.src[e]
           /\ heap'.tgt[e] = IF heap.tgt[e] = v THEN new ELSE heap.tgt[e]
    BY <2>3, <2>10, <2>11, <2>14
  <2>16. \A m \in 1 .. c :
           /\ kinds'[k + m] # "Impossible" /\ heap'.src[k + m] = new
           /\ heap'.tgt[k + m] \in InGraph /\ heap'.tgt[k + m] # v
           /\ kinds'[k + m] = ArmKind(s, m) /\ heap'.tgt[k + m] = labelMap[labels[m]]
    <3> SUFFICES ASSUME NEW m \in 1 .. c
                 PROVE  /\ kinds'[k + m] # "Impossible" /\ heap'.src[k + m] = new
                        /\ heap'.tgt[k + m] \in InGraph /\ heap'.tgt[k + m] # v
                        /\ kinds'[k + m] = ArmKind(s, m) /\ heap'.tgt[k + m] = labelMap[labels[m]]
      OBVIOUS
    <3>1. k + m \in Edges
      <4>1. k \in Nat /\ c \in Nat /\ k + c <= MaxEdges /\ MaxEdges \in Nat
        BY <1>4, BoundsAssumption
      <4> HIDE DEF k
      <4>2. k + m >= 1 /\ k + m <= MaxEdges /\ k + m \in Nat
        BY <4>1
      <4> QED BY <4>1, <4>2 DEF Edges
    <3>2. /\ h.src[k + m] = v /\ h.tgt[k + m] \in InGraph /\ h.tgt[k + m] # v
          /\ h.tgt[k + m] = labelMap[labels[m]]
      BY <1>1, <1>4, <2>2
    <3> QED BY <1>5, <1>6, <2>10, <2>11, <3>1, <3>2
  <2>17. \A e \in GraphEdges' \ GraphEdges :
           /\ kinds'[e] # "Impossible"
           /\ heap'.src[e] = new /\ heap'.tgt[e] \in InGraph /\ heap'.tgt[e] # v
           /\ \E n \in DOMAIN labels :
                kinds'[e] = ArmKind(s, n) /\ heap'.tgt[e] = labelMap[labels[n]]
    <3> SUFFICES ASSUME NEW e \in k + 1 .. k + c
                 PROVE  /\ kinds'[e] # "Impossible"
                        /\ heap'.src[e] = new /\ heap'.tgt[e] \in InGraph /\ heap'.tgt[e] # v
                        /\ \E n \in DOMAIN labels :
                             kinds'[e] = ArmKind(s, n) /\ heap'.tgt[e] = labelMap[labels[n]]
      BY <2>14
    <3>1. PICK m \in 1 .. c : e = k + m
      BY <2>4
    <3>2. m \in DOMAIN labels
      BY <1>4
    <3> QED BY <2>16, <3>1, <3>2
  <2>18. k + 1 \in GraphEdges' /\ 1 \in 1 .. c
    BY <1>4, <2>1, <2>14
  <2>19. \A n \in DOMAIN labels : \E e \in GraphEdges' \ GraphEdges :
           kinds'[e] = ArmKind(s, n) /\ heap'.tgt[e] = labelMap[labels[n]]
    <3> SUFFICES ASSUME NEW n \in 1 .. c PROVE k + n \in GraphEdges' \ GraphEdges
      BY <1>4, <2>16
    <3>1. k + n \in k + 1 .. k + c /\ k + n \notin 1 .. k
      BY <1>4
    <3> QED BY <1>7, <2>14, <3>1
  <2> QED BY <2>3, <2>10, <2>11, <2>12, <2>13, <2>14, <2>15, <2>16, <2>17, <2>18, <2>19
<1>10. Len(kinds') <= MaxEdges /\ Len(kinds) <= Len(kinds')
  BY <1>4, <1>6
<1> QED BY <1>6, <1>7, <1>8, <1>9, <1>10 DEF labels, new, v, s

LEMMA LinkFlowControlKeeps == ASSUME CfgInv, LinkFlowControl PROVE CfgInv'
<1> DEFINE v == flow[i]
           new == Linked(v - 1)
           labels == Resolved(prog[v - 1])
<1>0. /\ TypeOK /\ ListsInv /\ FlowInv /\ LeadersInv /\ MembersInv /\ EdgesInv /\ WaysInv
      /\ EnteredInv /\ SearchInv /\ PruningInv
  BY DEF CfgInv, ListsInv
<1>1. /\ pc = "link" /\ pc' = "link" /\ i' = i + 1
      /\ UNCHANGED <<prog, back, warned, building, search, pruning>>
  BY DEF LinkFlowControl
<1>2. /\ prog' = prog /\ flow' = flow /\ leaders' = leaders /\ warned' = warned /\ doomed' = doomed
      /\ back' = back
  BY <1>1 DEF building, pruning
<1>3. /\ i \in DOMAIN flow /\ i \in Nat /\ Len(flow) \in Nat /\ v \in Vertices /\ v \in InGraph
      /\ v - 1 \in Jumps /\ v \in 2 .. MaxLen + 1
      /\ new \in Vertices /\ new \notin InGraph
      /\ TargetsDefined(prog) => labels # <<>>
  BY TheJump
<1>4. /\ kinds' \in Seq(Kind) /\ Len(kinds') <= MaxEdges /\ Len(kinds) <= Len(kinds')
      /\ \A e \in GraphEdges : kinds'[e] = kinds[e]
      /\ labels = <<>> => heap' = heap /\ kinds' = kinds
      /\ labels # <<>> =>
           /\ Joined(heap', Len(kinds'))
           /\ InGraph' = (InGraph \cup {new}) \ {v}
           /\ \A w \in Vertices : heap'.index[w] = NoIndex => w # new /\ heap.index[w] = NoIndex
           /\ GraphEdges \subseteq GraphEdges'
           /\ \A e \in GraphEdges :
                /\ heap'.src[e] = IF heap.src[e] = v THEN new ELSE heap.src[e]
                /\ heap'.tgt[e] = IF heap.tgt[e] = v THEN new ELSE heap.tgt[e]
           /\ \A e \in GraphEdges' \ GraphEdges :
                /\ kinds'[e] # "Impossible"
                /\ heap'.src[e] = new /\ heap'.tgt[e] \in InGraph /\ heap'.tgt[e] # v
           /\ \E e \in GraphEdges' : heap'.src[e] = new /\ kinds'[e] # "Impossible"
  BY JumpLinked
<1>5. /\ MaxLen \in Nat /\ Len(prog) \in 0 .. MaxLen /\ Added = 1 .. Len(prog)
      /\ InGraph \subseteq Vertices /\ \A w \in Vertices : w \in Int
      /\ new = MaxLen + v /\ Stmt(v - 1) = v
  <2>1. MaxLen \in Nat /\ Len(prog) \in 0 .. MaxLen /\ InGraph \subseteq Vertices
    BY <1>0, TheProgram, TheGraph
  <2>2. Added = 1 .. Len(prog)
    BY <1>1 DEF Added
  <2>3. \A w \in Vertices : w \in Int
    BY <2>1 DEF Vertices
  <2>4. v \in Int
    BY <1>3, <2>3
  <2>5. new = MaxLen + v /\ Stmt(v - 1) = v
    <3> HIDE DEF v
    <3> QED BY <2>1, <2>4 DEF Linked, Stmt
  <2> QED BY <2>1, <2>2, <2>3, <2>5
<1> HIDE DEF new, labels, v
<1>6. Added' = Added
  BY <1>1, <1>2 DEF Added
<1>7. ListsInv' /\ Jumps' = Jumps /\ Watched' = Watched
  BY <1>0, <1>1, <1>6, LaterLists
<1>8. Jumps \subseteq Added
  BY DEF Jumps
<1>9. SearchInv' /\ PruningInv' /\ i' >= 1
  BY <1>0, <1>1, <1>2, <1>3 DEF SearchInv, Unsearched, PruningInv, search
<1>10. TypeOK'
  <2>1. heap' \in Heaps
    BY <1>0, <1>4 DEF Joined, TypeOK
  <2>2. Len(kinds') \in Nat /\ pc' \in Phase /\ i' \in Nat
    BY <1>1, <1>3, <1>4 DEF Phase
  <2>3. back' \subseteq 1 .. Len(kinds')
    BY <1>0, <1>2, <1>4, <2>2, MoreKinds
  <2> QED BY <1>0, <1>1, <1>4, <2>1, <2>2, <2>3, GraphStepTypes
<1>11. \A n \in DOMAIN flow : i < n => flow[n] # v
  <2> SUFFICES ASSUME NEW n \in DOMAIN flow, i < n PROVE flow[n] # v
    OBVIOUS
  <2>1. v < flow[n]
    BY <1>0, <1>3 DEF FlowInv, v
  <2> QED BY <1>3, <2>1
<1>12. \A n \in DOMAIN flow : n \in Int
  BY <1>0 DEF TypeOK
<1>13. CASE labels = <<>>
  <2>1. heap' = heap /\ kinds' = kinds /\ ~TargetsDefined(prog)
    BY <1>3, <1>4, <1>13
  <2>2. InGraph' = InGraph /\ GraphEdges' = GraphEdges
    BY <2>1 DEF InGraph, GraphEdges
  <2>3. MembersInv'
    <3>1. \A w : Waiting(w)' => Waiting(w)
      BY <1>1, <1>2, <1>3, <1>12 DEF Waiting
    <3> QED BY <1>0, <1>1, <1>2, <1>6, <1>7, <2>1, <2>2, <3>1 DEF MembersInv
  <2>4. EdgesInv'
    BY <1>0, <1>1, <1>2, <2>1, <2>2 DEF EdgesInv, IsReal
  <2>5. \A w : (LeadsOn(w) => LeadsOn(w)') /\ (HasIn(w) => HasIn(w)')
    BY <2>1, <2>2 DEF LeadsOn, HasIn, IsReal
  <2>6. WaysInv'
    BY <1>0, <1>1, <1>2, <1>7, <2>2, <2>5 DEF WaysInv
  <2>7. EnteredInv'
    BY <1>0, <1>1, <1>2, <1>7, <2>2, <2>5 DEF EnteredInv
  <2> QED BY <1>7, <1>9, <1>10, <2>3, <2>4, <2>6, <2>7 DEF CfgInv
<1>14. CASE labels # <<>>
  <2>1. /\ Joined(heap', Len(kinds'))
        /\ InGraph' = (InGraph \cup {new}) \ {v}
        /\ \A w \in Vertices : heap'.index[w] = NoIndex => w # new /\ heap.index[w] = NoIndex
        /\ GraphEdges \subseteq GraphEdges'
        /\ \A e \in GraphEdges :
             /\ heap'.src[e] = IF heap.src[e] = v THEN new ELSE heap.src[e]
             /\ heap'.tgt[e] = IF heap.tgt[e] = v THEN new ELSE heap.tgt[e]
        /\ \A e \in GraphEdges' \ GraphEdges :
             /\ kinds'[e] # "Impossible"
             /\ heap'.src[e] = new /\ heap'.tgt[e] \in InGraph /\ heap'.tgt[e] # v
        /\ \E e \in GraphEdges' : heap'.src[e] = new /\ kinds'[e] # "Impossible"
    BY <1>4, <1>14
  <2>2. \A w \in 0 .. MaxLen + 1 : w # new
    BY <1>3, <1>5
  <2>3. MembersInv'
    <3>1. Entry \in InGraph' /\ Exit \in InGraph'
      BY <1>0, <1>3, <2>1 DEF MembersInv, Entry, Exit
    <3>2. ASSUME NEW w \in InGraph'
          PROVE  \/ w \in {Entry, Exit} \/ w - 1 \in Added'
                 \/ w - Linked(0) \in Jumps' /\ Stmt(w - Linked(0)) \notin InGraph'
      <4>1. CASE w = new
        <5>1. w - Linked(0) = v - 1
          BY <1>3, <1>5, <4>1 DEF Linked
        <5> QED BY <1>3, <1>5, <1>7, <2>1, <5>1
      <4>2. CASE w \in InGraph /\ w - Linked(0) \in Jumps /\ Stmt(w - Linked(0)) \notin InGraph
        <5>1. w - Linked(0) \in 1 .. MaxLen
          <6>1. w - Linked(0) \in 1 .. Len(prog)
            BY <1>5, <1>8, <4>2
          <6> QED BY <1>5, <6>1
        <5>2. Stmt(w - Linked(0)) # new
          BY <1>5, <2>2, <5>1 DEF Stmt
        <5> QED BY <1>7, <2>1, <4>2, <5>2
      <4> QED BY <1>0, <1>6, <2>1, <4>1, <4>2 DEF MembersInv
    <3>3. \A m \in Added' \ Jumps' : Stmt(m) \in InGraph'
      <4> SUFFICES ASSUME NEW m \in Added, m \notin Jumps PROVE Stmt(m) \in InGraph'
        BY <1>6, <1>7
      <4>1. Stmt(m) # v
        BY <1>3, <1>5 DEF Stmt
      <4> QED BY <1>0, <1>1, <2>1, <4>1 DEF MembersInv
    <3>4. ASSUME NEW w \in Vertices, Waiting(w)' PROVE w \in InGraph'
      <4>1. PICK n \in DOMAIN flow : i + 1 <= n /\ flow[n] = w
        BY <1>1, <1>2, <3>4 DEF Waiting
      <4>2. Waiting(w) /\ w # v
        BY <1>1, <1>3, <1>11, <1>12, <4>1 DEF Waiting
      <4> QED BY <1>0, <2>1, <4>2 DEF MembersInv
    <3>5. ASSUME TargetsDefined(prog)', NEW m \in Jumps', (Stmt(m) \in InGraph)'
          PROVE  Waiting(Stmt(m))'
      <4> DEFINE w == Stmt(m)
      <4>1. m \in 1 .. MaxLen /\ m \in Jumps /\ TargetsDefined(prog)
        BY <1>2, <1>5, <1>7, <1>8, <3>5
      <4>2. w \in InGraph' /\ w # new
        BY <1>5, <2>2, <3>5, <4>1 DEF Stmt
      <4>3. w \in InGraph /\ w # v
        BY <2>1, <4>2
      <4>4. Waiting(w)
        BY <1>0, <1>1, <4>1, <4>3 DEF MembersInv
      <4>5. PICK n \in DOMAIN flow : i <= n /\ flow[n] = w
        BY <4>4 DEF Waiting
      <4>6. n # i
        BY <4>3, <4>5 DEF v
      <4>7. i + 1 <= n
        BY <1>3, <1>12, <4>5, <4>6
      <4>8. w' = w
        BY DEF Stmt
      <4> HIDE DEF w
      <4>9. Waiting(w)'
        BY <1>1, <1>2, <4>5, <4>7, <4>8 DEF Waiting
      <4> QED BY <4>9 DEF w
    <3>6. \A w \in Vertices : w \in InGraph' \/ w - 1 \in Added' => heap'.index[w] # NoIndex
      BY <1>0, <1>6, <2>1 DEF MembersInv
    <3> QED BY <3>1, <3>2, <3>3, <3>4, <3>5, <3>6 DEF MembersInv
  <2>4. ASSUME NEW e \in GraphEdges
        PROVE  /\ IsReal(e) /\ kinds'[e] # "Impossible"
               /\ heap.src[e] \in InGraph /\ heap.tgt[e] \in InGraph
               /\ heap'.src[e] \in InGraph' /\ heap'.tgt[e] \in InGraph'
    <3>1. IsReal(e) /\ heap.src[e] \in InGraph /\ heap.tgt[e] \in InGraph
      BY <1>0, <1>1 DEF EdgesInv
    <3>2. new # v
      BY <1>3
    <3> QED BY <1>4, <2>1, <3>1, <3>2 DEF IsReal
  <2>5. EdgesInv'
    <3>1. ASSUME NEW e \in GraphEdges'
          PROVE  heap'.src[e] \in InGraph' /\ heap'.tgt[e] \in InGraph' /\ kinds'[e] # "Impossible"
      <4>1. new # v
        BY <1>3
      <4> QED BY <2>1, <2>4, <3>1, <4>1
    <3>2. \A w \in InGraph' : heap'.index[w] # NoIndex
      <4>1. InGraph' \subseteq Vertices
        BY <1>3, <1>5, <2>1
      <4> QED BY <2>3, <4>1 DEF MembersInv
    <3> QED BY <2>1, <3>1, <3>2 DEF EdgesInv, IsReal
  <2>6. WaysInv'
    <3> SUFFICES ASSUME NEW w \in InGraph'
                 PROVE  w = Exit \/ w - 1 \in Jumps' \/ w \in doomed' \/ LeadsOn(w)'
      BY DEF WaysInv
    <3>1. CASE w = new
      BY <2>1, <3>1 DEF LeadsOn, IsReal
    <3>2. CASE w \in InGraph /\ w # v
      <4>1. LeadsOn(w) => LeadsOn(w)'
        BY <2>1, <2>4, <3>2 DEF LeadsOn, IsReal
      <4> QED BY <1>0, <1>1, <1>2, <1>7, <3>2, <4>1 DEF WaysInv
    <3> QED BY <2>1, <3>1, <3>2
  <2>7. EnteredInv'
    <3>1. \A w \in Watched : w - 1 \in Added
      BY <1>0 DEF LeadersInv, Watched
    <3>2. ASSUME NEW w \in InGraph'
          PROVE  \/ HasIn(w)' \/ w \in {Entry, Exit} \/ w \in Watched'
                 \/ w - MaxLen \in Watched' \/ w \in doomed'
      <4>1. CASE w = new
        <5>1. v - MaxLen \notin Watched /\ v \notin {Entry, Exit} /\ v \notin doomed
          <6>1. v - MaxLen - 1 \notin Added
            BY <1>3, <1>5
          <6> QED BY <1>0, <1>1, <1>3, <3>1, <6>1 DEF Entry, Exit, PruningInv
        <5>2. HasIn(v) \/ v \in Watched
          BY <1>0, <1>1, <1>3, <5>1 DEF EnteredInv
        <5>3. HasIn(v) => HasIn(w)'
          BY <2>1, <2>4, <4>1 DEF HasIn
        <5>4. w - MaxLen = v
          BY <1>3, <1>5, <4>1
        <5> QED BY <1>7, <5>2, <5>3, <5>4
      <4>2. CASE w \in InGraph /\ w # v
        <5>1. HasIn(w) => HasIn(w)'
          BY <2>1, <2>4, <4>2 DEF HasIn
        <5> QED BY <1>0, <1>2, <1>7, <4>2, <5>1 DEF EnteredInv
      <4> QED BY <2>1, <4>1, <4>2
    <3> QED BY <1>0, <1>1, <1>2, <3>2 DEF EnteredInv
  <2> QED BY <1>7, <1>9, <1>10, <2>3, <2>5, <2>6, <2>7 DEF CfgInv
<1> QED BY <1>13, <1>14

-----------------------------------------------------------------------------
(* Once the jumps are linked, Impossible edges are all the graph gains.    *)

LEMMA GraphGrows ==
  ASSUME CfgInv, UNCHANGED <<prog, building>>, doomed' = doomed,
         pc \notin {"statements", "done"}, pc' \notin {"statements", "link", "done"},
         \A v \in Vertices : ~Waiting(v),
         Joined(heap', Len(kinds')), heap'.verts = heap.verts, heap'.index = heap.index,
         EdgesCarried,
         \A e \in GraphEdges' \ GraphEdges :
           /\ kinds'[e] = "Impossible" /\ heap.index[heap'.src[e]] # NoIndex
           /\ TargetsDefined(prog) /\ heap'.src[e] \in InGraph => heap'.tgt[e] \in InGraph
  PROVE  /\ ListsInv' /\ MembersInv' /\ EdgesInv' /\ WaysInv'
         /\ Watched' = Watched /\ InGraph' = InGraph
         /\ \A v : HasIn(v) => HasIn(v)'
<1>0. /\ TypeOK /\ ListsInv /\ MembersInv /\ EdgesInv /\ WaysInv /\ InGraph \subseteq Vertices
      /\ prog' = prog
  BY TheGraph DEF CfgInv
<1>1. Added' = Added /\ InGraph' = InGraph
  BY <1>0 DEF Added, InGraph
<1>2. ListsInv' /\ Jumps' = Jumps /\ Watched' = Watched
  BY <1>0, <1>1, LaterLists
<1>3. MembersInv'
  <2>1. TargetsDefined(prog) => \A m \in Jumps : Stmt(m) \notin InGraph
    BY <1>0 DEF MembersInv
  <2>2. \A v : ~Waiting(v)'
    BY DEF Waiting
  <2>3. \A v \in InGraph' :
          \/ v \in {Entry, Exit} \/ v - 1 \in Added'
          \/ v - Linked(0) \in Jumps' /\ Stmt(v - Linked(0)) \notin InGraph'
    BY <1>0, <1>1, <1>2 DEF MembersInv
  <2>4. \A m \in Added' \ Jumps' : Stmt(m) \in InGraph'
    BY <1>0, <1>1, <1>2 DEF MembersInv
  <2>5. TargetsDefined(prog)' => \A m \in Jumps' : Stmt(m) \notin InGraph'
    BY <1>0, <1>1, <1>2, <2>1
  <2>6. \A v \in Vertices : v \in InGraph' \/ v - 1 \in Added' => heap'.index[v] # NoIndex
    BY <1>0, <1>1 DEF MembersInv
  <2>7. Entry \in InGraph' /\ Exit \in InGraph'
    BY <1>0, <1>1 DEF MembersInv
  <2> QED BY <2>2, <2>3, <2>4, <2>5, <2>6, <2>7 DEF MembersInv
<1>4. EdgesInv'
  <2>1. ASSUME NEW e \in GraphEdges'
        PROVE  /\ kinds'[e] # "Impossible" => heap'.src[e] \in InGraph' /\ heap'.tgt[e] \in InGraph'
               /\ TargetsDefined(prog)' /\ heap'.src[e] \in InGraph' => heap'.tgt[e] \in InGraph'
               /\ heap'.index[heap'.src[e]] # NoIndex
    <3>1. CASE e \in GraphEdges
      BY <1>0, <1>1, <3>1 DEF EdgesInv, EdgesCarried, IsReal
    <3>2. CASE e \notin GraphEdges
      BY <1>0, <1>1, <2>1, <3>2
    <3> QED BY <3>1, <3>2
  <2> QED BY <2>1 DEF EdgesInv, IsReal
<1>5. WaysInv'
  <2> SUFFICES ASSUME NEW v \in InGraph
               PROVE  v = Exit \/ v - 1 \in Jumps' \/ v \in doomed' \/ LeadsOn(v)'
    BY <1>1 DEF WaysInv
  <2>1. LeadsOn(v) => LeadsOn(v)'
    BY WaysCarried
  <2> QED BY <1>0, <1>2, <2>1 DEF WaysInv
<1>6. \A v : HasIn(v) => HasIn(v)'
  BY WaysCarried
<1> QED BY <1>1, <1>2, <1>3, <1>4, <1>5, <1>6

(* No edge more.                                                           *)
LEMMA GraphStays ==
  ASSUME CfgInv, UNCHANGED <<prog, building, heap, kinds>>, doomed' = doomed,
         pc \notin {"statements", "done"}, pc' \notin {"statements", "link", "done"},
         \A v \in Vertices : ~Waiting(v)
  PROVE  /\ ListsInv' /\ MembersInv' /\ EdgesInv' /\ WaysInv'
         /\ Watched' = Watched /\ InGraph' = InGraph /\ GraphEdges' = GraphEdges
         /\ \A v : HasIn(v) => HasIn(v)'
<1>1. GraphEdges' = GraphEdges /\ EdgesCarried
  BY DEF GraphEdges, EdgesCarried
<1>2. Joined(heap', Len(kinds'))
  BY DEF CfgInv, EdgesInv
<1>3. /\ heap'.verts = heap.verts /\ heap'.index = heap.index
      /\ \A e \in GraphEdges' \ GraphEdges :
           /\ kinds'[e] = "Impossible" /\ heap.index[heap'.src[e]] # NoIndex
           /\ TargetsDefined(prog) /\ heap'.src[e] \in InGraph => heap'.tgt[e] \in InGraph
  BY <1>1
<1> QED BY <1>1, <1>2, <1>3, GraphGrows

LEMMA NoneWaiting ==
  ASSUME pc # "link" \/ \A n \in DOMAIN flow : ~(i <= n)
  PROVE  \A v \in Vertices : ~Waiting(v)
  BY DEF Waiting

LEMMA TheInEdges ==
  ASSUME TypeOK, EdgesInv, NEW v \in Vertices
  PROVE  ~InDegreeIs0(heap, v) <=> HasIn(v)
<1>1. /\ heap \in Heaps /\ EndsAgree(heap) /\ GraphEdges \subseteq Edges
      /\ \A e \in Edges \ GraphEdges : heap.tgt[e] = Null
  BY HeapFields DEF EdgesInv, Joined, GraphEdges
<1>2. heap.inE[v] \subseteq Edges
  BY <1>1, HeapFields
<1>3. \A e \in Edges : e \in heap.inE[v] <=> heap.tgt[e] = v
  BY <1>1 DEF EndsAgree, Edges, Vertices
<1>4. v # Null
  BY DEF Null, Vertices
<1> QED BY <1>1, <1>2, <1>3, <1>4 DEF InDegreeIs0, HasIn

LEMMA LinkingCompleteKeeps == ASSUME CfgInv, LinkingComplete PROVE CfgInv'
<1>0. TypeOK /\ EnteredInv /\ SearchInv /\ PruningInv
  BY DEF CfgInv
<1>1. /\ pc = "link" /\ i > Len(flow) /\ pc' = "leaders" /\ i' = 1
      /\ UNCHANGED <<prog, heap, kinds, back, warned, building, search, pruning>>
  BY DEF LinkingComplete, GoTo
<1>2. \A v \in Vertices : ~Waiting(v)
  <2>1. \A n \in DOMAIN flow : n \in 1 .. Len(flow) /\ Len(flow) \in Nat /\ i \in Nat
    BY <1>0 DEF TypeOK
  <2>2. \A n \in DOMAIN flow : ~(i <= n)
    BY <1>1, <2>1
  <2> QED BY <2>2, NoneWaiting
<1>3. /\ leaders' = leaders /\ doomed' = doomed /\ warned' = warned
      /\ stack' = stack /\ found' = found /\ order' = order
  BY <1>1 DEF building, search, pruning
<1>4. /\ ListsInv' /\ MembersInv' /\ EdgesInv' /\ WaysInv'
      /\ Watched' = Watched /\ InGraph' = InGraph /\ GraphEdges' = GraphEdges
      /\ \A v : HasIn(v) => HasIn(v)'
  BY <1>1, <1>2, <1>3, GraphStays
<1>5. TypeOK'
  BY <1>0, <1>1, GraphStepTypes DEF TypeOK, Phase
<1>6. EnteredInv'
  <2>1. \A n \in DOMAIN leaders : n \in Nat /\ ~(n < 1)
    BY <1>0 DEF TypeOK
  <2> QED BY <1>0, <1>1, <1>3, <1>4, <2>1 DEF EnteredInv
<1>7. SearchInv' /\ PruningInv' /\ i' >= 1
  BY <1>0, <1>1, <1>3 DEF SearchInv, Unsearched, PruningInv
<1> QED BY <1>4, <1>5, <1>6, <1>7 DEF CfgInv

LEMMA TheLeaders ==
  ASSUME TypeOK, NEW n \in DOMAIN leaders
  PROVE  n \in 1 .. Len(leaders) /\ leaders[n].leader \in Vertices /\ leaders[n].pred \in Vertices
<1> DEFINE R == [leader : Vertices, pred : Vertices]
<1>1. leaders \in Seq(R)
  BY DEF TypeOK
<1>2. \A r \in R : r.leader \in Vertices /\ r.pred \in Vertices
  OBVIOUS
<1> HIDE DEF R
<1>3. n \in 1 .. Len(leaders) /\ leaders[n] \in R
  BY <1>1
<1> QED BY <1>2, <1>3

LEMMA TheLeader ==
  ASSUME CfgInv, pc = "leaders", NEW n \in DOMAIN leaders
  PROVE  /\ leaders[n].leader \in Vertices /\ leaders[n].pred \in Vertices
         /\ leaders[n].leader \in Watched
         /\ heap.index[leaders[n].pred] # NoIndex
         /\ TargetsDefined(prog) => leaders[n].pred \notin InGraph
<1> DEFINE p == leaders[n]
<1>1. TypeOK /\ LeadersInv /\ MembersInv
  BY DEF CfgInv, ListsInv
<1>2. p.leader \in Vertices /\ p.pred \in Vertices
  BY <1>1, TheLeaders
<1>3. p.leader \in Watched
  BY DEF Watched
<1>4. p.pred = p.leader - 1 /\ p.leader - 2 \in Jumps /\ p.pred \in Int /\ p.leader \in Int
  BY <1>1, <1>2, TheProgram DEF LeadersInv, Vertices
<1>5. p.pred - 1 = p.leader - 2
  BY <1>4
<1>6. p.pred - 1 \in Jumps /\ p.pred - 1 \in Added /\ Stmt(p.pred - 1) = p.pred
  BY <1>4, <1>5 DEF Jumps, Stmt
<1>7. heap.index[p.pred] # NoIndex
  BY <1>1, <1>2, <1>6 DEF MembersInv
<1>8. ~Waiting(p.pred)
  BY DEF Waiting
<1>9. TargetsDefined(prog) => p.pred \notin InGraph
  BY <1>1, <1>6, <1>8 DEF MembersInv
<1> QED BY <1>2, <1>3, <1>7, <1>9

LEMMA AddImpossibleEdgeKeeps == ASSUME CfgInv, AddImpossibleEdge PROVE CfgInv'
<1> DEFINE p == leaders[i]
<1>0. TypeOK /\ EdgesInv /\ EnteredInv /\ SearchInv /\ PruningInv
  BY DEF CfgInv
<1>1. /\ pc = "leaders" /\ pc' = "leaders" /\ i' = i + 1 /\ i <= Len(leaders)
      /\ UNCHANGED <<prog, back, warned, building, search, pruning>>
  BY DEF AddImpossibleEdge
<1>2. i \in DOMAIN leaders /\ i \in Nat /\ \A n \in DOMAIN leaders : n \in Nat
  BY <1>0, <1>1 DEF TypeOK, CfgInv
<1>3. /\ p.leader \in Vertices /\ p.pred \in Vertices /\ p.leader \in Watched
      /\ heap.index[p.pred] # NoIndex
      /\ TargetsDefined(prog) => p.pred \notin InGraph
  BY <1>1, <1>2, TheLeader
<1>4. \A v \in Vertices : ~Waiting(v)
  BY <1>1, NoneWaiting
<1>5. /\ leaders' = leaders /\ doomed' = doomed /\ warned' = warned /\ back' = back
      /\ stack' = stack /\ found' = found /\ order' = order
  BY <1>1 DEF building, search, pruning
<1>6. Joined(heap, Len(kinds)) /\ heap \in Heaps /\ SameEdges(heap, heap)
  BY <1>0 DEF EdgesInv, Joined, SameEdges
<1>7. /\ Joined(heap', Len(kinds')) /\ heap'.verts = heap.verts /\ heap'.index = heap.index
      /\ EdgesCarried /\ kinds' \in Seq(Kind) /\ Len(kinds') <= MaxEdges
      /\ Len(kinds) <= Len(kinds')
      /\ \A e \in GraphEdges' \ GraphEdges :
           heap'.src[e] = p.pred /\ heap'.tgt[e] = p.leader /\ kinds'[e] = "Impossible"
      /\ \E e \in GraphEdges' : heap'.tgt[e] = p.leader
  <2>1. CASE InDegreeIs0(heap, p.leader)
    <3>1. /\ Room(1) /\ heap' = AddEdge(heap, Self, p.pred, p.leader, NewEdge)
          /\ kinds' = Append(kinds, "Impossible") /\ "Impossible" \in Kind
      BY <2>1 DEF AddImpossibleEdge, Kind
    <3>2. /\ Joined(heap', Len(kinds')) /\ heap'.verts = heap.verts
          /\ heap'.index = heap.index /\ EdgesCarried
          /\ GraphEdges' = GraphEdges \cup {NewEdge}
          /\ heap'.src[NewEdge] = p.pred /\ heap'.tgt[NewEdge] = p.leader
          /\ kinds'[NewEdge] = "Impossible"
      BY <1>0, <1>3, <1>6, <3>1, OneEdgeMore
    <3>3. kinds' \in Seq(Kind) /\ Len(kinds') <= MaxEdges /\ Len(kinds) <= Len(kinds')
      BY <1>0, <3>1, TheKinds
    <3> QED BY <3>2, <3>3
  <2>2. CASE ~InDegreeIs0(heap, p.leader)
    <3>1. heap' = heap /\ kinds' = kinds
      BY <2>2 DEF AddImpossibleEdge
    <3>2. EdgesCarried /\ GraphEdges' = GraphEdges
      BY <3>1 DEF EdgesCarried, GraphEdges
    <3>3. HasIn(p.leader)
      BY <1>0, <1>3, <2>2, TheInEdges
    <3>4. kinds \in Seq(Kind) /\ Len(kinds) <= MaxEdges /\ Len(kinds) \in Nat
      BY <1>0 DEF TypeOK
    <3>5. \E e \in GraphEdges' : heap'.tgt[e] = p.leader
      BY <3>1, <3>2, <3>3 DEF HasIn
    <3> QED BY <1>6, <3>1, <3>2, <3>4, <3>5
  <2> QED BY <2>1, <2>2
<1>8. pc' \in Phase /\ i' \in Nat /\ i' >= 1 /\ heap' \in Heaps
  BY <1>1, <1>2, <1>7 DEF Phase, Joined
<1>9. /\ ListsInv' /\ MembersInv' /\ EdgesInv' /\ WaysInv'
      /\ Watched' = Watched /\ InGraph' = InGraph
      /\ \A v : HasIn(v) => HasIn(v)'
  BY <1>1, <1>3, <1>4, <1>5, <1>7, GraphGrows
<1>10. TypeOK'
  <2>1. back' \subseteq 1 .. Len(kinds')
    BY <1>0, <1>5, <1>7, MoreKinds
  <2> QED BY <1>0, <1>1, <1>7, <1>8, <2>1, GraphStepTypes
<1>11. EnteredInv'
  <2>1. ASSUME NEW n \in DOMAIN leaders, n < i + 1
        PROVE  \E e \in GraphEdges' : heap'.tgt[e] = leaders[n].leader
    <3>1. CASE n = i
      BY <1>7, <3>1
    <3>2. CASE n < i
      <4>1. HasIn(leaders[n].leader)
        BY <1>0, <1>1, <3>2 DEF EnteredInv
      <4> QED BY <1>7, <4>1 DEF HasIn, EdgesCarried
    <3> QED BY <1>2, <2>1, <3>1, <3>2
  <2>2. \A n \in DOMAIN leaders' : n < i' =>
          \E e \in GraphEdges' : heap'.tgt[e] = leaders'[n].leader
    BY <1>1, <1>5, <2>1
  <2>3. \A v \in InGraph' :
          HasIn(v)' \/ v \in {Entry, Exit} \/ v \in Watched' \/ v - MaxLen \in Watched' \/ v \in doomed'
    BY <1>0, <1>1, <1>5, <1>9 DEF EnteredInv
  <2> QED BY <1>0, <1>1, <1>5, <2>2, <2>3 DEF EnteredInv, HasIn
<1>12. SearchInv' /\ PruningInv'
  BY <1>0, <1>1, <1>5 DEF SearchInv, Unsearched, PruningInv
<1> QED BY <1>8, <1>9, <1>10, <1>11, <1>12 DEF CfgInv

LEMMA LeadersCompleteKeeps == ASSUME CfgInv, LeadersComplete PROVE CfgInv'
<1>0. TypeOK /\ EnteredInv /\ SearchInv /\ PruningInv
  BY DEF CfgInv
<1>1. /\ pc = "leaders" /\ i > Len(leaders) /\ pc' = "check" /\ i' = 1
      /\ UNCHANGED <<prog, heap, kinds, back, warned, building, search, pruning>>
  BY DEF LeadersComplete, GoTo
<1>2. \A v \in Vertices : ~Waiting(v)
  BY <1>1, NoneWaiting
<1>3. /\ leaders' = leaders /\ doomed' = doomed /\ warned' = warned
      /\ stack' = stack /\ found' = found /\ order' = order
  BY <1>1 DEF building, search, pruning
<1>4. /\ ListsInv' /\ MembersInv' /\ EdgesInv' /\ WaysInv'
      /\ Watched' = Watched /\ InGraph' = InGraph /\ GraphEdges' = GraphEdges
      /\ \A v : HasIn(v) => HasIn(v)'
  BY <1>1, <1>2, <1>3, GraphStays
<1>5. TypeOK'
  BY <1>0, <1>1, GraphStepTypes DEF TypeOK, Phase
<1>6. EnteredInv'
  <2>1. \A n \in DOMAIN leaders : n < i
    <3>1. \A n \in DOMAIN leaders : n \in 1 .. Len(leaders) /\ Len(leaders) \in Nat /\ i \in Nat
      BY <1>0 DEF TypeOK
    <3> QED BY <1>1, <3>1
  <2>2. \A n \in DOMAIN leaders : HasIn(leaders[n].leader)
    BY <1>0, <1>1, <2>1 DEF EnteredInv
  <2>3. \A v \in Watched : HasIn(v)
    BY <2>2 DEF Watched
  <2>4. \A n \in DOMAIN leaders' : \E e \in GraphEdges' : heap'.tgt[e] = leaders'[n].leader
    BY <1>1, <1>3, <1>4, <2>2 DEF HasIn
  <2>5. \A v \in InGraph' :
          HasIn(v)' \/ v \in {Entry, Exit} \/ v - MaxLen \in Watched' \/ v \in doomed'
    BY <1>0, <1>1, <1>3, <1>4, <2>3 DEF EnteredInv
  <2> QED BY <1>0, <1>1, <1>3, <2>4, <2>5 DEF EnteredInv, HasIn
<1>7. SearchInv' /\ PruningInv' /\ i' >= 1
  BY <1>0, <1>1, <1>3 DEF SearchInv, Unsearched, PruningInv
<1> QED BY <1>4, <1>5, <1>6, <1>7 DEF CfgInv

LEMMA CheckForNoInEdgesKeeps == ASSUME CfgInv, CheckForNoInEdges PROVE CfgInv'
<1>0. TypeOK /\ EdgesInv /\ EnteredInv /\ SearchInv /\ PruningInv
  BY DEF CfgInv
<1>1. /\ pc = "check" /\ pc' = "selfedges" /\ i' = 1
      /\ warned' = {v \in Watched : InDegreeIs0(heap, v)}
      /\ UNCHANGED <<prog, heap, kinds, back, building, search, pruning>>
  BY DEF CheckForNoInEdges, GoTo
<1>2. \A v \in Vertices : ~Waiting(v)
  BY <1>1, NoneWaiting
<1>3. /\ leaders' = leaders /\ doomed' = doomed
      /\ stack' = stack /\ found' = found /\ order' = order
  BY <1>1 DEF building, search, pruning
<1>4. /\ ListsInv' /\ MembersInv' /\ EdgesInv' /\ WaysInv'
      /\ Watched' = Watched /\ InGraph' = InGraph /\ GraphEdges' = GraphEdges
      /\ \A v : HasIn(v) => HasIn(v)'
  BY <1>1, <1>2, <1>3, GraphStays
<1>5. \A v \in Watched : v \in Vertices /\ HasIn(v)
  <2>1. \A n \in DOMAIN leaders : leaders[n].leader \in Vertices
    BY <1>0, TheLeaders
  <2>2. \A n \in DOMAIN leaders : HasIn(leaders[n].leader)
    BY <1>0, <1>1 DEF EnteredInv
  <2> QED BY <2>1, <2>2 DEF Watched
<1>6. warned' = {} /\ warned = {}
  <2>1. \A v \in Watched : ~InDegreeIs0(heap, v)
    BY <1>0, <1>5, TheInEdges
  <2> QED BY <1>0, <1>1, <2>1 DEF EnteredInv
<1>7. TypeOK'
  <2>1. UNCHANGED <<prog, warned, building, search, pruning>>
    BY <1>1, <1>6
  <2> QED BY <1>0, <1>1, <2>1, GraphStepTypes DEF TypeOK, Phase
<1>8. EnteredInv'
  BY <1>0, <1>1, <1>3, <1>4, <1>5, <1>6 DEF EnteredInv
<1>9. SearchInv' /\ PruningInv' /\ i' >= 1
  BY <1>0, <1>1, <1>3 DEF SearchInv, Unsearched, PruningInv
<1> QED BY <1>4, <1>7, <1>8, <1>9 DEF CfgInv

(* The two self edges.                                                     *)
LEMMA SelfEdgesAdded ==
  ASSUME CfgInv, AddSelfEdges
  PROVE  LET k == Len(kinds) IN
         /\ Joined(heap', k + 2) /\ kinds' \in Seq(Kind) /\ Len(kinds') = k + 2
         /\ k \in Nat /\ k + 2 <= MaxEdges
         /\ heap'.verts = heap.verts /\ heap'.index = heap.index /\ EdgesCarried
         /\ GraphEdges' = GraphEdges \cup {k + 1, k + 2}
         /\ kinds'[k + 1] = "Impossible" /\ kinds'[k + 2] = "Impossible"
         /\ heap'.src[k + 1] = Entry /\ heap'.tgt[k + 1] = Entry
         /\ heap'.src[k + 2] = Exit /\ heap'.tgt[k + 2] = Exit
<1> DEFINE k == Len(kinds)
           one == AddEdge(heap, Self, Entry, Entry, k + 1)
<1>0. TypeOK /\ MembersInv /\ Joined(heap, k)
  BY DEF CfgInv, EdgesInv
<1>1. /\ k + 2 <= MaxEdges
      /\ heap' = AddEdge(one, Self, Exit, Exit, k + 2)
      /\ kinds' = kinds \o <<"Impossible", "Impossible">>
  <2>1. kinds \in Seq(Kind)
    BY <1>0 DEF TypeOK
  <2>2. k \in Nat
    BY <2>1
  <2> HIDE DEF k
  <2>3. k + 1 + 1 = k + 2
    BY <2>2
  <2> USE DEF k
  <2> QED BY <2>3 DEF AddSelfEdges, Room, NewEdge
<1>2. k \in Nat /\ kinds \in Seq(Kind) /\ k <= MaxEdges
  BY <1>0 DEF TypeOK
<1>3. Entry \in Vertices /\ Exit \in Vertices /\ Entry \in InGraph /\ Exit \in InGraph
  BY <1>0, TheGraph DEF MembersInv
<1>4. /\ Joined(one, k + 1) /\ Gains(one, heap, {k + 1})
      /\ one.src[k + 1] = Entry /\ one.tgt[k + 1] = Entry
  <2>1. k + 1 <= MaxEdges
    BY <1>1, <1>2, BoundsAssumption
  <2> QED BY <1>0, <1>2, <1>3, <2>1, AddEdgeDoes
<1> HIDE DEF one
<1>5. /\ Joined(heap', k + 2) /\ Gains(heap', one, {k + 2})
      /\ heap'.src[k + 2] = Exit /\ heap'.tgt[k + 2] = Exit
  <2> DEFINE m == k + 1
  <2>1. m \in Nat /\ m + 1 = k + 2 /\ m + 1 <= MaxEdges
    <3>1. k + 1 \in Nat /\ k + 1 + 1 = k + 2
      BY <1>2
    <3> QED BY <1>1, <3>1
  <2>2. Joined(one, m)
    BY <1>4
  <2> HIDE DEF m
  <2>3. /\ Joined(AddEdge(one, Self, Exit, Exit, m + 1), m + 1)
        /\ Gains(AddEdge(one, Self, Exit, Exit, m + 1), one, {m + 1})
        /\ AddEdge(one, Self, Exit, Exit, m + 1).src[m + 1] = Exit
        /\ AddEdge(one, Self, Exit, Exit, m + 1).tgt[m + 1] = Exit
    BY <1>3, <2>1, <2>2, AddEdgeDoes
  <2> QED BY <1>1, <2>1, <2>3
<1>6. /\ kinds' \in Seq(Kind) /\ Len(kinds') = k + 2
      /\ \A e \in 1 .. k : kinds'[e] = kinds[e]
      /\ kinds'[k + 1] = "Impossible" /\ kinds'[k + 2] = "Impossible"
  <2> DEFINE two == <<"Impossible", "Impossible">>
  <2>1. two \in Seq(Kind) /\ Len(two) = 2 /\ two[1] = "Impossible" /\ two[2] = "Impossible"
    BY DEF Kind
  <2>2. kinds' = kinds \o two
    BY <1>1
  <2> HIDE DEF two
  <2>3. /\ kinds \o two \in Seq(Kind) /\ Len(kinds \o two) = Len(kinds) + Len(two)
        /\ \A n \in 1 .. Len(kinds) : (kinds \o two)[n] = kinds[n]
        /\ \A n \in 1 .. Len(two) : (kinds \o two)[Len(kinds) + n] = two[n]
    <3>1. kinds \in Seq(Kind) /\ two \in Seq(Kind)
      BY <1>2, <2>1
    <3> QED BY <3>1, Joining
  <2>4. 1 \in 1 .. 2 /\ 2 \in 1 .. 2
    OBVIOUS
  <2> QED BY <2>1, <2>2, <2>3, <2>4
<1>7. /\ GraphEdges' = GraphEdges \cup {k + 1, k + 2} /\ GraphEdges \subseteq 1 .. k
      /\ heap'.verts = heap.verts /\ heap'.index = heap.index /\ EdgesCarried
      /\ heap'.src[k + 1] = Entry /\ heap'.tgt[k + 1] = Entry
  <2>1. GraphEdges' = GraphEdges \cup {k + 1, k + 2}
    BY <1>4, <1>5 DEF Gains, GraphEdges
  <2>2. GraphEdges \subseteq 1 .. k
    BY <1>0 DEF Joined, GraphEdges
  <2>3. heap'.verts = heap.verts /\ heap'.index = heap.index
    BY <1>4, <1>5 DEF Gains, SameVertices
  <2>4. \A e \in one.edges[Self] : heap'.src[e] = one.src[e] /\ heap'.tgt[e] = one.tgt[e]
    BY <1>5 DEF Gains
  <2>5. one.edges[Self] = GraphEdges \cup {k + 1}
    BY <1>4 DEF Gains, GraphEdges
  <2>6. heap'.src[k + 1] = Entry /\ heap'.tgt[k + 1] = Entry
    BY <1>4, <2>4, <2>5
  <2>7. EdgesCarried
    <3>1. \A e \in GraphEdges : one.src[e] = heap.src[e] /\ one.tgt[e] = heap.tgt[e]
      BY <1>4 DEF Gains, GraphEdges
    <3> QED BY <1>6, <2>1, <2>2, <2>4, <2>5, <3>1 DEF EdgesCarried
  <2> QED BY <2>1, <2>2, <2>3, <2>6, <2>7
<1> QED BY <1>1, <1>2, <1>5, <1>6, <1>7

LEMMA AddSelfEdgesKeeps == ASSUME CfgInv, AddSelfEdges PROVE CfgInv'
<1> DEFINE k == Len(kinds)
<1>0. /\ TypeOK /\ MembersInv /\ EnteredInv /\ SearchInv /\ PruningInv
  BY DEF CfgInv
<1>1. /\ pc = "selfedges" /\ pc' = "dfs" /\ i' = 1
      /\ UNCHANGED <<prog, back, warned, building, search, pruning>>
  BY DEF AddSelfEdges, GoTo
<1>2. Entry \in InGraph /\ Exit \in InGraph /\ Entry \in Vertices /\ Exit \in Vertices
  BY <1>0, TheGraph DEF MembersInv
<1>3. /\ Joined(heap', k + 2) /\ kinds' \in Seq(Kind) /\ Len(kinds') = k + 2
      /\ k \in Nat /\ k + 2 <= MaxEdges
      /\ heap'.verts = heap.verts /\ heap'.index = heap.index /\ EdgesCarried
      /\ GraphEdges' = GraphEdges \cup {k + 1, k + 2}
      /\ kinds'[k + 1] = "Impossible" /\ kinds'[k + 2] = "Impossible"
      /\ heap'.src[k + 1] = Entry /\ heap'.tgt[k + 1] = Entry
      /\ heap'.src[k + 2] = Exit /\ heap'.tgt[k + 2] = Exit
  BY SelfEdgesAdded
<1>4. \A v \in Vertices : ~Waiting(v)
  BY <1>1, NoneWaiting
<1>5. /\ leaders' = leaders /\ doomed' = doomed /\ warned' = warned /\ back' = back
      /\ stack' = stack /\ found' = found /\ order' = order
  BY <1>1 DEF building, search, pruning
<1>6. /\ ListsInv' /\ MembersInv' /\ EdgesInv' /\ WaysInv'
       /\ Watched' = Watched /\ InGraph' = InGraph
       /\ \A v : HasIn(v) => HasIn(v)'
  <2>1. heap.index[Entry] # NoIndex /\ heap.index[Exit] # NoIndex
    BY <1>0, <1>2 DEF MembersInv
  <2>2. \A e \in GraphEdges' \ GraphEdges :
          /\ kinds'[e] = "Impossible" /\ heap.index[heap'.src[e]] # NoIndex
          /\ TargetsDefined(prog) /\ heap'.src[e] \in InGraph => heap'.tgt[e] \in InGraph
    BY <1>2, <1>3, <2>1
  <2>3. Joined(heap', Len(kinds'))
    BY <1>3
  <2> QED BY <1>1, <1>3, <1>4, <1>5, <2>2, <2>3, GraphGrows
<1>7. TypeOK'
  <2>1. heap' \in Heaps /\ Len(kinds') \in Nat /\ Len(kinds') <= MaxEdges
        /\ pc' \in Phase /\ i' \in Nat /\ Len(kinds) <= Len(kinds')
    BY <1>1, <1>3 DEF Joined, Phase
  <2>2. back' \subseteq 1 .. Len(kinds')
    BY <1>0, <1>5, <2>1, MoreKinds
  <2> QED BY <1>0, <1>1, <1>3, <2>1, <2>2, GraphStepTypes
<1>8. EnteredInv'
  <2>1. \A v \in {Entry, Exit} : HasIn(v)'
    <3>1. k + 1 \in GraphEdges' /\ k + 2 \in GraphEdges'
      BY <1>3
    <3> QED BY <1>3, <3>1 DEF HasIn
  <2> QED BY <1>0, <1>1, <1>5, <1>6, <2>1 DEF EnteredInv
<1>9. SearchInv' /\ PruningInv' /\ i' >= 1
  <2>1. SearchInv'
    <3>1. stack = <<>> /\ found = <<>> /\ \A v \in Vertices : order[v] = <<>>
      BY <1>0, <1>1 DEF SearchInv, Unsearched
    <3>2. DOMAIN <<>> = {}
      OBVIOUS
    <3> QED BY <1>1, <1>5, <3>1, <3>2 DEF SearchInv, Unsearched
  <2> QED BY <1>0, <1>1, <1>5, <2>1 DEF PruningInv
<1> QED BY <1>6, <1>7, <1>8, <1>9 DEF CfgInv

-----------------------------------------------------------------------------
(* The search and the back edges.                                          *)

LEMMA SearchStep ==
  ASSUME CfgInv, pc = "dfs", pc' \in {"dfs", "crashed"},
         UNCHANGED <<prog, i, heap, kinds, back, warned, building, pruning>>,
         seen' \subseteq Vertices, order' \in [Vertices -> Seq(Edges)],
         stack' \in Seq([v : Vertices, at : Nat]),
         found' \in Seq([edge : Edges, proxy : Vertices \cup {Null}]),
         SearchInv'
  PROVE  CfgInv'
<1>0. TypeOK /\ EnteredInv /\ PruningInv /\ i >= 1
  BY DEF CfgInv
<1>1. \A v \in Vertices : ~Waiting(v)
  BY NoneWaiting
<1>2. /\ leaders' = leaders /\ doomed' = doomed /\ warned' = warned /\ todo' = todo
      /\ prev' = prev /\ ended' = ended /\ labelMap' = labelMap /\ flow' = flow
  BY DEF building, pruning
<1>3. /\ ListsInv' /\ MembersInv' /\ EdgesInv' /\ WaysInv'
      /\ Watched' = Watched /\ InGraph' = InGraph /\ GraphEdges' = GraphEdges
      /\ \A v : HasIn(v) => HasIn(v)'
  BY <1>1, <1>2, GraphStays
<1>4. TypeOK'
  BY <1>0, <1>2 DEF TypeOK, Phase
<1>5. EnteredInv'
  BY <1>0, <1>2, <1>3 DEF EnteredInv
<1>6. PruningInv'
  BY <1>0, <1>2 DEF PruningInv
<1> QED BY <1>0, <1>3, <1>4, <1>5, <1>6 DEF CfgInv

(* An out-edge the search may examine, and where it leads.                 *)
LEMMA TheOutEdge ==
  ASSUME CfgInv, pc = "dfs", NEW v \in Vertices, NEW k \in DOMAIN order[v]
  PROVE  /\ order[v][k] \in GraphEdges /\ order[v][k] \in Edges
         /\ heap.src[order[v][k]] = v /\ heap.tgt[order[v][k]] \in Vertices
         /\ TargetsDefined(prog) /\ v \in InGraph => heap.tgt[order[v][k]] \in InGraph
<1> DEFINE e == order[v][k]
<1>1. TypeOK /\ EdgesInv /\ SearchInv /\ heap \in Heaps /\ GraphEdges \subseteq Edges
  BY TheGraph DEF CfgInv
<1>2. e \in heap.outE[v]
  BY <1>1 DEF SearchInv
<1> HIDE DEF e
<1>3. /\ EndsAgree(heap) /\ \A x \in Edges \ GraphEdges : heap.src[x] = Null
      /\ \A x \in GraphEdges : heap.tgt[x] \in Vertices
  BY <1>1 DEF EdgesInv, Joined, GraphEdges
<1>4. e \in Edges
  BY <1>1, <1>2, HeapFields
<1>5. heap.src[e] = v
  BY <1>2, <1>3, <1>4 DEF EndsAgree, Edges, Vertices
<1>6. e \in GraphEdges
  BY <1>3, <1>4, <1>5 DEF Null, Vertices
<1>7. TargetsDefined(prog) /\ v \in InGraph => heap.tgt[e] \in InGraph
  BY <1>1, <1>5, <1>6 DEF EdgesInv
<1> QED BY <1>3, <1>4, <1>5, <1>6, <1>7 DEF e

LEMMA TheStack ==
  ASSUME TypeOK, NEW n \in DOMAIN stack
  PROVE  n \in 1 .. Len(stack) /\ stack[n].v \in Vertices /\ stack[n].at \in Nat
<1> DEFINE R == [v : Vertices, at : Nat]
<1>1. stack \in Seq(R)
  BY DEF TypeOK
<1>2. \A r \in R : r.v \in Vertices /\ r.at \in Nat
  OBVIOUS
<1> HIDE DEF R
<1>3. n \in 1 .. Len(stack) /\ stack[n] \in R
  BY <1>1
<1> QED BY <1>2, <1>3

LEMMA TheTop ==
  ASSUME TypeOK, stack # <<>>
  PROVE  Len(stack) \in DOMAIN stack /\ Len(stack) \in Nat \ {0}
<1> DEFINE R == [v : Vertices, at : Nat]
<1>1. stack \in Seq(R)
  BY DEF TypeOK
<1> HIDE DEF R
<1> QED BY <1>1

(* The edge under examination, and the stack after it.                     *)
LEMMA TheExamined ==
  ASSUME CfgInv, pc = "dfs", stack # <<>>, MoreEdges
  PROVE  /\ Examined \in GraphEdges /\ Examined \in Edges
         /\ heap.src[Examined] = Top.v /\ heap.tgt[Examined] \in Vertices
         /\ TargetsDefined(prog) => Top.v \in InGraph /\ heap.tgt[Examined] \in InGraph
         /\ Advanced \in Seq([v : Vertices, at : Nat])
         /\ \A n \in DOMAIN Advanced : n \in DOMAIN stack /\ Advanced[n].v = stack[n].v
<1>1. TypeOK /\ SearchInv
  BY DEF CfgInv
<1>2. Len(stack) \in DOMAIN stack /\ Len(stack) \in Nat \ {0}
  BY <1>1, TheTop
<1>3. Top.v \in Vertices /\ Top.at \in Nat
  BY <1>1, <1>2, TheStack DEF Top
<1>4. Top.at + 1 \in DOMAIN order[Top.v]
  <2>1. order[Top.v] \in Seq(Edges)
    BY <1>1, <1>3 DEF TypeOK
  <2>2. Top.at < Len(order[Top.v])
    BY DEF MoreEdges
  <2> HIDE DEF Top
  <2> QED BY <1>3, <2>1, <2>2
<1>5. TargetsDefined(prog) => Top.v \in InGraph
  BY <1>1, <1>2 DEF SearchInv, Top
<1>6. /\ Examined \in GraphEdges /\ Examined \in Edges
      /\ heap.src[Examined] = Top.v /\ heap.tgt[Examined] \in Vertices
      /\ TargetsDefined(prog) => heap.tgt[Examined] \in InGraph
  BY <1>3, <1>4, <1>5, TheOutEdge DEF Examined
<1>7. /\ Advanced \in Seq([v : Vertices, at : Nat])
      /\ \A n \in DOMAIN Advanced : n \in DOMAIN stack /\ Advanced[n].v = stack[n].v
  <2> DEFINE R == [v : Vertices, at : Nat]
             moved == [stack[Len(stack)] EXCEPT !.at = stack[Len(stack)].at + 1]
  <2>1. stack \in Seq(R) /\ stack[Len(stack)] \in R /\ stack[Len(stack)].at \in Nat
    <3>1. stack \in Seq(R)
      BY <1>1 DEF TypeOK
    <3>2. stack[Len(stack)].at \in Nat
      BY <1>1, <1>2, TheStack
    <3> HIDE DEF R
    <3> QED BY <1>2, <3>1, <3>2
  <2>2. moved \in R /\ moved.v = stack[Len(stack)].v
    BY <2>1
  <2>3. Advanced = [stack EXCEPT ![Len(stack)] = moved]
    BY DEF Advanced
  <2> HIDE DEF moved, R
  <2>4. Advanced \in Seq(R) /\ DOMAIN Advanced = DOMAIN stack
    BY <1>2, <2>1, <2>2, <2>3
  <2>5. \A n \in DOMAIN stack : Advanced[n] = IF n = Len(stack) THEN moved ELSE stack[n]
    BY <1>2, <2>3
  <2> QED BY <2>2, <2>4, <2>5 DEF R
<1> QED BY <1>5, <1>6, <1>7

LEMMA DiscoverDoes ==
  ASSUME TypeOK, NEW v \in Vertices, Discover(v),
         \A w \in Vertices : \A k \in DOMAIN order[w] : order[w][k] \in heap.outE[w]
  PROVE  /\ seen' \subseteq Vertices /\ order' \in [Vertices -> Seq(Edges)]
         /\ \A w \in Vertices : \A k \in DOMAIN order'[w] : order'[w][k] \in heap.outE[w]
<1>1. /\ seen' = seen \cup {v} /\ seen \subseteq Vertices
      /\ order \in [Vertices -> Seq(Edges)] /\ heap.outE[v] \subseteq Edges
  BY HeapFields DEF Discover, TypeOK
<1>2. PICK o \in SX!SetToSeqs(heap.outE[v]) : order' = [order EXCEPT ![v] = o]
  BY DEF Discover
<1>3. Cardinality(heap.outE[v]) \in Nat
  <2>1. heap.outE[v] \in SUBSET (1 .. MaxEdges) /\ MaxEdges \in Nat
    BY <1>1, BoundsAssumption DEF Edges
  <2> QED BY <2>1, PositionsAreFinite
<1>4. o \in [1 .. Cardinality(heap.outE[v]) -> heap.outE[v]]
  BY <1>2, SequencesOf
<1>5. o \in Seq(Edges) /\ \A k \in DOMAIN o : o[k] \in heap.outE[v]
  <2> DEFINE c == Cardinality(heap.outE[v])
  <2>1. o \in [1 .. c -> Edges]
    BY <1>1, <1>4
  <2>2. c \in Nat
    BY <1>3
  <2> HIDE DEF c
  <2>3. o \in Seq(Edges)
    BY <2>1, <2>2
  <2> QED BY <1>4, <2>3
<1>6. order' \in [Vertices -> Seq(Edges)]
  BY <1>1, <1>2, <1>5
<1>7. \A w \in Vertices : order'[w] = IF w = v THEN o ELSE order[w]
  BY <1>1, <1>2
<1> QED BY <1>1, <1>5, <1>6, <1>7

LEMMA StartVisitKeeps == ASSUME CfgInv, StartVisit PROVE CfgInv'
<1>0. TypeOK /\ SearchInv /\ pc = "dfs" /\ InGraph \subseteq Vertices
  BY TheGraph DEF CfgInv, StartVisit
<1>1. PICK v \in InGraph \ seen : Discover(v) /\ stack' = <<[v |-> v, at |-> 0]>>
  BY DEF StartVisit
<1>2. UNCHANGED <<prog, pc, i, heap, kinds, back, warned, building, found, pruning>>
  BY DEF StartVisit
<1>3. /\ seen' \subseteq Vertices /\ order' \in [Vertices -> Seq(Edges)]
      /\ \A w \in Vertices : \A k \in DOMAIN order'[w] : order'[w][k] \in heap.outE[w]
  BY <1>0, <1>1, DiscoverDoes DEF SearchInv
<1>4. /\ stack' \in Seq([v : Vertices, at : Nat])
      /\ \A n \in DOMAIN stack' : stack'[n].v = v
  <2> DEFINE r == [v |-> v, at |-> 0]
             R == [v : Vertices, at : Nat]
  <2>1. r \in R /\ r.v = v /\ stack' = <<r>>
    BY <1>0, <1>1
  <2> HIDE DEF r, R
  <2>2. stack' \in Seq(R) /\ \A n \in DOMAIN stack' : stack'[n] = r
    BY <2>1
  <2> QED BY <2>1, <2>2 DEF R
<1>5. found' \in Seq([edge : Edges, proxy : Vertices \cup {Null}])
  BY <1>0, <1>2 DEF TypeOK
<1>6. SearchInv'
  <2>1. \A n \in DOMAIN stack' : stack'[n].v \in InGraph
    BY <1>1, <1>4
  <2>2. InGraph' = InGraph /\ GraphEdges' = GraphEdges
    BY <1>2 DEF InGraph, GraphEdges
  <2> QED BY <1>0, <1>2, <1>3, <2>1, <2>2 DEF SearchInv, Unsearched
<1> QED BY <1>0, <1>2, <1>3, <1>4, <1>5, <1>6, SearchStep

LEMMA TreeEdgeKeeps == ASSUME CfgInv, TreeEdge PROVE CfgInv'
<1> DEFINE w == heap.tgt[Examined]
<1>0. TypeOK /\ SearchInv /\ pc = "dfs" /\ stack # <<>> /\ MoreEdges
  BY DEF CfgInv, TreeEdge
<1>1. Discover(w) /\ stack' = Append(Advanced, [v |-> w, at |-> 0])
  BY DEF TreeEdge
<1>2. UNCHANGED <<prog, pc, i, heap, kinds, back, warned, building, found, pruning>>
  BY DEF TreeEdge
<1>3. /\ w \in Vertices /\ (TargetsDefined(prog) => w \in InGraph)
      /\ Advanced \in Seq([v : Vertices, at : Nat])
      /\ \A n \in DOMAIN Advanced : n \in DOMAIN stack /\ Advanced[n].v = stack[n].v
  BY <1>0, TheExamined
<1> HIDE DEF w
<1>4. /\ seen' \subseteq Vertices /\ order' \in [Vertices -> Seq(Edges)]
      /\ \A x \in Vertices : \A k \in DOMAIN order'[x] : order'[x][k] \in heap.outE[x]
  BY <1>0, <1>1, <1>3, DiscoverDoes DEF SearchInv
<1>5. /\ stack' \in Seq([v : Vertices, at : Nat])
      /\ \A n \in DOMAIN stack' :
           stack'[n].v = w \/ (n \in DOMAIN stack /\ stack'[n].v = stack[n].v)
  <2> DEFINE r == [v |-> w, at |-> 0]
             R == [v : Vertices, at : Nat]
  <2>1. r \in R /\ r.v = w /\ stack' = Append(Advanced, r) /\ Advanced \in Seq(R)
    BY <1>1, <1>3
  <2> HIDE DEF r, R
  <2>2. /\ stack' \in Seq(R)
        /\ \A n \in DOMAIN stack' : stack'[n] = r \/ (n \in DOMAIN Advanced /\ stack'[n] = Advanced[n])
    BY <2>1
  <2> QED BY <1>3, <2>1, <2>2 DEF R
<1>6. found' \in Seq([edge : Edges, proxy : Vertices \cup {Null}])
  BY <1>0, <1>2 DEF TypeOK
<1>7. SearchInv'
  <2>1. TargetsDefined(prog) => \A n \in DOMAIN stack' : stack'[n].v \in InGraph
    BY <1>0, <1>3, <1>5 DEF SearchInv
  <2>2. InGraph' = InGraph /\ GraphEdges' = GraphEdges
    BY <1>2 DEF InGraph, GraphEdges
  <2> QED BY <1>0, <1>2, <1>4, <2>1, <2>2 DEF SearchInv, Unsearched
<1> QED BY <1>0, <1>2, <1>4, <1>5, <1>6, <1>7, SearchStep

LEMMA ForwardOrCrossEdgeKeeps == ASSUME CfgInv, ForwardOrCrossEdge PROVE CfgInv'
<1>0. TypeOK /\ SearchInv /\ pc = "dfs" /\ stack # <<>> /\ MoreEdges
  BY DEF CfgInv, ForwardOrCrossEdge
<1>1. /\ stack' = Advanced
      /\ UNCHANGED <<prog, pc, i, heap, kinds, back, warned, building, seen, order, found, pruning>>
  BY DEF ForwardOrCrossEdge
<1>2. /\ Advanced \in Seq([v : Vertices, at : Nat])
      /\ \A n \in DOMAIN Advanced : n \in DOMAIN stack /\ Advanced[n].v = stack[n].v
  BY <1>0, TheExamined
<1>3. /\ seen' \subseteq Vertices /\ order' \in [Vertices -> Seq(Edges)]
      /\ found' \in Seq([edge : Edges, proxy : Vertices \cup {Null}])
  BY <1>0, <1>1 DEF TypeOK
<1>4. SearchInv'
  <2>1. InGraph' = InGraph /\ GraphEdges' = GraphEdges
    BY <1>1 DEF InGraph, GraphEdges
  <2> QED BY <1>0, <1>1, <1>2, <2>1 DEF SearchInv, Unsearched
<1> QED BY <1>0, <1>1, <1>2, <1>3, <1>4, SearchStep

LEMMA FinishVertexKeeps == ASSUME CfgInv, FinishVertex PROVE CfgInv'
<1>0. TypeOK /\ SearchInv /\ pc = "dfs" /\ stack # <<>>
  BY DEF CfgInv, FinishVertex
<1>1. /\ stack' = SubSeq(stack, 1, Len(stack) - 1)
      /\ UNCHANGED <<prog, pc, i, heap, kinds, back, warned, building, seen, order, found, pruning>>
  BY DEF FinishVertex
<1>2. /\ stack' \in Seq([v : Vertices, at : Nat])
      /\ \A n \in DOMAIN stack' : n \in DOMAIN stack /\ stack'[n] = stack[n]
  <2> DEFINE R == [v : Vertices, at : Nat]
  <2>1. stack \in Seq(R) /\ Len(stack) \in Nat \ {0}
    BY <1>0, TheTop DEF TypeOK
  <2> HIDE DEF R
  <2>2. stack' \in Seq(R) /\ \A n \in DOMAIN stack' : n \in DOMAIN stack /\ stack'[n] = stack[n]
    BY <1>1, <2>1
  <2> QED BY <2>2 DEF R
<1>3. /\ seen' \subseteq Vertices /\ order' \in [Vertices -> Seq(Edges)]
      /\ found' \in Seq([edge : Edges, proxy : Vertices \cup {Null}])
  BY <1>0, <1>1 DEF TypeOK
<1>4. SearchInv'
  <2>1. InGraph' = InGraph /\ GraphEdges' = GraphEdges
    BY <1>1 DEF InGraph, GraphEdges
  <2> QED BY <1>0, <1>1, <1>2, <2>1 DEF SearchInv, Unsearched
<1> QED BY <1>0, <1>1, <1>2, <1>3, <1>4, SearchStep

LEMMA MaxIsMember ==
  ASSUME NEW b \in Nat, NEW S \in SUBSET (1 .. b), S # {}
  PROVE  FS!Max(S) \in S
<1>1. S \in SUBSET Nat /\ \A n \in S : n <= b
  OBVIOUS
<1>2. PICK m \in S : \A n \in S : n <= m
  BY <1>1, GreatestNatural
<1>3. \E m2 \in S : \A n \in S : m2 >= n
  BY <1>1, <1>2
<1> QED BY <1>3 DEF FS!Max

LEMMA MinIsMember ==
  ASSUME NEW b \in Nat, NEW S \in SUBSET (1 .. b), S # {}
  PROVE  FS!Min(S) \in S
<1>1. S \in SUBSET Nat
  OBVIOUS
<1>2. PICK m \in S : \A n \in S : m <= n
  BY <1>1, LeastNatural
<1> QED BY <1>2 DEF FS!Min

LEMMA BackEdgeKeeps == ASSUME CfgInv, BackEdge PROVE CfgInv'
<1> DEFINE e == Examined
           v == heap.tgt[e]
           n == FS!Max(DecisionsAbove(v))
           u == stack[n].v
           k == FS!Min(OtherEdges(n))
           Proxy == IF DecisionsAbove(v) = {} THEN Null ELSE heap.tgt[order[u][k]]
<1>0. TypeOK /\ SearchInv /\ pc = "dfs" /\ stack # <<>> /\ MoreEdges
  BY DEF CfgInv, BackEdge
<1>1. /\ UNCHANGED <<prog, i, heap, kinds, back, warned, building, seen, order, pruning>>
      /\ IF DecisionsAbove(v) # {} /\ OtherEdges(n) = {}
         THEN pc' = "crashed" /\ UNCHANGED <<found, stack>>
         ELSE /\ found' = Append(found, [edge |-> e, proxy |-> Proxy])
              /\ stack' = Advanced
              /\ UNCHANGED pc
  BY DEF BackEdge
<1>2. /\ e \in GraphEdges /\ e \in Edges
      /\ TargetsDefined(prog) => heap.src[e] \in InGraph
      /\ Advanced \in Seq([v : Vertices, at : Nat])
      /\ \A m \in DOMAIN Advanced : m \in DOMAIN stack /\ Advanced[m].v = stack[m].v
  BY <1>0, TheExamined
<1>3. /\ seen' \subseteq Vertices /\ order' \in [Vertices -> Seq(Edges)]
      /\ stack \in Seq([v : Vertices, at : Nat])
      /\ found \in Seq([edge : Edges, proxy : Vertices \cup {Null}])
  BY <1>0, <1>1 DEF TypeOK
<1>4. CASE DecisionsAbove(v) # {} /\ OtherEdges(n) = {}
  <2>1. SearchInv' /\ pc' = "crashed"
    BY <1>1, <1>4 DEF SearchInv, Unsearched
  <2> QED BY <1>0, <1>1, <1>3, <1>4, <2>1, SearchStep
<1>5. CASE ~(DecisionsAbove(v) # {} /\ OtherEdges(n) = {})
  <2>1. /\ Proxy \in Vertices \cup {Null}
        /\ TargetsDefined(prog) => Proxy \in InGraph \cup {Null}
    <3>1. CASE DecisionsAbove(v) = {}
      BY <3>1
    <3>2. CASE DecisionsAbove(v) # {}
      <4>1. n \in 1 .. Len(stack) - 1
        <5>1. Len(stack) - 1 \in Nat
          BY <1>0, TheTop
        <5>2. DecisionsAbove(v) \in SUBSET (1 .. Len(stack) - 1)
          BY DEF DecisionsAbove
        <5>3. n \in DecisionsAbove(v)
          BY <3>2, <5>1, <5>2, MaxIsMember
        <5> QED BY <5>2, <5>3
      <4>2. n \in DOMAIN stack
        BY <1>0, <1>3, <4>1, TheTop
      <4> HIDE DEF n
      <4>3. u \in Vertices /\ (TargetsDefined(prog) => u \in InGraph)
        BY <1>0, <4>2, TheStack DEF SearchInv
      <4>4. k \in DOMAIN order[u]
        <5>1. order[u] \in Seq(Edges)
          BY <1>0, <4>3 DEF TypeOK
        <5>2. DOMAIN order[u] = 1 .. Len(order[u]) /\ Len(order[u]) \in Nat
          BY <5>1
        <5>3. OtherEdges(n) \in SUBSET (1 .. Len(order[u]))
          BY <5>2 DEF OtherEdges
        <5>4. k \in OtherEdges(n)
          BY <1>5, <3>2, <5>2, <5>3, MinIsMember
        <5> QED BY <5>2, <5>3, <5>4
      <4> HIDE DEF u, k
      <4>5. /\ heap.tgt[order[u][k]] \in Vertices
            /\ TargetsDefined(prog) => heap.tgt[order[u][k]] \in InGraph
        BY <1>0, <4>3, <4>4, TheOutEdge
      <4> QED BY <3>2, <4>5
    <3> QED BY <3>1, <3>2
  <2> DEFINE r == [edge |-> e, proxy |-> Proxy]
             R == [edge : Edges, proxy : Vertices \cup {Null}]
  <2>2. r \in R /\ r.edge = e /\ r.proxy = Proxy
    BY <1>2, <2>1
  <2>3. found' = Append(found, r) /\ found \in Seq(R) /\ stack' = Advanced /\ pc' = pc
    BY <1>1, <1>3, <1>5
  <2> HIDE DEF r, R
  <2>4. /\ found' \in Seq(R)
        /\ \A m \in DOMAIN found' : found'[m] = r \/ (m \in DOMAIN found /\ found'[m] = found[m])
    <3>1. PICK l \in Nat : l = Len(found) /\ DOMAIN found = 1 .. l
      BY <2>3
    <3>2. /\ found' \in Seq(R) /\ Len(found') = l + 1 /\ found'[l + 1] = r
          /\ \A m \in 1 .. l : found'[m] = found[m]
      <4>1. PICK f \in Seq(R) : f = found
        BY <2>3
      <4>2. r \in R /\ found' = Append(f, r) /\ Len(f) = l
        BY <2>2, <2>3, <3>1, <4>1
      <4>3. /\ Append(f, r) \in Seq(R) /\ Len(Append(f, r)) = l + 1 /\ Append(f, r)[l + 1] = r
            /\ \A m \in 1 .. l : Append(f, r)[m] = f[m]
        BY <4>2
      <4> QED BY <4>1, <4>2, <4>3
    <3>3. DOMAIN found' = 1 .. l + 1
      BY <3>2
    <3>4. \A m \in DOMAIN found' : m = l + 1 \/ m \in DOMAIN found
      BY <3>1, <3>3
    <3> QED BY <3>1, <3>2, <3>4
  <2> HIDE DEF Proxy, e, v
  <2>5. SearchInv'
    <3>1. InGraph' = InGraph /\ GraphEdges' = GraphEdges
      BY <1>1 DEF InGraph, GraphEdges
    <3>2. ASSUME NEW m \in DOMAIN found'
          PROVE  /\ found'[m].edge \in GraphEdges
                 /\ TargetsDefined(prog) =>
                      /\ heap.src[found'[m].edge] \in InGraph
                      /\ found'[m].proxy \in InGraph \cup {Null}
      <4>1. CASE found'[m] = r
        BY <1>2, <2>1, <2>2, <4>1
      <4>2. CASE m \in DOMAIN found /\ found'[m] = found[m]
        BY <1>0, <4>2 DEF SearchInv
      <4> QED BY <2>4, <4>1, <4>2
    <3>3. \A m \in DOMAIN stack' : TargetsDefined(prog) => stack'[m].v \in InGraph
      BY <1>0, <1>2, <2>3 DEF SearchInv
    <3>4. \A w \in Vertices : \A m \in DOMAIN order'[w] : order'[w][m] \in heap'.outE[w]
      BY <1>0, <1>1 DEF SearchInv
    <3> QED BY <1>0, <1>1, <2>3, <3>1, <3>2, <3>3, <3>4 DEF SearchInv, Unsearched
  <2>6. found' \in Seq([edge : Edges, proxy : Vertices \cup {Null}])
    BY <2>4 DEF R
  <2> QED BY <1>0, <1>1, <1>2, <1>3, <2>3, <2>5, <2>6, SearchStep
<1> QED BY <1>4, <1>5

LEMMA SearchCompleteKeeps == ASSUME CfgInv, SearchComplete PROVE CfgInv'
<1>0. TypeOK /\ EnteredInv /\ SearchInv /\ PruningInv
  BY DEF CfgInv
<1>1. /\ pc = "dfs" /\ pc' = "mark" /\ i' = 1
      /\ UNCHANGED <<prog, heap, kinds, back, warned, building, search, pruning>>
  BY DEF SearchComplete, GoTo
<1>2. \A v \in Vertices : ~Waiting(v)
  BY <1>1, NoneWaiting
<1>3. /\ leaders' = leaders /\ doomed' = doomed /\ warned' = warned
      /\ stack' = stack /\ found' = found /\ order' = order
  BY <1>1 DEF building, search, pruning
<1>4. /\ ListsInv' /\ MembersInv' /\ EdgesInv' /\ WaysInv'
      /\ Watched' = Watched /\ InGraph' = InGraph /\ GraphEdges' = GraphEdges
      /\ \A v : HasIn(v) => HasIn(v)'
  BY <1>1, <1>2, <1>3, GraphStays
<1>5. TypeOK'
  BY <1>0, <1>1, GraphStepTypes DEF TypeOK, Phase
<1>6. EnteredInv'
  BY <1>0, <1>1, <1>3, <1>4 DEF EnteredInv
<1>7. SearchInv' /\ PruningInv' /\ i' >= 1
  BY <1>0, <1>1, <1>3, <1>4 DEF SearchInv, Unsearched, PruningInv
<1> QED BY <1>4, <1>5, <1>6, <1>7 DEF CfgInv

LEMMA MarkBackEdgeKeeps == ASSUME CfgInv, MarkBackEdge PROVE CfgInv'
<1> DEFINE e == found[i].edge
           src == heap.src[e]
           proxy == found[i].proxy
           need == proxy # Null /\ Cardinality(heap.outE[src]) = 1
<1>0. TypeOK /\ EdgesInv /\ EnteredInv /\ SearchInv /\ PruningInv
  BY DEF CfgInv
<1>1. /\ pc = "mark" /\ pc' = "mark" /\ i' = i + 1 /\ i <= Len(found)
      /\ back' = back \cup {e}
      /\ IF need
         THEN /\ Room(1) /\ heap' = AddEdge(heap, Self, src, proxy, NewEdge)
              /\ kinds' = Append(kinds, "Impossible")
         ELSE UNCHANGED <<heap, kinds>>
      /\ UNCHANGED <<prog, warned, building, search, pruning>>
  BY DEF MarkBackEdge
<1>2. i \in DOMAIN found /\ i \in Nat /\ proxy \in Vertices \cup {Null}
  <2> DEFINE R == [edge : Edges, proxy : Vertices \cup {Null}]
  <2>1. found \in Seq(R) /\ i \in Nat /\ i >= 1
    BY <1>0 DEF TypeOK, CfgInv
  <2>2. \A r \in R : r.proxy \in Vertices \cup {Null}
    OBVIOUS
  <2> HIDE DEF R
  <2>3. i \in DOMAIN found /\ found[i] \in R
    BY <1>1, <2>1
  <2> QED BY <2>1, <2>2, <2>3
<1>3. /\ e \in GraphEdges
      /\ TargetsDefined(prog) => proxy \in InGraph \cup {Null}
  BY <1>0, <1>1, <1>2 DEF SearchInv
<1>4. Joined(heap, Len(kinds)) /\ heap \in Heaps /\ SameEdges(heap, heap)
  BY <1>0 DEF EdgesInv, Joined, SameEdges
<1>5. src \in Vertices /\ heap.index[src] # NoIndex
  BY <1>0, <1>3 DEF EdgesInv, Joined, GraphEdges
<1>6. kinds \in Seq(Kind) /\ Len(kinds) <= MaxEdges /\ Len(kinds) \in Nat
  BY <1>0 DEF TypeOK
<1> HIDE DEF e, proxy
<1>7. /\ Joined(heap', Len(kinds')) /\ heap'.verts = heap.verts /\ heap'.index = heap.index
      /\ EdgesCarried /\ kinds' \in Seq(Kind) /\ Len(kinds') <= MaxEdges
      /\ Len(kinds) <= Len(kinds')
      /\ \A x \in GraphEdges' \ GraphEdges :
           /\ heap'.src[x] = src /\ heap'.tgt[x] = proxy /\ kinds'[x] = "Impossible"
           /\ proxy # Null
  <2>1. CASE need
    <3>1. /\ Room(1) /\ heap' = AddEdge(heap, Self, src, proxy, NewEdge)
          /\ kinds' = Append(kinds, "Impossible") /\ "Impossible" \in Kind /\ proxy \in Vertices
      BY <1>1, <1>2, <2>1 DEF Kind
    <3>2. /\ Joined(heap', Len(kinds')) /\ heap'.verts = heap.verts
          /\ heap'.index = heap.index /\ EdgesCarried
          /\ GraphEdges' = GraphEdges \cup {NewEdge}
          /\ heap'.src[NewEdge] = src /\ heap'.tgt[NewEdge] = proxy
          /\ kinds'[NewEdge] = "Impossible"
      BY <1>0, <1>4, <1>5, <3>1, OneEdgeMore
    <3>3. kinds' \in Seq(Kind) /\ Len(kinds') <= MaxEdges /\ Len(kinds) <= Len(kinds')
      BY <1>0, <3>1, TheKinds
    <3> QED BY <2>1, <3>2, <3>3
  <2>2. CASE ~need
    <3>1. heap' = heap /\ kinds' = kinds
      BY <1>1, <2>2
    <3>2. EdgesCarried /\ GraphEdges' = GraphEdges
      BY <3>1 DEF EdgesCarried, GraphEdges
    <3> QED BY <1>4, <1>6, <3>1, <3>2
  <2> QED BY <2>1, <2>2
<1> HIDE DEF src
<1>8. \A v \in Vertices : ~Waiting(v)
  BY <1>1, NoneWaiting
<1>9. /\ leaders' = leaders /\ doomed' = doomed /\ warned' = warned
      /\ stack' = stack /\ found' = found /\ order' = order
  BY <1>1 DEF building, search, pruning
<1>10. /\ ListsInv' /\ MembersInv' /\ EdgesInv' /\ WaysInv'
       /\ Watched' = Watched /\ InGraph' = InGraph
       /\ \A v : HasIn(v) => HasIn(v)'
  <2>1. \A x \in GraphEdges' \ GraphEdges :
          /\ kinds'[x] = "Impossible" /\ heap.index[heap'.src[x]] # NoIndex
          /\ TargetsDefined(prog) /\ heap'.src[x] \in InGraph => heap'.tgt[x] \in InGraph
    BY <1>3, <1>5, <1>7
  <2> QED BY <1>1, <1>7, <1>8, <1>9, <2>1, GraphGrows
<1>11. TypeOK'
  <2>1. back' \subseteq 1 .. Len(kinds')
    <3>1. back \subseteq 1 .. Len(kinds) /\ Len(kinds') \in Nat
      BY <1>0, <1>7 DEF TypeOK
    <3>2. e \in 1 .. Len(kinds)
      BY <1>3, <1>4 DEF Joined, GraphEdges
    <3> QED BY <1>1, <1>6, <1>7, <3>1, <3>2
  <2>2. heap' \in Heaps /\ pc' \in Phase /\ i' \in Nat
    BY <1>1, <1>2, <1>7 DEF Joined, Phase
  <2> QED BY <1>0, <1>1, <1>7, <2>1, <2>2, GraphStepTypes
<1>12. EnteredInv'
  BY <1>0, <1>1, <1>9, <1>10 DEF EnteredInv
<1>13. SearchInv'
  <2>1. \A n \in DOMAIN found :
          /\ found[n].edge \in GraphEdges' /\ heap'.src[found[n].edge] = heap.src[found[n].edge]
    BY <1>0, <1>1, <1>7 DEF SearchInv, EdgesCarried
  <2>2. prog' = prog
    BY <1>1
  <2> QED BY <1>0, <1>1, <1>9, <1>10, <2>1, <2>2 DEF SearchInv, Unsearched
<1>14. PruningInv' /\ i' >= 1
  BY <1>0, <1>1, <1>2, <1>9 DEF PruningInv
<1> QED BY <1>10, <1>11, <1>12, <1>13, <1>14 DEF CfgInv

-----------------------------------------------------------------------------
(* The removal.                                                            *)

LEMMA MarkingCompleteKeeps == ASSUME CfgInv, MarkingComplete PROVE CfgInv'
<1>0. TypeOK /\ EnteredInv /\ SearchInv /\ PruningInv /\ InGraph \subseteq Vertices
  BY TheGraph DEF CfgInv
<1>1. /\ pc = "mark" /\ pc' = "redundant" /\ i' = 1
      /\ todo' = {v \in InGraph : Removable(v)}
      /\ UNCHANGED <<prog, heap, kinds, back, warned, building, search, doomed>>
  BY DEF MarkingComplete, GoTo
<1>2. \A v \in Vertices : ~Waiting(v)
  BY <1>1, NoneWaiting
<1>3. /\ leaders' = leaders /\ warned' = warned /\ doomed' = doomed /\ doomed = {} /\ prog' = prog
      /\ prev' = prev /\ ended' = ended /\ labelMap' = labelMap /\ flow' = flow
      /\ seen' = seen /\ stack' = stack /\ found' = found /\ order' = order
  BY <1>0, <1>1 DEF building, search, PruningInv
<1>4. /\ ListsInv' /\ MembersInv' /\ EdgesInv' /\ WaysInv'
      /\ Watched' = Watched /\ InGraph' = InGraph /\ GraphEdges' = GraphEdges
      /\ \A v : HasIn(v) => HasIn(v)'
  BY <1>1, <1>2, <1>3, GraphStays
<1>5. TypeOK'
  BY <1>0, <1>1, <1>3 DEF TypeOK, Phase
<1>6. EnteredInv'
  BY <1>0, <1>1, <1>3, <1>4 DEF EnteredInv
<1>7. \A v : Removable(v)' <=> Removable(v)
  BY <1>3 DEF Removable, IsGoto, IsTempLabel
<1>8. SearchInv' /\ PruningInv' /\ i' >= 1
  BY <1>1, <1>3, <1>4, <1>7 DEF SearchInv, Unsearched, PruningInv
<1> QED BY <1>4, <1>5, <1>6, <1>8 DEF CfgInv

(* Only jumps that were linked and labels are ever removed.                *)
LEMMA TheRemovable ==
  ASSUME TypeOK, pc # "statements", NEW v \in Vertices, Removable(v)
  PROVE  v \notin {Entry, Exit} /\ v - 1 \notin Jumps
<1>1. MaxLen \in Nat /\ Len(prog) \in 0 .. MaxLen /\ v \in Int /\ Added = 1 .. Len(prog)
  BY TheProgram DEF Vertices, Added
<1>2. CASE IsGoto(v)
  <2>1. v > MaxLen + 1
    BY <1>1, <1>2 DEF IsGoto, Stmt
  <2>2. v - 1 \notin 1 .. Len(prog)
    BY <1>1, <2>1
  <2>3. v # 0 /\ v # 1
    BY <1>1, <2>1
  <2> QED BY <1>1, <2>2, <2>3 DEF Jumps, Entry, Exit
<1>3. CASE IsTempLabel(v)
  <2>1. v \in Stmt(1) .. Stmt(MaxLen) /\ prog[v - Stmt(0)].op = "label"
    BY <1>3 DEF IsTempLabel
  <2>2. v - Stmt(0) = v - 1 /\ v # 0 /\ v # 1
    BY <1>1, <2>1 DEF Stmt
  <2> QED BY <2>1, <2>2 DEF Jumps, EndsBlock, Entry, Exit
<1> QED BY <1>2, <1>3 DEF Removable

LEMMA RemovablesStay ==
  ASSUME prog' = prog, NEW v
  PROVE  Removable(v)' <=> Removable(v)
  BY DEF Removable, IsGoto, IsTempLabel

LEMMA EdgeSetsAreFinite ==
  ASSUME NEW S \in SUBSET Edges
  PROVE  IsFiniteSet(S) /\ Cardinality(S) \in Nat
  BY BoundsAssumption, PositionsAreFinite DEF Edges

LEMMA Exchange ==
  ASSUME NEW S \in SUBSET Edges, NEW a, NEW b \in S, a \notin S
  PROVE  Cardinality((S \ {b}) \cup {a}) = Cardinality(S)
<1>1. IsFiniteSet(S) /\ Cardinality(S) \in Nat
  BY EdgeSetsAreFinite
<1>2. IsFiniteSet(S \ {b}) /\ Cardinality(S \ {b}) = Cardinality(S) - 1
  BY <1>1, FS_RemoveElement
<1>3. a \notin S \ {b}
  OBVIOUS
<1>4. Cardinality((S \ {b}) \cup {a}) = Cardinality(S \ {b}) + 1
  BY <1>2, <1>3, FS_AddElement
<1> QED BY <1>1, <1>2, <1>4

(* The vertex bypassed, its one in-edge a and its one out-edge b, which is *)
(* an edge of control flow and so leads to a vertex of the graph.          *)
LEMMA TheBypassed ==
  ASSUME CfgInv, pc = "redundant", NEW v \in todo, Redundant(heap, v)
  PROVE  \E a, b \in GraphEdges :
           /\ heap.inE[v] = {a} /\ heap.outE[v] = {b} /\ v \in Vertices /\ v \in InGraph
           /\ heap.tgt[a] = v /\ heap.src[b] = v /\ heap.tgt[b] \in InGraph /\ IsReal(b)
<1>1. TypeOK /\ EdgesInv /\ WaysInv /\ PruningInv /\ InGraph \subseteq Vertices /\ heap \in Heaps
  BY TheGraph DEF CfgInv
<1>2. v \in InGraph /\ v \in Vertices /\ v \notin doomed /\ Removable(v)
  BY <1>1 DEF PruningInv
<1>3. heap.inE[v] \in SUBSET Edges /\ heap.outE[v] \in SUBSET Edges
  BY <1>1, <1>2, HeapFields
<1>4. PICK a : heap.inE[v] = {a}
  <2>1. IsFiniteSet(heap.inE[v]) /\ Cardinality(heap.inE[v]) = 1
    BY <1>3, EdgeSetsAreFinite DEF Redundant
  <2> QED BY <2>1, FS_Singleton
<1>5. PICK b : heap.outE[v] = {b}
  <2>1. IsFiniteSet(heap.outE[v]) /\ Cardinality(heap.outE[v]) = 1
    BY <1>3, EdgeSetsAreFinite DEF Redundant
  <2> QED BY <2>1, FS_Singleton
<1>6. LeadsOn(v)
  <2>1. v # Exit /\ v - 1 \notin Jumps
    BY <1>1, <1>2, TheRemovable
  <2> QED BY <1>1, <1>2, <2>1 DEF WaysInv
<1>7. /\ EndsAgree(heap) /\ GraphEdges \subseteq Edges
      /\ \A e \in Edges \ GraphEdges : heap.tgt[e] = Null
  BY <1>1, TheGraph DEF EdgesInv, Joined, GraphEdges
<1>8. PICK e \in GraphEdges : heap.src[e] = v /\ IsReal(e)
  BY <1>6 DEF LeadsOn
<1>9. e = b
  <2>1. e \in heap.outE[v]
    BY <1>2, <1>7, <1>8 DEF EndsAgree, Edges, Vertices
  <2> QED BY <1>5, <2>1
<1>10. heap.tgt[b] \in InGraph
  BY <1>1, <1>8, <1>9 DEF EdgesInv
<1>11. a \in GraphEdges /\ heap.tgt[a] = v
  <2>1. a \in heap.inE[v] /\ a \in Edges
    BY <1>3, <1>4
  <2>2. heap.tgt[a] = v
    BY <1>2, <1>7, <2>1 DEF EndsAgree, Edges, Vertices
  <2> QED BY <1>2, <1>7, <2>1, <2>2 DEF Null, Vertices
<1> QED BY <1>2, <1>4, <1>5, <1>8, <1>9, <1>10, <1>11

(* What the bypass does.                                                   *)
LEMMA TheBypass ==
  ASSUME CfgInv, pc = "redundant", NEW v \in todo, Redundant(heap, v), heap' = Bypass(heap, v)
  PROVE  \E a, b \in GraphEdges :
           /\ heap.inE[v] = {a} /\ heap.outE[v] = {b} /\ v \in Vertices /\ v \in InGraph
           /\ heap.tgt[a] = v /\ heap.src[b] = v /\ heap.tgt[b] \in InGraph /\ IsReal(b)
           /\ Joined(heap', Len(kinds)) /\ SameVertices(heap', heap)
           /\ heap'.edges[Self] = heap.edges[Self] \ {b}
           /\ \A e \in heap'.edges[Self] :
                /\ heap'.src[e] = heap.src[e]
                /\ heap'.tgt[e] = IF e = a THEN heap.tgt[b] ELSE heap.tgt[e]
           /\ heap'.inE[v] = {} /\ heap'.outE[v] = {}
           /\ \A w \in Vertices \ {v} :
                /\ heap'.outE[w] = heap.outE[w]
                /\ heap'.inE[w] = IF b \in heap.inE[w] THEN (heap.inE[w] \ {b}) \cup {a} ELSE heap.inE[w]
<1>1. PICK a \in GraphEdges, b \in GraphEdges :
        /\ heap.inE[v] = {a} /\ heap.outE[v] = {b} /\ v \in Vertices /\ v \in InGraph
        /\ heap.tgt[a] = v /\ heap.src[b] = v /\ heap.tgt[b] \in InGraph /\ IsReal(b)
  BY TheBypassed
<1>2. /\ Joined(heap', Len(kinds)) /\ SameVertices(heap', heap)
      /\ heap'.edges[Self] = heap.edges[Self] \ {b}
      /\ \A e \in heap'.edges[Self] :
           /\ heap'.src[e] = heap.src[e]
           /\ heap'.tgt[e] = IF e = a THEN heap.tgt[b] ELSE heap.tgt[e]
      /\ heap'.inE[v] = {} /\ heap'.outE[v] = {}
      /\ \A w \in Vertices \ {v} :
           /\ heap'.outE[w] = heap.outE[w]
           /\ heap'.inE[w] = IF b \in heap.inE[w] THEN (heap.inE[w] \ {b}) \cup {a} ELSE heap.inE[w]
  <2> DEFINE n == Bypass(heap, v)
  <2>1. Joined(heap, Len(kinds))
    BY DEF CfgInv, EdgesInv
  <2>2. v \in Vertices /\ heap.inE[v] = {a} /\ heap.outE[v] = {b}
    BY <1>1
  <2>3. Bypassed(n, heap, Len(kinds), v, a, b)
    BY <2>1, <2>2, BypassDoes
  <2>4. heap' = n
    OBVIOUS
  <2> HIDE DEF n
  <2> QED BY <2>3, <2>4 DEF Bypassed
<1> QED BY <1>1, <1>2

LEMMA BypassRedundantKeeps == ASSUME CfgInv, BypassRedundant PROVE CfgInv'
<1>0. /\ TypeOK /\ ListsInv /\ MembersInv /\ EdgesInv /\ WaysInv /\ EnteredInv /\ PruningInv
      /\ i >= 1 /\ InGraph \subseteq Vertices
  BY TheGraph DEF CfgInv
<1>1. PICK v \in todo :
        /\ Redundant(heap, v) /\ heap' = Bypass(heap, v) /\ todo' = todo \ {v}
        /\ doomed' = IF InDegreeIs0(heap', v) /\ OutDegreeIs0(heap', v)
                     THEN doomed \cup {v} ELSE doomed
  BY DEF BypassRedundant
<1>2. /\ pc = "redundant" /\ pc' = "redundant" /\ i' = i /\ kinds' = kinds /\ back' = back
      /\ prog' = prog /\ warned' = warned /\ UNCHANGED building
      /\ leaders' = leaders /\ flow' = flow /\ prev' = prev /\ ended' = ended /\ labelMap' = labelMap
      /\ seen' = seen /\ order' = order /\ stack' = stack /\ found' = found
  BY DEF BypassRedundant, building, search
<1>3. PICK a \in GraphEdges, b \in GraphEdges :
        /\ heap.inE[v] = {a} /\ heap.outE[v] = {b} /\ v \in Vertices /\ v \in InGraph
        /\ heap.tgt[a] = v /\ heap.src[b] = v /\ heap.tgt[b] \in InGraph /\ IsReal(b)
        /\ Joined(heap', Len(kinds)) /\ SameVertices(heap', heap)
        /\ heap'.edges[Self] = heap.edges[Self] \ {b}
        /\ \A e \in heap'.edges[Self] :
             /\ heap'.src[e] = heap.src[e]
             /\ heap'.tgt[e] = IF e = a THEN heap.tgt[b] ELSE heap.tgt[e]
        /\ heap'.inE[v] = {} /\ heap'.outE[v] = {}
        /\ \A w \in Vertices \ {v} :
             /\ heap'.outE[w] = heap.outE[w]
             /\ heap'.inE[w] = IF b \in heap.inE[w] THEN (heap.inE[w] \ {b}) \cup {a} ELSE heap.inE[w]
  BY <1>1, <1>2, TheBypass
<1>5. InGraph' = InGraph /\ GraphEdges' = GraphEdges \ {b} /\ Added' = Added /\ heap'.index = heap.index
  BY <1>2, <1>3 DEF InGraph, GraphEdges, Added, SameVertices
<1>6. ListsInv' /\ Jumps' = Jumps /\ Watched' = Watched
  BY <1>0, <1>2, <1>5, LaterLists
<1>7. doomed' = doomed \cup {v}
  BY <1>1, <1>3 DEF InDegreeIs0, OutDegreeIs0
<1>8. TypeOK'
  <2>1. heap' \in Heaps
    BY <1>3 DEF Joined
  <2>2. todo' \subseteq Vertices /\ doomed' \subseteq Vertices
    BY <1>0, <1>1, <1>3, <1>7 DEF TypeOK
  <2> QED BY <1>0, <1>2, <2>1, <2>2 DEF TypeOK
<1>9. MembersInv'
  <2>1. TargetsDefined(prog) => \A m \in Jumps : Stmt(m) \notin InGraph
    BY <1>0, <1>2 DEF MembersInv, Waiting
  <2>2. \A w : ~Waiting(w)'
    BY <1>2 DEF Waiting
  <2>3. \A w \in InGraph' :
          \/ w \in {Entry, Exit} \/ w - 1 \in Added'
          \/ w - Linked(0) \in Jumps' /\ Stmt(w - Linked(0)) \notin InGraph'
    BY <1>0, <1>5, <1>6 DEF MembersInv
  <2>4. \A m \in Added' \ Jumps' : Stmt(m) \in InGraph'
    BY <1>0, <1>2, <1>5, <1>6 DEF MembersInv
  <2>5. TargetsDefined(prog)' => \A m \in Jumps' : Stmt(m) \notin InGraph'
    BY <1>2, <1>5, <1>6, <2>1
  <2>6. \A w \in Vertices : w \in InGraph' \/ w - 1 \in Added' => heap'.index[w] # NoIndex
    BY <1>0, <1>5 DEF MembersInv
  <2>7. Entry \in InGraph' /\ Exit \in InGraph'
    BY <1>0, <1>5 DEF MembersInv
  <2> QED BY <2>2, <2>3, <2>4, <2>5, <2>6, <2>7 DEF MembersInv
<1>10. EdgesInv'
  <2>1. ASSUME NEW e \in GraphEdges'
        PROVE  /\ e \in GraphEdges /\ heap'.src[e] = heap.src[e]
               /\ heap'.tgt[e] = heap.tgt[e] \/ heap'.tgt[e] \in InGraph
    BY <1>3, <1>5, <2>1 DEF GraphEdges
  <2>2. ASSUME NEW e \in GraphEdges'
        PROVE  /\ kinds'[e] # "Impossible" => heap'.src[e] \in InGraph' /\ heap'.tgt[e] \in InGraph'
               /\ TargetsDefined(prog)' /\ heap'.src[e] \in InGraph' => heap'.tgt[e] \in InGraph'
               /\ heap'.index[heap'.src[e]] # NoIndex
    BY <1>0, <1>2, <1>5, <2>1, <2>2 DEF EdgesInv, IsReal
  <2> QED BY <1>2, <1>3, <2>2 DEF EdgesInv, IsReal
<1>11. WaysInv'
  <2> SUFFICES ASSUME NEW w \in InGraph, w # v
               PROVE  w = Exit \/ w - 1 \in Jumps' \/ w \in doomed' \/ LeadsOn(w)'
    BY <1>5, <1>7 DEF WaysInv
  <2>1. LeadsOn(w) => LeadsOn(w)'
    <3> SUFFICES ASSUME NEW e \in GraphEdges, heap.src[e] = w, IsReal(e) PROVE LeadsOn(w)'
      BY DEF LeadsOn
    <3>1. e \in GraphEdges' /\ heap'.src[e] = w /\ kinds'[e] # "Impossible"
      BY <1>2, <1>3, <1>5 DEF GraphEdges, IsReal
    <3> QED BY <3>1 DEF LeadsOn, IsReal
  <2> QED BY <1>0, <1>2, <1>6, <1>7, <2>1 DEF WaysInv
<1>12. EnteredInv'
  <2>1. ASSUME NEW w \in InGraph', w # v
        PROVE  HasIn(w)' \/ w - MaxLen \in Watched' \/ w \in doomed'
    <3>1. HasIn(w) => HasIn(w)'
      <4> SUFFICES ASSUME NEW e \in GraphEdges, heap.tgt[e] = w PROVE HasIn(w)'
        BY DEF HasIn
      <4>1. CASE e = b
        <5>1. a # b
          BY <1>3, <2>1, <4>1
        <5>2. a \in GraphEdges' /\ heap'.tgt[a] = w
          BY <1>3, <1>5, <4>1, <5>1 DEF GraphEdges
        <5> QED BY <5>2 DEF HasIn
      <4>2. CASE e # b
        <5>1. e \in GraphEdges' /\ heap'.tgt[e] = w
          BY <1>3, <1>5, <2>1, <4>2 DEF GraphEdges
        <5> QED BY <5>1 DEF HasIn
      <4> QED BY <4>1, <4>2
    <3> QED BY <1>0, <1>2, <1>5, <1>6, <1>7, <2>1, <3>1 DEF EnteredInv
  <2> QED BY <1>0, <1>2, <1>7, <2>1 DEF EnteredInv
<1>13. SearchInv'
  BY <1>2 DEF SearchInv, Unsearched
<1>14. PruningInv'
  <2>1. /\ todo \subseteq InGraph /\ todo \cap doomed = {}
        /\ \A w \in todo \cup doomed : Removable(w)
        /\ \A w \in doomed : heap.inE[w] = {} /\ heap.outE[w] = {}
        /\ \A w \in InGraph : Removable(w) => w \in doomed \/ ~Redundant(heap, w) \/ w \in todo
    BY <1>0, <1>2 DEF PruningInv
  <2>2. /\ todo' \subseteq InGraph' /\ todo' \cap doomed' = {}
        /\ \A w \in todo' \cup doomed' : Removable(w)'
    BY <1>1, <1>2, <1>5, <1>7, <2>1, RemovablesStay
  <2>3. \A w \in doomed' : heap'.inE[w] = {} /\ heap'.outE[w] = {}
    <3>1. doomed \subseteq Vertices
      BY <1>0 DEF TypeOK
    <3> QED BY <1>3, <1>7, <2>1, <3>1
  <2>4. ASSUME NEW w \in InGraph, Removable(w)
        PROVE  w \in doomed' \/ ~Redundant(heap', w) \/ w \in todo'
    <3>1. CASE w = v \/ w \in doomed \/ w \in todo
      BY <1>1, <1>7, <3>1
    <3>2. CASE w # v /\ ~Redundant(heap, w)
      <4>1. w \in Vertices \ {v} /\ heap.inE[w] \in SUBSET Edges
        BY <1>0, <3>2, HeapFields DEF TypeOK
      <4>2. a \notin heap.inE[w]
        <5>1. EndsAgree(heap) /\ GraphEdges \subseteq Edges
          BY <1>0, TheGraph DEF EdgesInv, Joined
        <5> QED BY <1>3, <4>1, <5>1 DEF EndsAgree, Edges, Vertices
      <4>3. Cardinality(heap'.inE[w]) = Cardinality(heap.inE[w])
        <5>1. CASE b \in heap.inE[w]
          <6> DEFINE S == heap.inE[w]
          <6>1. S \in SUBSET Edges /\ b \in S /\ a \notin S
            BY <4>1, <4>2, <5>1
          <6>2. heap'.inE[w] = (S \ {b}) \cup {a}
            BY <1>3, <4>1, <5>1
          <6> HIDE DEF S
          <6>3. Cardinality((S \ {b}) \cup {a}) = Cardinality(S)
            BY <6>1, Exchange
          <6> QED BY <6>2, <6>3 DEF S
        <5>2. CASE b \notin heap.inE[w]
          BY <1>3, <4>1, <5>2
        <5> QED BY <5>1, <5>2
      <4>4. heap'.outE[w] = heap.outE[w]
        BY <1>3, <4>1
      <4> QED BY <3>2, <4>3, <4>4 DEF Redundant
    <3> QED BY <2>1, <2>4, <3>1, <3>2
  <2>5. \A w \in InGraph' : Removable(w)' =>
          w \in doomed' \/ ~Redundant(heap', w) \/ w \in todo'
    BY <1>2, <1>5, <2>4, RemovablesStay
  <2> QED BY <1>2, <2>2, <2>3, <2>5 DEF PruningInv, Redundant
<1> QED BY <1>0, <1>2, <1>6, <1>8, <1>9, <1>10, <1>11, <1>12, <1>13, <1>14 DEF CfgInv

LEMMA KeepNeededKeeps == ASSUME CfgInv, KeepNeeded PROVE CfgInv'
<1>0. TypeOK /\ EnteredInv /\ SearchInv /\ PruningInv /\ i >= 1
  BY DEF CfgInv
<1>1. PICK v \in todo : ~Redundant(heap, v) /\ todo' = todo \ {v}
  BY DEF KeepNeeded
<1>2. /\ pc = "redundant" /\ pc' = "redundant"
      /\ UNCHANGED <<prog, i, heap, kinds, back, warned, building, search, doomed>>
  BY DEF KeepNeeded
<1>3. \A w \in Vertices : ~Waiting(w)
  BY <1>2, NoneWaiting
<1>4. /\ leaders' = leaders /\ warned' = warned /\ doomed' = doomed /\ prog' = prog
      /\ prev' = prev /\ ended' = ended /\ labelMap' = labelMap /\ flow' = flow
      /\ seen' = seen /\ stack' = stack /\ found' = found /\ order' = order
  BY <1>2 DEF building, search
<1>5. /\ ListsInv' /\ MembersInv' /\ EdgesInv' /\ WaysInv'
      /\ Watched' = Watched /\ InGraph' = InGraph /\ GraphEdges' = GraphEdges
      /\ \A w : HasIn(w) => HasIn(w)'
  BY <1>2, <1>3, <1>4, GraphStays
<1>6. TypeOK'
  BY <1>0, <1>1, <1>2, <1>4 DEF TypeOK
<1>7. EnteredInv'
  BY <1>0, <1>2, <1>4, <1>5 DEF EnteredInv
<1>8. PruningInv'
  <2>1. \A w : Removable(w)' <=> Removable(w)
    BY <1>4, RemovablesStay
  <2> QED BY <1>0, <1>1, <1>2, <1>4, <1>5, <2>1 DEF PruningInv
<1>9. SearchInv' /\ i' >= 1
  BY <1>0, <1>2 DEF SearchInv, Unsearched
<1> QED BY <1>5, <1>6, <1>7, <1>8, <1>9 DEF CfgInv

LEMMA DeleteDoomedKeeps == ASSUME CfgInv, DeleteDoomed PROVE CfgInv'
<1>0. /\ TypeOK /\ ListsInv /\ MembersInv /\ EdgesInv /\ WaysInv /\ EnteredInv /\ PruningInv
      /\ i >= 1 /\ InGraph \subseteq Vertices /\ heap \in Heaps
  BY TheGraph DEF CfgInv
<1>1. /\ pc = "redundant" /\ todo = {} /\ pc' = "done" /\ i' = 1
      /\ heap' = [heap EXCEPT !.verts[Self] = heap.verts[Self] \ doomed]
      /\ UNCHANGED <<prog, kinds, back, warned, building, search, pruning>>
  BY DEF DeleteDoomed, GoTo
<1>2. /\ leaders' = leaders /\ flow' = flow /\ warned' = warned /\ doomed' = doomed
      /\ todo' = todo /\ prog' = prog /\ kinds' = kinds /\ back' = back
  BY <1>1 DEF building, pruning
<1>3. /\ heap' \in Heaps /\ SameEdges(heap', heap) /\ heap'.index = heap.index
      /\ heap'.verts[Self] = heap.verts[Self] \ doomed
  <2>1. SameEdges(heap', heap) /\ heap'.index = heap.index /\ heap'.nextId = heap.nextId
    BY <1>0, <1>1 DEF Heaps, SameEdges
  <2>2. heap'.verts = [heap.verts EXCEPT ![Self] = heap.verts[Self] \ doomed]
    BY <1>0, <1>1 DEF Heaps
  <2>3. heap.verts \in [{Self} -> SUBSET Vertices]
    BY <1>0, HeapFields
  <2>4. heap'.verts[Self] = heap.verts[Self] \ doomed
    BY <2>2, <2>3
  <2>5. heap' \in Heaps
    BY <1>0, <1>1 DEF Heaps, Vertices, Edges
  <2> QED BY <2>1, <2>4, <2>5
<1>4. /\ InGraph' = InGraph \ doomed /\ GraphEdges' = GraphEdges /\ Added' = Added
      /\ heap'.src = heap.src /\ heap'.tgt = heap.tgt /\ heap'.inE = heap.inE /\ heap'.outE = heap.outE
  BY <1>1, <1>2, <1>3 DEF InGraph, GraphEdges, Added, SameEdges
<1>5. ListsInv' /\ Jumps' = Jumps /\ Watched' = Watched
  BY <1>0, <1>1, <1>4, LaterLists
<1>6. /\ \A v \in doomed : v \in Vertices /\ Removable(v) /\ heap.inE[v] = {} /\ heap.outE[v] = {}
      /\ \A v \in InGraph : Removable(v) => v \in doomed \/ ~Redundant(heap, v)
  BY <1>0, <1>1 DEF PruningInv, TypeOK
<1>7. TypeOK'
  BY <1>0, <1>1, <1>2, <1>3, GraphStepTypes DEF TypeOK, Phase
<1>8. \A e \in GraphEdges : heap.src[e] \notin doomed /\ heap.tgt[e] \notin doomed
  <2> SUFFICES ASSUME NEW e \in GraphEdges, NEW v \in doomed PROVE heap.src[e] # v /\ heap.tgt[e] # v
    OBVIOUS
  <2>1. EndsAgree(heap) /\ e \in Edges
    BY <1>0, TheGraph DEF EdgesInv, Joined
  <2> QED BY <1>6, <2>1 DEF EndsAgree, Edges, Vertices
<1>9. MembersInv'
  <2>1. TargetsDefined(prog) => \A m \in Jumps : Stmt(m) \notin InGraph
    BY <1>0, <1>1 DEF MembersInv, Waiting
  <2>2. \A w : ~Waiting(w)'
    BY <1>1 DEF Waiting
  <2>3. \A w \in InGraph' :
          \/ w \in {Entry, Exit} \/ w - 1 \in Added'
          \/ w - Linked(0) \in Jumps' /\ Stmt(w - Linked(0)) \notin InGraph'
    BY <1>0, <1>4, <1>5 DEF MembersInv
  <2>4. pc' = "done"
    BY <1>1
  <2>5. TargetsDefined(prog)' => \A m \in Jumps' : Stmt(m) \notin InGraph'
    BY <1>2, <1>4, <1>5, <2>1
  <2>6. \A w \in Vertices : w \in InGraph' \/ w - 1 \in Added' => heap'.index[w] # NoIndex
    BY <1>0, <1>3, <1>4 DEF MembersInv
  <2>7. Entry \in InGraph' /\ Exit \in InGraph'
    <3>1. Entry \in InGraph /\ Exit \in InGraph
      BY <1>0 DEF MembersInv
    <3>2. Entry \notin doomed /\ Exit \notin doomed
      BY <1>0, <1>1, <1>6, TheRemovable
    <3> QED BY <1>4, <3>1, <3>2
  <2> QED BY <2>2, <2>3, <2>4, <2>5, <2>6, <2>7 DEF MembersInv
<1>10. EdgesInv'
  <2>1. Joined(heap', Len(kinds'))
    <3>1. Joined(heap, Len(kinds))
      BY <1>0 DEF EdgesInv
    <3> QED BY <1>2, <1>3, <3>1, SameEdgesJoined
  <2>2. ASSUME NEW e \in GraphEdges
        PROVE  /\ kinds[e] # "Impossible" => heap.src[e] \in InGraph' /\ heap.tgt[e] \in InGraph'
               /\ TargetsDefined(prog) /\ heap.src[e] \in InGraph' => heap.tgt[e] \in InGraph'
               /\ heap.index[heap.src[e]] # NoIndex
    BY <1>0, <1>4, <1>8 DEF EdgesInv, IsReal
  <2> QED BY <1>1, <1>2, <1>3, <1>4, <2>1, <2>2 DEF EdgesInv, IsReal
<1>11. \A w : (LeadsOn(w) => LeadsOn(w)') /\ (HasIn(w) => HasIn(w)')
  BY <1>2, <1>4 DEF LeadsOn, HasIn, IsReal
<1>12. WaysInv'
  BY <1>0, <1>1, <1>2, <1>4, <1>5, <1>11 DEF WaysInv
<1>13. EnteredInv'
  BY <1>0, <1>1, <1>2, <1>4, <1>5, <1>11 DEF EnteredInv
<1>14. SearchInv'
  BY <1>1 DEF SearchInv, Unsearched
<1>15. PruningInv'
  <2>1. \A w : Removable(w)' <=> Removable(w)
    BY <1>2, RemovablesStay
  <2>2. \A w : Redundant(heap', w) <=> Redundant(heap, w)
    BY <1>4 DEF Redundant
  <2> QED BY <1>1, <1>2, <1>4, <1>6, <2>1, <2>2 DEF PruningInv, Redundant
<1> QED BY <1>1, <1>5, <1>7, <1>9, <1>10, <1>12, <1>13, <1>14, <1>15 DEF CfgInv

-----------------------------------------------------------------------------
(* The beginning, and a step that changes nothing.                         *)

LEMMA InitEstablishes ==
  ASSUME Init PROVE CfgInv /\ InGraph = {Entry, Exit} /\ GraphEdges = {}
<1> DEFINE one == AddVertex(EmptyHeap, Self, Entry)
           two == AddVertex(one, Self, Exit)
<1>0. /\ prog \in Programs /\ pc = "statements" /\ i = 1 /\ heap = two
      /\ kinds = <<>> /\ back = {} /\ warned = {} /\ prev = Entry /\ ended = FALSE
      /\ labelMap = [l \in Label \cup {"EXIT"} |-> IF l = "EXIT" THEN Exit ELSE Null]
      /\ leaders = <<>> /\ flow = <<>> /\ seen = {} /\ stack = <<>> /\ found = <<>>
      /\ order = [v \in Vertices |-> <<>>] /\ todo = {} /\ doomed = {}
  BY DEF Init
<1>1. MaxLen \in Nat /\ MaxEdges \in Nat /\ Len(prog) \in Nat /\ Entry \in Vertices /\ Exit \in Vertices
  <2>1. prog \in Seq(Statement) /\ MaxLen \in Nat /\ MaxEdges \in Nat
    BY <1>0, ProgramsAssumption, BoundsAssumption
  <2> HIDE DEF Statement
  <2> QED BY <2>1 DEF Entry, Exit, Vertices
<1>2. EmptyHeap \in Heaps /\ EmptyHeap.verts[Self] = {} /\ Joined(EmptyHeap, 0)
  <2>1. EmptyHeap \in Heaps
    BY DEF EmptyHeap, Heaps, NoIndex
  <2>2. /\ EmptyHeap.verts[Self] = {} /\ EmptyHeap.edges[Self] = {}
        /\ \A v \in Vertices : /\ EmptyHeap.inE[v] = {} /\ EmptyHeap.outE[v] = {}
                               /\ EmptyHeap.index[v] = NoIndex
        /\ \A e \in Edges : EmptyHeap.src[e] = Null /\ EmptyHeap.tgt[e] = Null
    BY DEF EmptyHeap, Vertices, Edges
  <2>3. Null \notin Vertices
    BY DEF Null, Vertices
  <2>4. EndsAgree(EmptyHeap)
    BY <2>2, <2>3 DEF EndsAgree, Vertices, Edges
  <2> QED BY <2>1, <2>2, <2>4 DEF Joined
<1>3. /\ one \in Heaps /\ SameEdges(one, EmptyHeap) /\ one.verts[Self] = {Entry}
      /\ \A w \in Vertices : one.index[w] = NoIndex => w # Entry
  BY <1>1, <1>2, AddVertexDoes
<1> HIDE DEF one
<1>4. /\ two \in Heaps /\ SameEdges(two, one) /\ two.verts[Self] = {Entry, Exit}
      /\ \A w \in Vertices : two.index[w] = NoIndex => w # Exit /\ one.index[w] = NoIndex
  BY <1>1, <1>3, AddVertexDoes
<1> HIDE DEF two
<1>5. /\ Joined(heap, 0) /\ InGraph = {Entry, Exit} /\ Len(kinds) = 0 /\ GraphEdges = {}
      /\ \A w \in InGraph : heap.index[w] # NoIndex
  <2>1. Joined(one, 0)
    BY <1>2, <1>3, SameEdgesJoined
  <2>2. Joined(heap, 0)
    BY <1>0, <1>4, <2>1, SameEdgesJoined
  <2>3. InGraph = {Entry, Exit}
    BY <1>0, <1>4 DEF InGraph
  <2>4. GraphEdges = {}
    BY <2>2 DEF Joined, GraphEdges
  <2> QED BY <1>0, <1>1, <1>3, <1>4, <2>2, <2>3, <2>4
<1>6. Added = {} /\ Jumps = {} /\ DOMAIN leaders = {} /\ DOMAIN flow = {}
  <2>1. Added = {}
    BY <1>0 DEF Added
  <2>2. DOMAIN <<>> = {}
    OBVIOUS
  <2> QED BY <1>0, <2>1, <2>2 DEF Jumps
<1>7. TypeOK
  <2>1. heap \in Heaps
    BY <1>5 DEF Joined
  <2>2. labelMap \in [Label \cup {"EXIT"} -> Vertices \cup {Null}]
    BY <1>0, <1>1
  <2>3. order \in [Vertices -> Seq(Edges)]
    BY <1>0
  <2>4. /\ leaders \in Seq([leader : Vertices, pred : Vertices]) /\ flow \in Seq(Vertices)
        /\ stack \in Seq([v : Vertices, at : Nat]) /\ kinds \in Seq(Kind) /\ Len(kinds) <= MaxEdges
        /\ found \in Seq([edge : Edges, proxy : Vertices \cup {Null}])
    BY <1>0, <1>1
  <2> QED BY <1>0, <1>1, <2>1, <2>2, <2>3, <2>4 DEF TypeOK, Phase
<1>8. ListsInv
  <2>1. StatementsInv
    BY <1>0, <1>1, <1>6 DEF StatementsInv
  <2>2. FlowInv /\ LeadersInv
    BY <1>6 DEF FlowInv, LeadersInv
  <2>3. LabelsInv
    <3>1. \A l \in Label \cup {"EXIT"} : labelMap[l] \in {Null, Exit}
      BY <1>0
    <3>2. labelMap["EXIT"] = Exit /\ Exit # Null
      BY <1>0 DEF Exit, Null
    <3> QED BY <1>6, <3>1, <3>2 DEF LabelsInv, Known
  <2> QED BY <2>1, <2>2, <2>3 DEF ListsInv
<1>9. MembersInv
  BY <1>0, <1>5, <1>6 DEF MembersInv, Waiting
<1>10. EdgesInv
  BY <1>5 DEF EdgesInv
<1>11. WaysInv
  BY <1>0, <1>5 DEF WaysInv
<1>12. EnteredInv
  BY <1>0, <1>5, <1>6 DEF EnteredInv
<1>13. SearchInv /\ PruningInv
  BY <1>0 DEF SearchInv, PruningInv
<1> QED BY <1>0, <1>5, <1>7, <1>8, <1>9, <1>10, <1>11, <1>12, <1>13 DEF CfgInv

LEMMA StutterKeeps == ASSUME CfgInv, UNCHANGED vars PROVE CfgInv'
<1>1. /\ prog' = prog /\ pc' = pc /\ i' = i /\ heap' = heap /\ kinds' = kinds /\ back' = back
      /\ prev' = prev /\ ended' = ended /\ labelMap' = labelMap /\ leaders' = leaders
      /\ flow' = flow /\ warned' = warned /\ seen' = seen /\ order' = order
      /\ stack' = stack /\ found' = found /\ todo' = todo /\ doomed' = doomed
  BY DEF vars, building, search, pruning
<1>2. /\ Added' = Added /\ InGraph' = InGraph /\ GraphEdges' = GraphEdges /\ Watched' = Watched
  BY <1>1 DEF Added, InGraph, GraphEdges, Watched
<1>3. Jumps' = Jumps
  BY <1>1, <1>2 DEF Jumps
<1>4. /\ \A v : (LeadsOn(v)' <=> LeadsOn(v)) /\ (HasIn(v)' <=> HasIn(v)) /\ (Waiting(v)' <=> Waiting(v))
      /\ \A v : Removable(v)' <=> Removable(v)
      /\ \A e : IsReal(e)' <=> IsReal(e)
  BY <1>1, <1>2, RemovablesStay DEF LeadsOn, HasIn, Waiting, IsReal
<1>5. TypeOK' /\ i' >= 1
  BY <1>1 DEF CfgInv, TypeOK
<1>6. ListsInv'
  BY <1>1, <1>2, <1>3 DEF CfgInv, ListsInv, StatementsInv, FlowInv, LeadersInv, LabelsInv, Known
<1>7. MembersInv'
  <2>1. MembersInv
    BY DEF CfgInv
  <2>2. \A m \in Jumps : Waiting(Stmt(m)) => Waiting(Stmt(m))'
    BY <1>1 DEF Waiting, Stmt
  <2> QED BY <1>1, <1>2, <1>3, <1>4, <2>1, <2>2 DEF MembersInv
<1>8. EdgesInv' /\ WaysInv' /\ EnteredInv'
  <2>1. EdgesInv'
    BY <1>1, <1>2, <1>4 DEF CfgInv, EdgesInv
  <2>2. WaysInv'
    BY <1>1, <1>2, <1>3, <1>4 DEF CfgInv, WaysInv
  <2>3. EnteredInv'
    BY <1>1, <1>2 DEF CfgInv, EnteredInv, HasIn
  <2> QED BY <2>1, <2>2, <2>3
<1>9. SearchInv' /\ PruningInv'
  BY <1>1, <1>2, <1>4 DEF CfgInv, SearchInv, Unsearched, PruningInv
<1> QED BY <1>5, <1>6, <1>7, <1>8, <1>9 DEF CfgInv

-----------------------------------------------------------------------------

(* The invariant holds while CreateControlFlowGraph runs.                  *)
THEOREM CfgInvariant == Spec => []CfgInv
<1>1. Init => CfgInv
  BY InitEstablishes
<1>2. CfgInv /\ [Next]_vars => CfgInv'
  <2> SUFFICES ASSUME CfgInv, [Next]_vars PROVE CfgInv'
    OBVIOUS
  <2>1. CASE AddStatement \/ FallOffTheEnd
    BY <2>1, AddStatementKeeps, FallOffTheEndKeeps
  <2>2. CASE LinkFlowControl \/ LinkingComplete
    BY <2>2, LinkFlowControlKeeps, LinkingCompleteKeeps
  <2>3. CASE AddImpossibleEdge \/ LeadersComplete \/ CheckForNoInEdges \/ AddSelfEdges
    BY <2>3, AddImpossibleEdgeKeeps, LeadersCompleteKeeps, CheckForNoInEdgesKeeps, AddSelfEdgesKeeps
  <2>4. CASE StartVisit \/ TreeEdge \/ ForwardOrCrossEdge \/ BackEdge \/ FinishVertex
    BY <2>4, StartVisitKeeps, TreeEdgeKeeps, ForwardOrCrossEdgeKeeps, BackEdgeKeeps, FinishVertexKeeps
  <2>5. CASE SearchComplete \/ MarkBackEdge
    BY <2>5, SearchCompleteKeeps, MarkBackEdgeKeeps
  <2>6. CASE MarkingComplete \/ BypassRedundant \/ KeepNeeded \/ DeleteDoomed
    BY <2>6, MarkingCompleteKeeps, BypassRedundantKeeps, KeepNeededKeeps, DeleteDoomedKeeps
  <2>7. CASE UNCHANGED vars
    BY <2>7, StutterKeeps
  <2> QED BY <2>1, <2>2, <2>3, <2>4, <2>5, <2>6, <2>7 DEF Next, Build, Returned
<1> QED BY <1>1, <1>2, PTL DEF Spec

(* Whatever the statements and the order the vertices are visited in, an   *)
(* edge that hangs on a vertex no longer in the graph is an Impossible     *)
(* one, and where every jump has its label no walk can leave the graph     *)
(* (Function.cpp:721-745, cfg_algs.cpp:317-362).                           *)
THEOREM GraphStaysWellFormed == Spec => []GraphWellFormed
<1>1. CfgInv => GraphWellFormed
  <2> SUFFICES ASSUME CfgInv PROVE GraphWellFormed
    OBVIOUS
  <2>1. TypeOK /\ EdgesInv
    BY DEF CfgInv
  <2>2. EndsAgree(heap) /\ \A e \in GraphEdges : heap.src[e] \in Vertices
    BY <2>1 DEF EdgesInv, Joined, GraphEdges
  <2>3. \A e \in GraphEdges :
          /\ heap.src[e] \in Gone \/ heap.tgt[e] \in Gone => ~IsReal(e)
          /\ heap.tgt[e] \in Gone /\ TargetsDefined(prog) => heap.src[e] \in Gone
    BY <2>1, <2>2 DEF EdgesInv, Gone
  <2> QED BY <2>1, <2>2, <2>3 DEF GraphWellFormed, NoDanglingEdges
<1> QED BY <1>1, CfgInvariant, PTL

(* What begins no block, and what begins one as the object it was read as, *)
(* has a way in from the search to the end of the construction             *)
(* (Function.cpp:672, :763-797).  Jumps that begin a block are left out.   *)
THEOREM AlwaysLeadersHaveWayIn == Spec => []LeadersHaveWayIn
<1>1. CfgInv => LeadersHaveWayIn
  <2> SUFFICES ASSUME CfgInv, pc \in {"dfs", "mark", "redundant", "done"},
                      NEW w \in InGraph \ (doomed \cup RelinkedLeaders), InDegreeIs0(heap, w)
               PROVE  FALSE
    BY DEF LeadersHaveWayIn
  <2>1. TypeOK /\ EdgesInv /\ EnteredInv /\ InGraph \subseteq Vertices /\ MaxLen \in Nat
    BY TheGraph, TheProgram DEF CfgInv
  <2>2. w \in InGraph /\ w \notin doomed /\ ~HasIn(w) /\ w \in Vertices
    BY <2>1, TheInEdges
  <2>3. w - MaxLen \in Watched
    BY <2>1, <2>2 DEF EnteredInv
  <2>4. w = Linked(w - MaxLen - 1)
    BY <2>1, <2>2 DEF Linked, Vertices
  <2> QED BY <2>3, <2>4 DEF RelinkedLeaders
<1> QED BY <1>1, CfgInvariant, PTL

(* RemoveRedundantNodes needs no second pass, whatever the order of the    *)
(* pass it makes.                                                          *)
THEOREM AlwaysNothingRedundantLeft == Spec => []NothingRedundantLeft
<1>1. CfgInv => NothingRedundantLeft
  BY DEF CfgInv, PruningInv, NothingRedundantLeft
<1> QED BY <1>1, CfgInvariant, PTL

-----------------------------------------------------------------------------
(* The colors of the search, and what they say of cycles.                  *)

Found == {found[n].edge : n \in DOMAIN found}
Black == seen \ Gray

(* An edge that was not found leads to a vertex that is finished.          *)
Settled(e) == e \in Found \/ heap.tgt[e] \in Black

(* No cycle lies in W: whatever part of W is taken, some vertex of it is   *)
(* entered by no edge from within it but by those found.                   *)
CycleFree(W) ==
  \A S \in SUBSET W : S # {} =>
    \E v \in S : \A e \in GraphEdges : heap.src[e] \in S /\ heap.tgt[e] = v => e \in Found

(* All edges the vertices on the stack have examined are settled, but for  *)
(* the tree edges between them; those of finished vertices all are.        *)
StackInv ==
  /\ \A n \in DOMAIN stack : stack[n].v \in seen
  /\ \A m, n \in DOMAIN stack : stack[m].v = stack[n].v => m = n
  /\ \A n \in DOMAIN stack : \A k \in DOMAIN order[stack[n].v] :
       k <= stack[n].at =>
         \/ Settled(order[stack[n].v][k])
         \/ n < Len(stack) /\ heap.tgt[order[stack[n].v][k]] = stack[n + 1].v

ColorsInv ==
  /\ pc \in Unsearched => seen = {}
  /\ pc = "dfs" =>
       /\ \A v \in seen : \A e \in heap.outE[v] : \E k \in DOMAIN order[v] : order[v][k] = e
       /\ StackInv
       /\ \A v \in Black : \A e \in heap.outE[v] : Settled(e)
       /\ CycleFree(Black)
  /\ pc = "mark" /\ i = 1 => CycleFree(InGraph)

LEMMA ListedAll ==
  ASSUME NEW S, IsFiniteSet(S), NEW o \in SX!SetToSeqs(S), NEW e \in S
  PROVE  \E k \in DOMAIN o : o[k] = e
<1> DEFINE n == Cardinality(S)
<1>1. n \in Nat
  BY FS_CardinalityType
<1>2. o \in [1 .. n -> S] /\ \A j, k \in 1 .. n : o[j] = o[k] => j = k
  BY SequencesOf
<1>3. o \in Injection(1 .. n, S)
  BY <1>2 DEF Injection, IsInjective
<1>4. Cardinality(1 .. n) = n
  <2> HIDE DEF n
  <2>1. Cardinality(1 .. n) = IF 1 > n THEN 0 ELSE n - 1 + 1
    BY <1>1, FS_Interval
  <2> QED BY <1>1, <2>1
<1>5. o \in Surjection(1 .. n, S)
  BY <1>3, <1>4, FS_Injection
<1> HIDE DEF n
<1>6. \E k \in 1 .. n : o[k] = e
  BY <1>5 DEF Surjection
<1> QED BY <1>2, <1>6

LEMMA DiscoverLists ==
  ASSUME TypeOK, NEW v \in Vertices, Discover(v),
         \A w \in seen : \A e \in heap.outE[w] : \E k \in DOMAIN order[w] : order[w][k] = e
  PROVE  /\ \A w \in Vertices : w # v => order'[w] = order[w]
         /\ \A w \in seen' : \A e \in heap.outE[w] : \E k \in DOMAIN order'[w] : order'[w][k] = e
<1>1. /\ seen' = seen \cup {v} /\ seen \subseteq Vertices
      /\ order \in [Vertices -> Seq(Edges)] /\ heap.outE[v] \subseteq Edges
  BY HeapFields DEF Discover, TypeOK
<1>2. PICK o \in SX!SetToSeqs(heap.outE[v]) : order' = [order EXCEPT ![v] = o]
  BY DEF Discover
<1>3. \A w \in Vertices : order'[w] = IF w = v THEN o ELSE order[w]
  BY <1>1, <1>2
<1>4. IsFiniteSet(heap.outE[v])
  <2>1. heap.outE[v] \in SUBSET (1 .. MaxEdges) /\ MaxEdges \in Nat
    BY <1>1, BoundsAssumption DEF Edges
  <2> QED BY <2>1, PositionsAreFinite
<1>5. \A e \in heap.outE[v] : \E k \in DOMAIN o : o[k] = e
  BY <1>4, ListedAll
<1> QED BY <1>1, <1>3, <1>5

(* The stack after the vertex on top has examined an edge.                 *)
LEMMA AdvancedIs ==
  ASSUME TypeOK, stack # <<>>
  PROVE  /\ Len(Advanced) = Len(stack) /\ DOMAIN Advanced = 1 .. Len(stack)
         /\ DOMAIN stack = 1 .. Len(stack) /\ Len(stack) \in Nat \ {0}
         /\ \A n \in 1 .. Len(stack) :
              /\ Advanced[n].v = stack[n].v
              /\ Advanced[n].at = IF n = Len(stack) THEN stack[n].at + 1 ELSE stack[n].at
<1> DEFINE R == [v : Vertices, at : Nat]
           moved == [stack[Len(stack)] EXCEPT !.at = stack[Len(stack)].at + 1]
<1>1. stack \in Seq(R) /\ Len(stack) \in DOMAIN stack /\ Len(stack) \in Nat \ {0}
  BY TheTop DEF TypeOK
<1>2. stack[Len(stack)] \in R
  <2> HIDE DEF R
  <2> QED BY <1>1
<1>3. moved \in R /\ moved.v = stack[Len(stack)].v /\ moved.at = stack[Len(stack)].at + 1
  BY <1>2
<1>4. Advanced = [stack EXCEPT ![Len(stack)] = moved]
  BY DEF Advanced
<1> HIDE DEF moved, R
<1>5. /\ Len(Advanced) = Len(stack) /\ DOMAIN Advanced = DOMAIN stack
      /\ DOMAIN stack = 1 .. Len(stack)
      /\ \A n \in DOMAIN stack : Advanced[n] = IF n = Len(stack) THEN moved ELSE stack[n]
  BY <1>1, <1>3, <1>4
<1> QED BY <1>1, <1>3, <1>5

(* An edge of the graph is among the out-edges of the vertex it starts at. *)
LEMMA TheOut ==
  ASSUME CfgInv, NEW e \in GraphEdges
  PROVE  heap.src[e] \in Vertices /\ heap.tgt[e] \in Vertices /\ e \in heap.outE[heap.src[e]]
<1>1. /\ EndsAgree(heap) /\ GraphEdges \subseteq Edges
      /\ \A x \in GraphEdges : heap.src[x] \in Vertices /\ heap.tgt[x] \in Vertices
  BY TheGraph DEF CfgInv, EdgesInv, Joined, GraphEdges
<1> QED BY <1>1 DEF EndsAgree, Edges, Vertices

(* The search goes on: the heap stays, and no edge found is lost.          *)
LEMMA ColorsGoOn ==
  ASSUME ColorsInv, pc = "dfs", pc' = "dfs", heap' = heap, Found \subseteq Found',
         \A v \in seen' : \A e \in heap.outE[v] : \E k \in DOMAIN order'[v] : order'[v][k] = e,
         StackInv', Black' = Black
  PROVE  ColorsInv'
<1>1. GraphEdges' = GraphEdges
  BY DEF GraphEdges
<1>2. \A e : Settled(e) => Settled(e)'
  BY DEF Settled
<1>3. \A v \in Black' : \A e \in heap'.outE[v] : Settled(e)'
  BY <1>2 DEF ColorsInv
<1>4. CycleFree(Black)'
  <2> SUFFICES ASSUME NEW S \in SUBSET Black', S # {}
               PROVE  \E v \in S : \A e \in GraphEdges' :
                        heap'.src[e] \in S /\ heap'.tgt[e] = v => e \in Found'
    BY DEF CycleFree
  <2>1. \E v \in S : \A e \in GraphEdges : heap.src[e] \in S /\ heap.tgt[e] = v => e \in Found
    BY DEF ColorsInv, CycleFree
  <2> QED BY <1>1, <2>1
<1> QED BY <1>3, <1>4 DEF ColorsInv, Unsearched

LEMMA AdvanceColors ==
  ASSUME CfgInv, ColorsInv, pc = "dfs", pc' = "dfs", stack # <<>>, MoreEdges,
         stack' = Advanced, seen' = seen, order' = order, heap' = heap,
         Found \subseteq Found', Examined \in Found' \/ heap.tgt[Examined] \in Black
  PROVE  ColorsInv'
<1>0. TypeOK /\ StackInv
  BY DEF CfgInv, ColorsInv
<1>1. /\ Len(stack') = Len(stack) /\ DOMAIN stack' = 1 .. Len(stack)
      /\ DOMAIN stack = 1 .. Len(stack) /\ Len(stack) \in Nat \ {0}
      /\ \A n \in 1 .. Len(stack) :
           /\ stack'[n].v = stack[n].v
           /\ stack'[n].at = IF n = Len(stack) THEN stack[n].at + 1 ELSE stack[n].at
  BY <1>0, AdvancedIs
<1>2. Gray' = Gray /\ Black' = Black
  <2>1. \A n \in 1 .. Len(stack) : stack'[n].v = stack[n].v
    BY <1>1
  <2>2. Gray' = {stack'[n].v : n \in 1 .. Len(stack)} /\ Gray = {stack[n].v : n \in 1 .. Len(stack)}
    BY <1>1 DEF Gray
  <2>3. Gray' = Gray
    BY <2>1, <2>2
  <2> QED BY <2>3 DEF Black
<1>3. \A e : Settled(e) => Settled(e)'
  BY <1>2 DEF Settled
<1>4. StackInv'
  <2>1. ASSUME NEW n \in DOMAIN stack', NEW k \in DOMAIN order'[stack'[n].v], k <= stack'[n].at
        PROVE  \/ order'[stack'[n].v][k] \in Found'
               \/ heap'.tgt[order'[stack'[n].v][k]] \in Black'
               \/ n < Len(stack') /\ heap'.tgt[order'[stack'[n].v][k]] = stack'[n + 1].v
    <3>1. n \in DOMAIN stack /\ stack'[n].v = stack[n].v /\ stack[n].v \in Vertices /\ stack[n].at \in Nat
      BY <1>0, <1>1, TheStack
    <3>2. k \in DOMAIN order[stack[n].v] /\ k \in Nat
      BY <1>0, <3>1 DEF TypeOK
    <3>3. CASE k <= stack[n].at
      <4>1. \/ Settled(order[stack[n].v][k])
            \/ n < Len(stack) /\ heap.tgt[order[stack[n].v][k]] = stack[n + 1].v
        BY <1>0, <3>1, <3>2, <3>3 DEF StackInv
      <4>2. n < Len(stack) => stack'[n + 1].v = stack[n + 1].v
        BY <1>1, <3>1
      <4> QED BY <1>1, <1>2, <3>1, <4>1, <4>2 DEF Settled
    <3>4. CASE ~(k <= stack[n].at)
      <4>1. n = Len(stack) /\ k = stack[n].at + 1
        <5>1. stack'[n].at = IF n = Len(stack) THEN stack[n].at + 1 ELSE stack[n].at
          BY <1>1
        <5> QED BY <2>1, <3>1, <3>2, <3>4, <5>1
      <4>2. order'[stack'[n].v][k] = Examined
        BY <3>1, <4>1 DEF Examined, Top
      <4> QED BY <1>2, <4>2
    <3> QED BY <3>3, <3>4
  <2>2. \A n \in DOMAIN stack' : stack'[n].v \in seen'
    BY <1>0, <1>1 DEF StackInv
  <2>3. \A m, n \in DOMAIN stack' : stack'[m].v = stack'[n].v => m = n
    <3> SUFFICES ASSUME NEW m \in DOMAIN stack', NEW n \in DOMAIN stack', stack'[m].v = stack'[n].v
                 PROVE  m = n
      OBVIOUS
    <3>1. m \in DOMAIN stack /\ n \in DOMAIN stack /\ stack[m].v = stack[n].v
      BY <1>1
    <3> QED BY <1>0, <3>1 DEF StackInv
  <2> QED BY <2>1, <2>2, <2>3 DEF StackInv, Settled
<1>5. \A v \in seen' : \A e \in heap.outE[v] : \E k \in DOMAIN order'[v] : order'[v][k] = e
  BY DEF ColorsInv
<1> QED BY <1>2, <1>4, <1>5, ColorsGoOn

LEMMA ForwardOrCrossColors == ASSUME CfgInv, ColorsInv, ForwardOrCrossEdge PROVE ColorsInv'
<1>1. /\ pc = "dfs" /\ pc' = "dfs" /\ stack # <<>> /\ MoreEdges /\ stack' = Advanced
      /\ heap.tgt[Examined] \in seen \ Gray
      /\ seen' = seen /\ order' = order /\ heap' = heap /\ found' = found
  BY DEF ForwardOrCrossEdge
<1>2. heap.tgt[Examined] \in Black /\ Found' = Found
  BY <1>1 DEF Black, Found
<1> QED BY <1>1, <1>2, AdvanceColors

LEMMA BackEdgeColors == ASSUME CfgInv, ColorsInv, BackEdge PROVE ColorsInv'
<1> DEFINE v == heap.tgt[Examined]
           n == FS!Max(DecisionsAbove(v))
           crash == DecisionsAbove(v) # {} /\ OtherEdges(n) = {}
           r == [edge |-> Examined,
                 proxy |-> IF DecisionsAbove(v) = {} THEN Null
                           ELSE heap.tgt[order[stack[n].v][FS!Min(OtherEdges(n))]]]
<1>1. /\ pc = "dfs" /\ stack # <<>> /\ MoreEdges
      /\ seen' = seen /\ order' = order /\ heap' = heap
      /\ IF crash THEN pc' = "crashed" /\ UNCHANGED <<found, stack>>
         ELSE found' = Append(found, r) /\ stack' = Advanced /\ UNCHANGED pc
  BY DEF BackEdge
<1>2. CASE crash
  BY <1>1, <1>2 DEF ColorsInv, Unsearched
<1>3. CASE ~crash
  <2> DEFINE R == [edge : Edges, proxy : Vertices \cup {Null}]
  <2>1. found \in Seq(R)
    BY DEF CfgInv, TypeOK
  <2>2. r.edge = Examined /\ found' = Append(found, r)
    BY <1>1, <1>3
  <2> HIDE DEF R, r
  <2>3. /\ \A m \in DOMAIN found : m \in DOMAIN found' /\ found'[m] = found[m]
        /\ Len(found) + 1 \in DOMAIN found' /\ found'[Len(found) + 1] = r
    BY <2>1, <2>2
  <2>4. Found \subseteq Found' /\ Examined \in Found'
    BY <2>2, <2>3 DEF Found
  <2> HIDE DEF crash
  <2> QED BY <1>1, <1>3, <2>4, AdvanceColors
<1> QED BY <1>2, <1>3

LEMMA StartVisitColors == ASSUME CfgInv, ColorsInv, StartVisit PROVE ColorsInv'
<1>1. PICK v \in InGraph \ seen : Discover(v) /\ stack' = <<[v |-> v, at |-> 0]>>
  BY DEF StartVisit
<1>2. /\ pc = "dfs" /\ pc' = "dfs" /\ stack = <<>> /\ heap' = heap /\ found' = found
      /\ TypeOK /\ v \in Vertices
  BY TheGraph DEF StartVisit, CfgInv
<1>3. /\ seen' = seen \cup {v}
      /\ \A w \in seen' : \A e \in heap.outE[w] : \E k \in DOMAIN order'[w] : order'[w][k] = e
  BY <1>1, <1>2, DiscoverLists DEF ColorsInv, Discover
<1>4. DOMAIN stack' = {1} /\ Len(stack') = 1 /\ stack'[1].v = v /\ stack'[1].at = 0
  BY <1>1
<1>5. Black' = Black
  <2>1. Gray' = {v}
    BY <1>4 DEF Gray
  <2>2. Gray = {}
    BY <1>2 DEF Gray
  <2> QED BY <1>1, <1>3, <2>1, <2>2 DEF Black
<1>6. order' \in [Vertices -> Seq(Edges)]
  BY <1>1, <1>2, DiscoverDoes DEF CfgInv, SearchInv
<1>7. StackInv'
  <2>1. \A k \in DOMAIN order'[v] : ~(k <= 0)
    BY <1>2, <1>6
  <2> QED BY <1>3, <1>4, <2>1 DEF StackInv
<1>8. Found \subseteq Found'
  BY <1>2 DEF Found
<1> QED BY <1>2, <1>3, <1>5, <1>7, <1>8, ColorsGoOn

LEMMA TreeEdgeColors == ASSUME CfgInv, ColorsInv, TreeEdge PROVE ColorsInv'
<1> DEFINE w == heap.tgt[Examined]
           r == [v |-> w, at |-> 0]
<1>0. /\ TypeOK /\ StackInv /\ pc = "dfs" /\ pc' = "dfs" /\ stack # <<>> /\ MoreEdges
      /\ heap' = heap /\ found' = found /\ w \notin seen
      /\ Discover(w) /\ stack' = Append(Advanced, r)
  BY DEF CfgInv, ColorsInv, TreeEdge
<1>1. w \in Vertices /\ Advanced \in Seq([v : Vertices, at : Nat])
  BY <1>0, TheExamined
<1>2. /\ Len(Advanced) = Len(stack) /\ DOMAIN Advanced = 1 .. Len(stack)
      /\ DOMAIN stack = 1 .. Len(stack) /\ Len(stack) \in Nat \ {0}
      /\ \A n \in 1 .. Len(stack) :
           /\ Advanced[n].v = stack[n].v
           /\ Advanced[n].at = IF n = Len(stack) THEN stack[n].at + 1 ELSE stack[n].at
  BY <1>0, AdvancedIs
<1>10. PICK c \in Nat \ {0} : c = Len(stack)
  BY <1>2
<1>3. /\ Len(stack') = Len(stack) + 1 /\ DOMAIN stack' = 1 .. Len(stack) + 1
      /\ stack'[Len(stack) + 1].v = w /\ stack'[Len(stack) + 1].at = 0
      /\ \A n \in 1 .. Len(stack) :
           /\ stack'[n].v = stack[n].v
           /\ stack'[n].at = IF n = Len(stack) THEN stack[n].at + 1 ELSE stack[n].at
  <2> DEFINE R == [v : Vertices, at : Nat]
  <2>1. r \in R /\ r.v = w /\ r.at = 0
    BY <1>1
  <2>2. Advanced \in Seq(R) /\ stack' = Append(Advanced, r)
    BY <1>0, <1>1
  <2> HIDE DEF r, R
  <2>3. /\ Len(stack') = Len(Advanced) + 1 /\ DOMAIN stack' = 1 .. Len(Advanced) + 1
        /\ stack'[Len(Advanced) + 1] = r
        /\ \A n \in 1 .. Len(Advanced) : stack'[n] = Advanced[n]
    BY <2>1, <2>2
  <2>4. Len(Advanced) = c /\ Len(stack) = c
    BY <1>2, <1>10
  <2>5. /\ Len(stack') = c + 1 /\ DOMAIN stack' = 1 .. c + 1 /\ stack'[c + 1] = r
        /\ \A n \in 1 .. c : stack'[n] = Advanced[n]
    BY <2>3, <2>4
  <2>6. \A n \in 1 .. c : /\ Advanced[n].v = stack[n].v
                           /\ Advanced[n].at = IF n = c THEN stack[n].at + 1 ELSE stack[n].at
    BY <1>2, <2>4
  <2> QED BY <2>1, <2>4, <2>5, <2>6
<1> HIDE DEF w, r
<1>11. /\ DOMAIN stack = 1 .. c /\ DOMAIN stack' = 1 .. c + 1 /\ Len(stack') = c + 1
       /\ stack'[c + 1].v = w /\ stack'[c + 1].at = 0
       /\ \A n \in 1 .. c :
            /\ stack'[n].v = stack[n].v
            /\ stack'[n].at = IF n = c THEN stack[n].at + 1 ELSE stack[n].at
  BY <1>2, <1>3, <1>10
<1>4. /\ seen' = seen \cup {w}
      /\ \A x \in Vertices : x # w => order'[x] = order[x]
      /\ \A x \in seen' : \A e \in heap.outE[x] : \E k \in DOMAIN order'[x] : order'[x][k] = e
  BY <1>0, <1>1, DiscoverLists DEF ColorsInv, Discover
<1>5. order' \in [Vertices -> Seq(Edges)]
  BY <1>0, <1>1, DiscoverDoes DEF CfgInv, SearchInv
<1>6. Gray' = Gray \cup {w}
  <2>1. Gray = {stack[n].v : n \in 1 .. c}
    BY <1>11 DEF Gray
  <2>2. Gray' = {stack'[n].v : n \in 1 .. c + 1}
    BY <1>11 DEF Gray
  <2>3. \A n \in 1 .. c + 1 : n \in 1 .. c \/ n = c + 1
    BY <1>11
  <2>4. \A n \in 1 .. c : n \in 1 .. c + 1
    BY <1>11
  <2>5. c + 1 \in 1 .. c + 1
    BY <1>11
  <2> QED BY <1>11, <2>1, <2>2, <2>3, <2>4, <2>5
<1>7. Black' = Black
  BY <1>0, <1>4, <1>6 DEF Black
<1>8. StackInv'
  <2>1. \A n \in 1 .. c : stack[n].v \in Vertices /\ stack[n].v \in seen /\ stack[n].v # w /\ stack[n].at \in Nat
    BY <1>0, <1>11, TheStack DEF StackInv
  <2>2. ASSUME NEW n \in DOMAIN stack', NEW k \in DOMAIN order'[stack'[n].v], k <= stack'[n].at
        PROVE  \/ order'[stack'[n].v][k] \in Found'
               \/ heap'.tgt[order'[stack'[n].v][k]] \in Black'
               \/ n < Len(stack') /\ heap'.tgt[order'[stack'[n].v][k]] = stack'[n + 1].v
    <3>1. k \in Nat \ {0}
      <4>1. stack'[n].v \in Vertices
        BY <1>1, <1>11, <2>1, <2>2
      <4>2. order'[stack'[n].v] \in Seq(Edges)
        BY <1>5, <4>1
      <4> QED BY <2>2, <4>2
    <3>2. n \in 1 .. c
      BY <1>11, <2>2, <3>1
    <3>3. /\ stack'[n].v = stack[n].v /\ order'[stack[n].v] = order[stack[n].v]
          /\ n < Len(stack')
      BY <1>11, <1>4, <2>1, <3>2
    <3>4. CASE k <= stack[n].at
      <4>1. \/ order[stack[n].v][k] \in Found
            \/ heap.tgt[order[stack[n].v][k]] \in Black
            \/ n < c /\ heap.tgt[order[stack[n].v][k]] = stack[n + 1].v
        <5>1. n \in DOMAIN stack /\ k \in DOMAIN order[stack[n].v]
          BY <1>11, <2>2, <3>2, <3>3
        <5>2. \/ Settled(order[stack[n].v][k])
              \/ n < Len(stack) /\ heap.tgt[order[stack[n].v][k]] = stack[n + 1].v
          BY <1>0, <3>4, <5>1 DEF StackInv
        <5> QED BY <1>11, <5>2 DEF Settled
      <4>2. n < c => stack'[n + 1].v = stack[n + 1].v
        <5>1. n < c => n + 1 \in 1 .. c
          BY <1>11, <3>2
        <5> QED BY <1>11, <5>1
      <4>3. Found' = Found
        BY <1>0 DEF Found
      <4> QED BY <1>0, <1>7, <3>3, <4>1, <4>2, <4>3
    <3>5. CASE ~(k <= stack[n].at)
      <4>1. n = c /\ k = stack[n].at + 1
        <5>1. stack'[n].at = IF n = c THEN stack[n].at + 1 ELSE stack[n].at
          BY <1>11, <3>2
        <5>2. stack[n].at \in Nat
          BY <2>1, <3>2
        <5> QED BY <2>2, <3>1, <3>5, <5>1, <5>2
      <4>2. order'[stack'[n].v][k] = Examined
        BY <1>10, <3>3, <4>1 DEF Examined, Top
      <4> QED BY <1>0, <1>11, <3>3, <4>1, <4>2 DEF w
    <3> QED BY <3>4, <3>5
  <2>3. \A n \in DOMAIN stack' : stack'[n].v \in seen'
    BY <1>11, <1>4, <2>1
  <2>4. ASSUME NEW m \in DOMAIN stack', NEW n \in DOMAIN stack', stack'[m].v = stack'[n].v
        PROVE  m = n
    <3>1. /\ m \in 1 .. c \/ m = c + 1
          /\ n \in 1 .. c \/ n = c + 1
      BY <1>11
    <3>2. \A a, b \in 1 .. c : stack[a].v = stack[b].v => a = b
      BY <1>0, <1>11 DEF StackInv
    <3> QED BY <1>11, <2>1, <2>4, <3>1, <3>2
  <2> QED BY <2>2, <2>3, <2>4 DEF StackInv, Settled
<1>9. Found \subseteq Found'
  BY <1>0 DEF Found
<1> QED BY <1>0, <1>4, <1>7, <1>8, <1>9, ColorsGoOn

(* The vertex finished is entered by no edge of those finished before it.  *)
LEMMA FinishVertexColors == ASSUME CfgInv, ColorsInv, FinishVertex PROVE ColorsInv'
<1> DEFINE v == Top.v
<1>0. /\ TypeOK /\ StackInv /\ pc = "dfs" /\ pc' = "dfs" /\ stack # <<>> /\ ~MoreEdges
      /\ heap' = heap /\ found' = found /\ seen' = seen /\ order' = order
      /\ stack' = SubSeq(stack, 1, Len(stack) - 1)
  BY DEF CfgInv, ColorsInv, FinishVertex
<1>1. PICK c \in Nat \ {0} : c = Len(stack)
  BY <1>0, TheTop
<1>2. /\ DOMAIN stack = 1 .. c /\ DOMAIN stack' = 1 .. c - 1 /\ Len(stack') = c - 1
      /\ \A n \in 1 .. c - 1 : stack'[n] = stack[n]
  <2> DEFINE R == [v : Vertices, at : Nat]
  <2>1. stack \in Seq(R)
    BY <1>0 DEF TypeOK
  <2> HIDE DEF R
  <2> QED BY <1>0, <1>1, <2>1
<1>3. v = stack[c].v /\ v \in Vertices /\ v \in seen /\ c \in DOMAIN stack /\ stack[c].at \in Nat
  <2>1. c \in DOMAIN stack /\ v = stack[c].v
    BY <1>1, <1>2 DEF Top
  <2> QED BY <1>0, <2>1, TheStack DEF StackInv
<1>4. Black' = Black \cup {v} /\ v \notin Black /\ Found' = Found
  <2>1. Gray = {stack[n].v : n \in 1 .. c} /\ Gray' = {stack'[n].v : n \in 1 .. c - 1}
    BY <1>2 DEF Gray
  <2>2. \A n \in 1 .. c : n \in 1 .. c - 1 \/ n = c
    OBVIOUS
  <2>3. \A n \in 1 .. c - 1 : n \in 1 .. c /\ n # c /\ stack'[n].v = stack[n].v
    BY <1>2
  <2>4. \A n \in 1 .. c - 1 : stack[n].v # v
    BY <1>0, <1>2, <1>3, <2>3 DEF StackInv
  <2>5. Gray = Gray' \cup {v} /\ v \notin Gray'
    BY <1>3, <2>1, <2>2, <2>3, <2>4
  <2> QED BY <1>0, <1>3, <2>5 DEF Black, Found
<1> HIDE DEF v
<1>5. \A e \in heap.outE[v] : Settled(e)
  <2> SUFFICES ASSUME NEW e \in heap.outE[v] PROVE Settled(e)
    OBVIOUS
  <2>1. PICK k \in DOMAIN order[v] : order[v][k] = e
    BY <1>0, <1>3 DEF ColorsInv
  <2>2. order[v] \in Seq(Edges)
    BY <1>0, <1>3 DEF TypeOK
  <2>3. ~(stack[c].at < Len(order[v]))
    BY <1>0, <1>1, <1>3 DEF MoreEdges, Top
  <2>4. k <= stack[c].at
    BY <1>3, <2>1, <2>2, <2>3
  <2> QED BY <1>0, <1>1, <1>3, <2>1, <2>4 DEF StackInv
<1>6. \A e : Settled(e) => Settled(e)'
  BY <1>0, <1>4 DEF Settled
<1>7. StackInv'
  <2>1. \A n \in 1 .. c - 1 : n \in 1 .. c /\ n < c
    OBVIOUS
  <2>2. ASSUME NEW n \in DOMAIN stack', NEW k \in DOMAIN order'[stack'[n].v], k <= stack'[n].at
        PROVE  \/ order'[stack'[n].v][k] \in Found'
               \/ heap'.tgt[order'[stack'[n].v][k]] \in Black'
               \/ n < Len(stack') /\ heap'.tgt[order'[stack'[n].v][k]] = stack'[n + 1].v
    <3>1. n \in 1 .. c /\ n < c /\ n \in 1 .. c - 1
      BY <1>2, <2>1, <2>2
    <3>2. \/ order[stack[n].v][k] \in Found
          \/ heap.tgt[order[stack[n].v][k]] \in Black
          \/ heap.tgt[order[stack[n].v][k]] = stack[n + 1].v
      BY <1>0, <1>2, <2>2, <3>1 DEF StackInv, Settled
    <3>3. n + 1 = c \/ (n < c - 1 /\ n + 1 \in 1 .. c - 1)
      BY <3>1
    <3> QED BY <1>0, <1>2, <1>3, <1>4, <3>1, <3>2, <3>3
  <2>3. /\ \A n \in DOMAIN stack' : stack'[n].v \in seen'
        /\ \A m, n \in DOMAIN stack' : stack'[m].v = stack'[n].v => m = n
    BY <1>0, <1>2, <2>1 DEF StackInv
  <2> QED BY <2>2, <2>3 DEF StackInv, Settled
<1>8. \A w \in Black' : \A e \in heap'.outE[w] : Settled(e)'
  BY <1>0, <1>4, <1>5, <1>6 DEF ColorsInv
<1>9. CycleFree(Black)'
  <2>1. GraphEdges' = GraphEdges
    BY <1>0 DEF GraphEdges
  <2> SUFFICES ASSUME NEW S \in SUBSET Black', S # {}
               PROVE  \E w \in S : \A e \in GraphEdges' :
                        heap'.src[e] \in S /\ heap'.tgt[e] = w => e \in Found'
    BY DEF CycleFree
  <2>2. CASE v \in S
    <3>1. ASSUME NEW e \in GraphEdges, heap.src[e] \in S, heap.tgt[e] = v PROVE e \in Found
      <4>1. e \in heap.outE[heap.src[e]] /\ heap.src[e] \in Black \cup {v}
        BY <1>4, <3>1, TheOut
      <4>2. Settled(e)
        BY <1>0, <1>5, <4>1 DEF ColorsInv
      <4> QED BY <1>4, <3>1, <4>2 DEF Settled
    <3> QED BY <1>0, <1>4, <2>1, <2>2, <3>1
  <2>3. CASE v \notin S
    <3>1. S \in SUBSET Black
      BY <1>4, <2>3
    <3>2. \E w \in S : \A e \in GraphEdges : heap.src[e] \in S /\ heap.tgt[e] = w => e \in Found
      BY <1>0, <3>1 DEF ColorsInv, CycleFree
    <3> QED BY <1>0, <1>4, <2>1, <3>2
  <2> QED BY <2>2, <2>3
<1>10. \A w \in seen' : \A e \in heap'.outE[w] : \E k \in DOMAIN order'[w] : order'[w][k] = e
  BY <1>0 DEF ColorsInv
<1> QED BY <1>0, <1>7, <1>8, <1>9, <1>10 DEF ColorsInv, Unsearched

(* The search is begun with nothing seen, and ends when all has been.      *)
LEMMA AddSelfEdgesColors == ASSUME CfgInv, ColorsInv, AddSelfEdges PROVE ColorsInv'
<1>1. pc = "selfedges" /\ pc' = "dfs" /\ seen' = seen /\ stack' = stack
  BY DEF AddSelfEdges, GoTo, search
<1>2. seen = {} /\ stack = <<>>
  BY <1>1 DEF CfgInv, SearchInv, ColorsInv, Unsearched
<1>3. DOMAIN stack' = {} /\ seen' = {} /\ Black' = {}
  BY <1>1, <1>2 DEF Black
<1>4. CycleFree(Black)'
  BY <1>3 DEF CycleFree
<1> QED BY <1>1, <1>3, <1>4 DEF ColorsInv, StackInv, Unsearched

LEMMA SearchCompleteColors == ASSUME CfgInv, ColorsInv, SearchComplete PROVE ColorsInv'
<1>1. /\ pc = "dfs" /\ pc' = "mark" /\ stack = <<>> /\ InGraph \subseteq seen
      /\ heap' = heap /\ found' = found
  BY DEF SearchComplete, GoTo, search
<1>2. InGraph \subseteq Black
  BY <1>1 DEF Black, Gray
<1>3. InGraph' = InGraph /\ GraphEdges' = GraphEdges /\ Found' = Found
  BY <1>1 DEF InGraph, GraphEdges, Found
<1>4. CycleFree(InGraph)
  BY <1>1, <1>2 DEF ColorsInv, CycleFree
<1>5. CycleFree(InGraph)'
  <2> SUFFICES ASSUME NEW S \in SUBSET InGraph', S # {}
               PROVE  \E v \in S : \A e \in GraphEdges' :
                        heap'.src[e] \in S /\ heap'.tgt[e] = v => e \in Found'
    BY DEF CycleFree
  <2>1. \E v \in S : \A e \in GraphEdges :
          heap.src[e] \in S /\ heap.tgt[e] = v => e \in Found
    BY <1>3, <1>4 DEF CycleFree
  <2> QED BY <1>1, <1>3, <2>1
<1> QED BY <1>1, <1>5 DEF ColorsInv, Unsearched

(* Before the search nothing is seen, and after it nothing is said.        *)
LEMMA OtherColors ==
  ASSUME CfgInv, ColorsInv,
         \/ AddStatement \/ FallOffTheEnd \/ LinkFlowControl \/ LinkingComplete
         \/ AddImpossibleEdge \/ LeadersComplete \/ CheckForNoInEdges
         \/ MarkBackEdge \/ MarkingComplete \/ BypassRedundant \/ KeepNeeded \/ DeleteDoomed
  PROVE  ColorsInv'
<1>1. CASE \/ AddStatement \/ FallOffTheEnd \/ LinkFlowControl \/ LinkingComplete
           \/ AddImpossibleEdge \/ LeadersComplete \/ CheckForNoInEdges
  <2>1. pc \in Unsearched /\ pc' \in Unsearched /\ seen' = seen
    BY <1>1 DEF AddStatement, FallOffTheEnd, LinkFlowControl, LinkingComplete,
                AddImpossibleEdge, LeadersComplete, CheckForNoInEdges, GoTo, search, Unsearched
  <2> QED BY <2>1 DEF ColorsInv, Unsearched
<1>2. CASE MarkBackEdge
  <2>1. pc' = "mark" /\ i' # 1
    BY <1>2 DEF MarkBackEdge, CfgInv, TypeOK
  <2> QED BY <2>1 DEF ColorsInv, Unsearched
<1>3. CASE MarkingComplete \/ BypassRedundant \/ KeepNeeded \/ DeleteDoomed
  <2>1. pc' \in {"redundant", "done"}
    BY <1>3 DEF MarkingComplete, BypassRedundant, KeepNeeded, DeleteDoomed, GoTo
  <2> QED BY <2>1 DEF ColorsInv, Unsearched
<1> QED BY <1>1, <1>2, <1>3

LEMMA ColorsStep == CfgInv /\ ColorsInv /\ [Next]_vars => ColorsInv'
<1> SUFFICES ASSUME CfgInv, ColorsInv, [Next]_vars PROVE ColorsInv'
  OBVIOUS
<1>1. CASE StartVisit \/ TreeEdge \/ ForwardOrCrossEdge \/ BackEdge \/ FinishVertex
  BY <1>1, StartVisitColors, TreeEdgeColors, ForwardOrCrossColors, BackEdgeColors, FinishVertexColors
<1>2. CASE AddSelfEdges \/ SearchComplete
  BY <1>2, AddSelfEdgesColors, SearchCompleteColors
<1>3. CASE \/ AddStatement \/ FallOffTheEnd \/ LinkFlowControl \/ LinkingComplete
           \/ AddImpossibleEdge \/ LeadersComplete \/ CheckForNoInEdges
           \/ MarkBackEdge \/ MarkingComplete \/ BypassRedundant \/ KeepNeeded \/ DeleteDoomed
  BY <1>3, OtherColors
<1>4. CASE UNCHANGED vars
  <2>1. /\ pc' = pc /\ i' = i /\ heap' = heap /\ seen' = seen /\ order' = order
        /\ stack' = stack /\ found' = found
    BY <1>4 DEF vars, search
  <2>2. /\ Found' = Found /\ Black' = Black /\ GraphEdges' = GraphEdges /\ InGraph' = InGraph
    BY <2>1 DEF Found, Black, Gray, GraphEdges, InGraph
  <2>3. StackInv => StackInv'
    BY <2>1, <2>2 DEF StackInv, Settled
  <2>4. (\A e : Settled(e) => Settled(e)') /\ (CycleFree(Black) => CycleFree(Black)')
        /\ (CycleFree(InGraph) => CycleFree(InGraph)')
    BY <2>1, <2>2 DEF Settled, CycleFree
  <2> QED BY <2>1, <2>2, <2>3, <2>4 DEF ColorsInv, Unsearched
<1> QED BY <1>1, <1>2, <1>3, <1>4 DEF Next, Build, Returned

-----------------------------------------------------------------------------
(* A recursion over the numbers is solved by its finite pieces.            *)

Iterates(g, n, a, F) == g[0] = a /\ \A k \in 1 .. n : g[k] = F[g[k - 1]]

LEMMA IterationExists ==
  ASSUME NEW a, NEW F, NEW c \in Nat
  PROVE  \E g : Iterates(g, c, a, F)
<1> SUFFICES ASSUME ~ \E g : Iterates(g, c, a, F) PROVE FALSE
  OBVIOUS
<1> DEFINE bad == {n \in Nat : ~ \E g : Iterates(g, n, a, F)}
<1>1. PICK n \in bad : \A m \in bad : n <= m
  <2>1. bad \in SUBSET Nat /\ bad # {}
    OBVIOUS
  <2> HIDE DEF bad
  <2> QED BY <2>1, LeastNatural
<1>2. n # 0
  <2>1. Iterates([k \in {0} |-> a], 0, a, F)
    BY DEF Iterates
  <2> QED BY <2>1
<1>3. n \in Nat /\ n - 1 \in Nat /\ n - 1 \notin bad
  BY <1>1, <1>2
<1>4. PICK g : Iterates(g, n - 1, a, F)
  BY <1>3
<1> DEFINE f == [k \in 0 .. n |-> IF k = n THEN F[g[n - 1]] ELSE g[k]]
<1>5. f[0] = a
  BY <1>2, <1>3, <1>4 DEF Iterates
<1>6. ASSUME NEW k \in 1 .. n PROVE f[k] = F[f[k - 1]]
  <2>1. k - 1 \in 0 .. n /\ k - 1 # n /\ k \in 0 .. n
    BY <1>3
  <2>2. f[k - 1] = g[k - 1]
    BY <2>1
  <2>3. CASE k = n
    BY <2>1, <2>2, <2>3
  <2>4. CASE k # n
    <3>1. k \in 1 .. n - 1
      BY <1>3, <2>4
    <3> QED BY <1>4, <2>1, <2>2, <2>4, <3>1 DEF Iterates
  <2> QED BY <2>3, <2>4
<1>7. Iterates(f, n, a, F)
  BY <1>5, <1>6 DEF Iterates
<1> QED BY <1>1, <1>7

LEMMA IterationAgrees ==
  ASSUME NEW a, NEW F, NEW f, NEW g, NEW m \in Nat, NEW n \in Nat,
         Iterates(f, m, a, F), Iterates(g, n, a, F), NEW c \in Nat, c <= m, c <= n
  PROVE  f[c] = g[c]
<1> SUFFICES ASSUME f[c] # g[c] PROVE FALSE
  OBVIOUS
<1> DEFINE bad == {k \in Nat : k <= m /\ k <= n /\ f[k] # g[k]}
<1>1. PICK k \in bad : \A j \in bad : k <= j
  <2>1. bad \in SUBSET Nat /\ bad # {}
    OBVIOUS
  <2> HIDE DEF bad
  <2> QED BY <2>1, LeastNatural
<1>2. k # 0
  BY <1>1 DEF Iterates
<1>3. k - 1 \in Nat /\ k - 1 <= m /\ k - 1 <= n /\ k \in 1 .. m /\ k \in 1 .. n
  BY <1>1, <1>2
<1>4. f[k - 1] = g[k - 1]
  BY <1>1, <1>3
<1> QED BY <1>1, <1>3, <1>4 DEF Iterates

(* As long as a and what F makes of members of D are members of D.         *)
LEMMA Iteration ==
  ASSUME NEW D, NEW a \in D, NEW F \in [D -> D]
  PROVE  \E f : f \in [Nat -> D] /\ f[0] = a /\ \A n \in Nat \ {0} : f[n] = F[f[n - 1]]
<1> DEFINE P(n) == CHOOSE g : Iterates(g, n, a, F)
           f == [n \in Nat |-> P(n)[n]]
<1>1. \A n \in Nat : Iterates(P(n), n, a, F)
  BY IterationExists
<1> HIDE DEF P
<1>2. f[0] = a
  BY <1>1 DEF Iterates
<1>3. ASSUME NEW n \in Nat \ {0} PROVE f[n] = F[f[n - 1]]
  <2>1. n - 1 \in Nat /\ n \in 1 .. n /\ n - 1 <= n /\ n - 1 <= n - 1
    BY <1>3
  <2>2. P(n)[n] = F[P(n)[n - 1]]
    BY <1>1, <2>1 DEF Iterates
  <2>3. P(n)[n - 1] = P(n - 1)[n - 1]
    BY <1>1, <2>1, IterationAgrees
  <2> QED BY <2>1, <2>2, <2>3
<1> HIDE DEF f
<1>4. \A n \in Nat : f[n] \in D
  <2> DEFINE bad == {n \in Nat : f[n] \notin D}
  <2> SUFFICES ASSUME bad # {} PROVE FALSE
    OBVIOUS
  <2>1. PICK n \in bad : \A m \in bad : n <= m
    <3>1. bad \in SUBSET Nat
      OBVIOUS
    <3> HIDE DEF bad
    <3> QED BY <3>1, LeastNatural
  <2>2. n \in Nat \ {0}
    BY <1>2, <2>1
  <2>3. n - 1 \in Nat /\ n - 1 \notin bad
    BY <2>1, <2>2
  <2> QED BY <1>3, <2>1, <2>2, <2>3
<1>5. f \in [Nat -> D]
  BY <1>4 DEF f
<1> QED BY <1>2, <1>3, <1>5

(* Peeling takes away a vertex each time, as long as some part of the     *)
(* graph is left.                                                          *)
LEMMA PeelingIsDefined ==
  ASSUME NEW h, NEW marked
  PROVE  \E f : /\ f = [n \in Nat |-> IF n = 0 THEN h.verts[Self]
                                      ELSE Cyclic(f[n - 1], h, marked)]
                /\ AcyclicWithout(h, marked) <=> f[Cardinality(h.verts[Self])] = {}
<1> DEFINE V == h.verts[Self]
           F == [S \in SUBSET V |-> Cyclic(S, h, marked)]
           Solves(f) == f = [n \in Nat |-> IF n = 0 THEN V ELSE Cyclic(f[n - 1], h, marked)]
           L == CHOOSE f : Solves(f)
<1>1. F \in [SUBSET V -> SUBSET V]
  BY DEF Cyclic
<1>2. PICK f : /\ f \in [Nat -> SUBSET V] /\ f[0] = V
               /\ \A n \in Nat \ {0} : f[n] = F[f[n - 1]]
  <2> DEFINE D == SUBSET V
  <2>1. V \in D /\ F \in [D -> D]
    BY <1>1
  <2> HIDE DEF D, F
  <2>2. \E f : f \in [Nat -> D] /\ f[0] = V /\ \A n \in Nat \ {0} : f[n] = F[f[n - 1]]
    BY <2>1, Iteration
  <2> QED BY <2>2 DEF D
<1>3. \A n \in Nat \ {0} : f[n] = Cyclic(f[n - 1], h, marked)
  <2> SUFFICES ASSUME NEW n \in Nat \ {0} PROVE f[n] = Cyclic(f[n - 1], h, marked)
    OBVIOUS
  <2>1. n - 1 \in Nat
    OBVIOUS
  <2> QED BY <1>2, <2>1
<1>4. Solves(f)
  BY <1>2, <1>3
<1>5. Solves(L)
  <2> HIDE DEF Solves
  <2> QED BY <1>4
<1>6. AcyclicWithout(h, marked) <=> L[Cardinality(V)] = {}
  BY DEF AcyclicWithout
<1> HIDE DEF L
<1> QED BY <1>5, <1>6

LEMMA PeelingEnds ==
  ASSUME NEW h, NEW marked, IsFiniteSet(h.verts[Self]),
         \A S \in SUBSET h.verts[Self] : S # {} => Cyclic(S, h, marked) # S
  PROVE  AcyclicWithout(h, marked)
<1> DEFINE V == h.verts[Self]
           N == Cardinality(V)
<1>1. N \in Nat
  BY FS_CardinalityType
<1>2. PICK f : /\ f = [n \in Nat |-> IF n = 0 THEN V ELSE Cyclic(f[n - 1], h, marked)]
               /\ AcyclicWithout(h, marked) <=> f[N] = {}
  BY PeelingIsDefined
<1>3. \A S \in SUBSET V : IsFiniteSet(S) /\ Cardinality(S) \in Nat /\ Cyclic(S, h, marked) \subseteq S
  BY FS_Subset, FS_CardinalityType DEF Cyclic
<1> DEFINE Few(n) == f[n] \subseteq V /\ Cardinality(f[n]) <= N - n
           bad == {n \in Nat : n <= N /\ ~Few(n)}
<1> HIDE DEF V, N
<1>4. Few(0)
  BY <1>1, <1>2 DEF N
<1>5. bad = {}
  <2> SUFFICES ASSUME bad # {} PROVE FALSE
    OBVIOUS
  <2>1. PICK n \in bad : \A m \in bad : n <= m
    <3>1. bad \in SUBSET Nat
      OBVIOUS
    <3> HIDE DEF bad
    <3> QED BY <3>1, LeastNatural
  <2>2. n # 0 /\ n \in Nat /\ n <= N
    BY <1>4, <2>1
  <2>3. n - 1 \in Nat /\ n - 1 <= N /\ n - 1 \notin bad
    BY <1>1, <2>1, <2>2
  <2>4. Few(n - 1)
    BY <2>3
  <2>5. f[n] = Cyclic(f[n - 1], h, marked)
    BY <1>2, <2>2
  <2> DEFINE S == f[n - 1]
             T == f[n]
  <2>6. S \subseteq V /\ Cardinality(S) <= N - (n - 1) /\ T \subseteq S /\ T = Cyclic(S, h, marked)
    BY <1>3, <2>4, <2>5
  <2>7. Cardinality(S) \in Nat /\ Cardinality(T) \in Nat /\ IsFiniteSet(S)
    BY <1>3, <2>6
  <2> HIDE DEF S, T
  <2>8. CASE S = {}
    <3>1. T = {} /\ Cardinality(T) = 0
      BY <2>6, <2>8, FS_EmptySet
    <3>2. f[n] \subseteq V /\ Cardinality(f[n]) <= N - n
      BY <1>1, <2>2, <3>1 DEF T
    <3> QED BY <2>1, <3>2
  <2>9. CASE S # {}
    <3>1. T # S
      BY <2>6, <2>9 DEF V
    <3>2. Cardinality(T) < Cardinality(S)
      <4>1. Cardinality(T) <= Cardinality(S) /\ (Cardinality(T) = Cardinality(S) => T = S)
        BY <2>6, <2>7, FS_Subset
      <4> QED BY <2>7, <3>1, <4>1
    <3> QED BY <1>1, <2>1, <2>2, <2>6, <2>7, <3>2 DEF T
  <2> QED BY <2>8, <2>9
<1>6. Few(N)
  BY <1>1, <1>5
<1>7. f[N] = {}
  <2>1. IsFiniteSet(f[N]) /\ Cardinality(f[N]) \in Nat /\ Cardinality(f[N]) <= 0
    BY <1>1, <1>3, <1>6
  <2>2. Cardinality(f[N]) = 0
    BY <2>1
  <2> QED BY <2>1, <2>2, FS_EmptySet
<1> QED BY <1>2, <1>7

LEMMA InitColors == Init => ColorsInv
  BY DEF Init, ColorsInv, Unsearched

(* Whatever the statements, their labels and the order in which edges are  *)
(* walked, the back edges the visitor is told of cut every cycle of the    *)
(* graph, also those no way leads to from ENTRY (cfg_algs.cpp:82).         *)
THEOREM AlwaysFoundEdgesCutCycles == Spec => []FoundEdgesCutCycles
<1>1. CfgInv /\ ColorsInv => FoundEdgesCutCycles
  <2> SUFFICES ASSUME CfgInv, ColorsInv, pc = "mark", i = 1
               PROVE  AcyclicWithout(heap, Found)
    BY DEF FoundEdgesCutCycles, Found
  <2>1. IsFiniteSet(heap.verts[Self])
    <3>1. InGraph \subseteq Vertices /\ MaxLen \in Nat
      BY TheGraph, BoundsAssumption DEF CfgInv
    <3>2. IsFiniteSet(0 .. 2 * MaxLen + 1)
      BY <3>1, FS_Interval
    <3> QED BY <3>1, <3>2, FS_Subset DEF InGraph, Vertices
  <2>2. ASSUME NEW S \in SUBSET heap.verts[Self], S # {} PROVE Cyclic(S, heap, Found) # S
    <3>1. PICK v \in S : \A e \in GraphEdges : heap.src[e] \in S /\ heap.tgt[e] = v => e \in Found
      BY <2>2 DEF ColorsInv, CycleFree, InGraph
    <3>2. v \notin Cyclic(S, heap, Found)
      BY <3>1 DEF Cyclic, ForwardEdges, GraphEdges
    <3> QED BY <3>2
  <2> QED BY <2>1, <2>2, PeelingEnds
<1>2. Init => ColorsInv
  BY InitColors
<1> QED BY <1>1, <1>2, ColorsStep, CfgInvariant, PTL DEF Spec

-----------------------------------------------------------------------------
(* Where control arrives once it is at a position.                         *)

Position == 0 .. EndPos

LEMMA TheTargets ==
  ASSUME TypeOK, TargetsDefined(prog), NEW p \in 1 .. Len(prog), NEW n \in DOMAIN prog[p].to
  PROVE  /\ LabelPos(prog[p].to[n]) \in 1 .. Len(prog)
         /\ prog[LabelPos(prog[p].to[n])].op = "label"
         /\ prog[LabelPos(prog[p].to[n])].to = <<prog[p].to[n]>>
<1> DEFINE l == prog[p].to[n]
<1>1. p \in DOMAIN prog /\ DOMAIN prog = 1 .. Len(prog)
  BY TheProgram
<1>2. \E m \in DOMAIN prog : prog[m].op = "label" /\ prog[m].to = <<l>>
  BY <1>1 DEF TargetsDefined
<1> HIDE DEF l
<1>3. /\ LabelPos(l) \in DOMAIN prog
      /\ prog[LabelPos(l)].op = "label" /\ prog[LabelPos(l)].to = <<l>>
  BY <1>2 DEF LabelPos
<1> QED BY <1>1, <1>3 DEF l

LEMMA ArmsAreKnown ==
  ASSUME TypeOK, NEW p \in Position
  PROVE  /\ Len(prog) \in Nat /\ EndPos \in Position /\ EndPos = Len(prog) + 1
         /\ p = EndPos => Arms(p) = {}
         /\ p = 0 => Arms(p) = {<<"Fallthrough", 1>>}
         /\ p \in 1 .. Len(prog) =>
              /\ prog[p].op = "return" => Arms(p) = {<<"Fallthrough", EndPos>>}
              /\ prog[p].op \in {"plain", "label"} => Arms(p) = {<<"Fallthrough", p + 1>>}
              /\ prog[p].op \in {"goto", "if", "switch"} =>
                   Arms(p) = {<<ArmKind(prog[p], n), LabelPos(prog[p].to[n])>> :
                                n \in DOMAIN prog[p].to}
         /\ p = 0 \/ p = EndPos \/ p \in 1 .. Len(prog)
<1>1. Len(prog) \in Nat /\ EndPos = Len(prog) + 1
  BY TheProgram DEF EndPos
<1>2. EndPos \in Position /\ (p = 0 \/ p = EndPos \/ p \in 1 .. Len(prog))
  BY <1>1 DEF Position
<1>3. p = EndPos => Arms(p) = {}
  BY Zenon DEF Arms
<1>4. p = 0 => Arms(p) = {<<"Fallthrough", 1>>}
  <2>1. p = 0 => p # EndPos
    BY <1>1
  <2> QED BY <2>1, Zenon DEF Arms
<1>5. ASSUME p \in 1 .. Len(prog)
      PROVE  /\ prog[p].op = "return" => Arms(p) = {<<"Fallthrough", EndPos>>}
             /\ prog[p].op \in {"plain", "label"} => Arms(p) = {<<"Fallthrough", p + 1>>}
             /\ prog[p].op \in {"goto", "if", "switch"} =>
                  Arms(p) = {<<ArmKind(prog[p], n), LabelPos(prog[p].to[n])>> :
                               n \in DOMAIN prog[p].to}
  <2>1. p # 0 /\ p # EndPos
    BY <1>1, <1>5
  <2>2. Arms(p) = CASE prog[p].op = "return" -> {<<"Fallthrough", EndPos>>}
                    [] prog[p].op \in {"plain", "label"} -> {<<"Fallthrough", p + 1>>}
                    [] OTHER -> {<<ArmKind(prog[p], n), LabelPos(prog[p].to[n])>> :
                                   n \in DOMAIN prog[p].to}
    BY <2>1, Zenon DEF Arms
  <2> QED BY <2>2
<1> QED BY <1>1, <1>2, <1>3, <1>4, <1>5

LEMMA ArmsStay ==
  ASSUME TypeOK, TargetsDefined(prog), NEW p \in Position, NEW a \in Arms(p)
  PROVE  a[2] \in Position /\ a = <<a[1], a[2]>>
<1>1. /\ Len(prog) \in Nat /\ EndPos \in Position /\ EndPos = Len(prog) + 1
      /\ p = EndPos => Arms(p) = {}
      /\ p = 0 => Arms(p) = {<<"Fallthrough", 1>>}
      /\ p \in 1 .. Len(prog) =>
           /\ prog[p].op = "return" => Arms(p) = {<<"Fallthrough", EndPos>>}
           /\ prog[p].op \in {"plain", "label"} => Arms(p) = {<<"Fallthrough", p + 1>>}
           /\ prog[p].op \in {"goto", "if", "switch"} =>
                Arms(p) = {<<ArmKind(prog[p], n), LabelPos(prog[p].to[n])>> :
                             n \in DOMAIN prog[p].to}
      /\ p = 0 \/ p = EndPos \/ p \in 1 .. Len(prog)
  BY ArmsAreKnown
<1>2. CASE p = 0
  BY <1>1, <1>2 DEF Position
<1>3. CASE p \in 1 .. Len(prog)
  <2>1. prog[p].op \in {"plain", "label", "goto", "return", "if", "switch"}
    <3>1. prog[p] \in Statement
      BY <1>3, TheProgram
    <3> QED BY <3>1, TheStatement
  <2>2. CASE prog[p].op \in {"return", "plain", "label"}
    BY <1>1, <1>3, <2>2 DEF Position
  <2>3. CASE prog[p].op \in {"goto", "if", "switch"}
    <3>1. PICK n \in DOMAIN prog[p].to : a = <<ArmKind(prog[p], n), LabelPos(prog[p].to[n])>>
      BY <1>1, <1>3, <2>3
    <3>2. LabelPos(prog[p].to[n]) \in 1 .. Len(prog)
      BY <1>3, TheTargets
    <3> QED BY <1>1, <3>1, <3>2 DEF Position
  <2> QED BY <2>1, <2>2, <2>3
<1> QED BY <1>1, <1>2, <1>3

(* Control leaves R only from a position of K, and R is no larger than that*)
(* takes.                                                                  *)
Closed(R, K) == \A q \in R \ K : \A a \in Arms(q) : a[2] \in R
Reach(R, p, K) ==
  /\ p \in R /\ Closed(R, K)
  /\ \A S \in SUBSET Position : p \in S /\ Closed(S, K) => R \subseteq S

LEMMA PassingIs ==
  ASSUME NEW S, NEW K
  PROVE  \A q : q \in Passing(S, K) <=> q \in S \/ \E r \in S \ K : \E a \in Arms(r) : q = a[2]
  BY DEF Passing

LEMMA PassedIsDefined ==
  ASSUME TypeOK, TargetsDefined(prog), NEW p \in Position, NEW K
  PROVE  \E f : /\ f \in [Nat -> SUBSET Position] /\ f[0] = {p}
                /\ \A n \in Nat \ {0} : f[n] = Passing(f[n - 1], K)
                /\ Landing(p, K) = f[EndPos + 1] \cap K
<1> DEFINE F == [S \in SUBSET Position |-> Passing(S, K)]
           Solves(f) == f = [n \in Nat |-> IF n = 0 THEN {p} ELSE Passing(f[n - 1], K)]
           L == CHOOSE f : Solves(f)
           D == SUBSET Position
<1>1. \A S \in SUBSET Position : Passing(S, K) \in SUBSET Position
  BY ArmsStay, PassingIs
<1>2. F \in [D -> D] /\ {p} \in D
  BY <1>1
<1>3. PICK f : f \in [Nat -> D] /\ f[0] = {p} /\ \A n \in Nat \ {0} : f[n] = F[f[n - 1]]
  <2> HIDE DEF F, D
  <2> QED BY <1>2, Iteration
<1>4. \A n \in Nat \ {0} : f[n] = Passing(f[n - 1], K)
  <2> SUFFICES ASSUME NEW n \in Nat \ {0} PROVE f[n] = Passing(f[n - 1], K)
    OBVIOUS
  <2>1. n - 1 \in Nat
    OBVIOUS
  <2> QED BY <1>3, <2>1
<1>5. Solves(f)
  BY <1>3, <1>4
<1>6. Solves(L)
  <2> HIDE DEF Solves
  <2> QED BY <1>5
<1>7. Landing(p, K) = L[EndPos + 1] \cap K
  BY DEF Landing
<1> HIDE DEF L
<1>8. L[0] = {p} /\ \A n \in Nat \ {0} : L[n] = Passing(L[n - 1], K)
  BY <1>6
<1>9. \A n \in Nat : L[n] \in D
  <2> DEFINE bad == {n \in Nat : L[n] \notin D}
  <2> SUFFICES ASSUME bad # {} PROVE FALSE
    OBVIOUS
  <2>1. PICK n \in bad : \A m \in bad : n <= m
    <3>1. bad \in SUBSET Nat
      OBVIOUS
    <3> HIDE DEF bad
    <3> QED BY <3>1, LeastNatural
  <2>2. n \in Nat \ {0}
    BY <1>2, <1>8, <2>1
  <2>3. n - 1 \in Nat /\ n - 1 \notin bad
    BY <2>1, <2>2
  <2> QED BY <1>1, <1>8, <2>1, <2>2, <2>3
<1>10. L \in [Nat -> D]
  BY <1>6, <1>9
<1> QED BY <1>7, <1>8, <1>10

(* A set that never shrinks, and stands still once it stood still for a    *)
(* step, has stopped growing after as many steps as it can have members.   *)
LEMMA GrowingEnds ==
  ASSUME NEW V, IsFiniteSet(V), NEW f \in [Nat -> SUBSET V],
         \A n \in Nat : f[n] \subseteq f[n + 1],
         \A n \in Nat : f[n + 1] = f[n] => f[n + 2] = f[n + 1]
  PROVE  f[Cardinality(V) + 1] = f[Cardinality(V)]
<1> SUFFICES ASSUME f[Cardinality(V) + 1] # f[Cardinality(V)] PROVE FALSE
  OBVIOUS
<1>1. PICK N \in Nat : N = Cardinality(V)
  BY FS_CardinalityType
<1>2. \A n \in Nat : f[n] \subseteq V /\ IsFiniteSet(f[n]) /\ Cardinality(f[n]) \in Nat
                     /\ Cardinality(f[n]) <= N
  BY <1>1, FS_Subset, FS_CardinalityType
(* It grew in every step so far: going back from the last one.             *)
<1> DEFINE late == {d \in Nat : d <= N /\ f[N - d + 1] = f[N - d]}
<1>3. late = {}
  <2> SUFFICES ASSUME late # {} PROVE FALSE
    OBVIOUS
  <2>1. PICK d \in late : \A e \in late : d <= e
    <3>1. late \in SUBSET Nat
      OBVIOUS
    <3> HIDE DEF late
    <3> QED BY <3>1, LeastNatural
  <2>2. d # 0 /\ d \in Nat /\ d <= N
    BY <1>1, <2>1
  <2>3. d - 1 \in Nat /\ d - 1 <= N /\ d - 1 \notin late /\ N - d \in Nat
        /\ N - (d - 1) = N - d + 1 /\ N - (d - 1) + 1 = N - d + 2
    BY <2>1, <2>2
  <2>4. f[N - d + 1] = f[N - d]
    BY <2>1
  <2>5. f[N - d + 2] = f[N - d + 1]
    BY <2>3, <2>4
  <2> QED BY <2>3, <2>5
<1>4. \A n \in Nat : n <= N => f[n + 1] # f[n]
  <2> SUFFICES ASSUME NEW n \in Nat, n <= N, f[n + 1] = f[n] PROVE FALSE
    OBVIOUS
  <2>1. N - n \in Nat /\ N - n <= N /\ N - (N - n) = n
    OBVIOUS
  <2>2. N - n \in late
    BY <2>1
  <2> QED BY <1>3, <2>2
<1> DEFINE few == {n \in Nat : n <= N + 1 /\ ~ Cardinality(f[n]) >= n}
<1>5. few # {}
  <2>1. N + 1 \in Nat /\ ~ Cardinality(f[N + 1]) >= N + 1
    BY <1>2
  <2> QED BY <2>1
<1>6. PICK n \in few : \A m \in few : n <= m
  <2>1. few \in SUBSET Nat
    OBVIOUS
  <2> HIDE DEF few
  <2> QED BY <1>5, <2>1, LeastNatural
<1>7. n # 0 /\ n \in Nat /\ n <= N + 1
  BY <1>2, <1>6
<1>8. n - 1 \in Nat /\ n - 1 <= N /\ (n - 1) + 1 = n /\ n - 1 \notin few
  BY <1>6, <1>7
<1>9. Cardinality(f[n - 1]) >= n - 1
  BY <1>8
<1>10. f[n - 1] \subseteq f[n] /\ f[n - 1] # f[n]
  BY <1>4, <1>8
<1>11. Cardinality(f[n - 1]) < Cardinality(f[n])
  <2>1. /\ Cardinality(f[n - 1]) <= Cardinality(f[n])
        /\ Cardinality(f[n - 1]) = Cardinality(f[n]) => f[n - 1] = f[n]
    BY <1>2, <1>7, <1>10, FS_Subset
  <2>2. Cardinality(f[n - 1]) \in Nat /\ Cardinality(f[n]) \in Nat
    BY <1>2, <1>7, <1>8
  <2>3. Cardinality(f[n - 1]) # Cardinality(f[n])
    BY <1>10, <2>1
  <2> HIDE DEF few
  <2> QED BY <2>1, <2>2, <2>3
<1> QED BY <1>2, <1>6, <1>7, <1>8, <1>9, <1>11

(* Where control arrives is where the smallest set that is closed meets K. *)
LEMMA LandingIs ==
  ASSUME TypeOK, TargetsDefined(prog), NEW p \in Position, NEW K
  PROVE  \E R \in SUBSET Position : Reach(R, p, K) /\ Landing(p, K) = R \cap K
<1>1. PICK f : /\ f \in [Nat -> SUBSET Position] /\ f[0] = {p}
               /\ \A n \in Nat \ {0} : f[n] = Passing(f[n - 1], K)
               /\ Landing(p, K) = f[EndPos + 1] \cap K
  BY PassedIsDefined
<1>2. \A n \in Nat : f[n + 1] = Passing(f[n], K) /\ f[n + 2] = Passing(f[n + 1], K)
  <2> TAKE n \in Nat
  <2>1. n + 1 \in Nat \ {0} /\ (n + 1) - 1 = n /\ n + 2 \in Nat \ {0} /\ (n + 2) - 1 = n + 1
    OBVIOUS
  <2> QED BY <1>1, <2>1
<1>3. \A n \in Nat : f[n] \subseteq f[n + 1]
  BY <1>2, PassingIs
<1>4. \A n \in Nat : f[n + 1] = f[n] => f[n + 2] = f[n + 1]
  BY <1>2
<1>5. PICK N \in Nat : N = EndPos + 1 /\ N = Cardinality(Position) /\ IsFiniteSet(Position)
  <2>1. EndPos \in Nat
    BY TheProgram DEF EndPos
  <2>2. IsFiniteSet(0 .. EndPos) /\ Cardinality(0 .. EndPos) = EndPos - 0 + 1
    BY <2>1, FS_Interval
  <2> QED BY <2>1, <2>2 DEF Position
<1> DEFINE R == f[N]
<1>6. Passing(R, K) = R
  <2>1. f[N + 1] = f[N]
    BY <1>1, <1>3, <1>4, <1>5, GrowingEnds
  <2> QED BY <1>2, <2>1
<1>7. Closed(R, K)
  BY <1>6, PassingIs DEF Closed
<1>8. \A n \in Nat : p \in f[n]
  <2> DEFINE bad == {n \in Nat : p \notin f[n]}
  <2> SUFFICES ASSUME bad # {} PROVE FALSE
    OBVIOUS
  <2>1. PICK n \in bad : \A m \in bad : n <= m
    <3>1. bad \in SUBSET Nat
      OBVIOUS
    <3> HIDE DEF bad
    <3> QED BY <3>1, LeastNatural
  <2>2. n # 0 /\ n \in Nat
    BY <1>1, <2>1
  <2>3. n - 1 \in Nat /\ n - 1 \notin bad /\ (n - 1) + 1 = n
    BY <2>1, <2>2
  <2> QED BY <1>3, <2>1, <2>3
<1>9. ASSUME NEW S \in SUBSET Position, p \in S, Closed(S, K) PROVE \A n \in Nat : f[n] \subseteq S
  <2> DEFINE bad == {n \in Nat : ~ f[n] \subseteq S}
  <2> SUFFICES ASSUME bad # {} PROVE FALSE
    OBVIOUS
  <2>1. PICK n \in bad : \A m \in bad : n <= m
    <3>1. bad \in SUBSET Nat
      OBVIOUS
    <3> HIDE DEF bad
    <3> QED BY <3>1, LeastNatural
  <2>2. n # 0 /\ n \in Nat
    BY <1>1, <1>9, <2>1
  <2>3. n - 1 \in Nat /\ n - 1 \notin bad /\ (n - 1) + 1 = n
    BY <2>1, <2>2
  <2>4. f[n - 1] \subseteq S /\ f[n] = Passing(f[n - 1], K)
    BY <1>2, <2>3
  <2>5. \A q \in f[n] : q \in S
    BY <1>9, <2>4, PassingIs DEF Closed
  <2> QED BY <2>1, <2>5
<1>10. R \in SUBSET Position /\ Reach(R, p, K)
  <2>1. p \in R /\ R \in SUBSET Position
    BY <1>1, <1>5, <1>8
  <2> QED BY <1>5, <1>7, <1>9, <2>1 DEF Reach
<1>11. Landing(p, K) = R \cap K
  BY <1>1, <1>5
<1> QED BY <1>10, <1>11

(* A position of K is where control arrives.                               *)
LEMMA LandingAtOnce ==
  ASSUME TypeOK, TargetsDefined(prog), NEW p \in Position, NEW K, p \in K
  PROVE  Landing(p, K) = {p}
<1>1. PICK R \in SUBSET Position : Reach(R, p, K) /\ Landing(p, K) = R \cap K
  BY LandingIs
<1>2. {p} \in SUBSET Position /\ Closed({p}, K)
  BY DEF Closed
<1>3. R \subseteq {p} /\ p \in R
  BY <1>1, <1>2 DEF Reach
<1> QED BY <1>1, <1>3

(* One position less in K makes no difference where control never came     *)
(* to it.                                                                  *)
LEMMA LandingElsewhere ==
  ASSUME TypeOK, TargetsDefined(prog), NEW p \in Position, NEW K,
         NEW x \in K, x \notin Landing(p, K)
  PROVE  Landing(p, K \ {x}) = Landing(p, K)
<1>1. PICK R \in SUBSET Position : Reach(R, p, K) /\ Landing(p, K) = R \cap K
  BY LandingIs
<1>2. PICK Q \in SUBSET Position : Reach(Q, p, K \ {x}) /\ Landing(p, K \ {x}) = Q \cap (K \ {x})
  BY LandingIs
<1>3. x \notin R
  BY <1>1
<1>4. Closed(R, K \ {x}) /\ p \in R
  BY <1>1, <1>3 DEF Reach, Closed
<1>5. Closed(Q, K) /\ p \in Q
  BY <1>2 DEF Reach, Closed
<1>6. Q = R
  BY <1>1, <1>2, <1>4, <1>5 DEF Reach
<1> QED BY <1>1, <1>2, <1>3, <1>6

(* And where it came to it, control now arrives where the single way out   *)
(* of that position leads.                                                 *)
LEMMA LandingBeyond ==
  ASSUME TypeOK, TargetsDefined(prog), NEW p \in Position, NEW s \in Position,
         NEW K, NEW x \in Position, x \in K, x \in Landing(p, K), x \notin Landing(s, K),
         \E a \in Arms(x) : a[2] = s, \A a \in Arms(x) : a[2] = s
  PROVE  Landing(p, K \ {x}) = (Landing(p, K) \ {x}) \cup Landing(s, K)
<1>1. PICK R \in SUBSET Position : Reach(R, p, K) /\ Landing(p, K) = R \cap K
  BY LandingIs
<1>2. PICK Q \in SUBSET Position : Reach(Q, p, K \ {x}) /\ Landing(p, K \ {x}) = Q \cap (K \ {x})
  BY LandingIs
<1>3. PICK T \in SUBSET Position : Reach(T, s, K) /\ Landing(s, K) = T \cap K
  BY LandingIs
<1>4. \A a \in Arms(x) : a[2] = s
  OBVIOUS
<1>5. R \cup T \in SUBSET Position /\ p \in R \cup T /\ Closed(R \cup T, K \ {x})
  <2>1. ASSUME NEW q \in (R \cup T) \ (K \ {x}), NEW a \in Arms(q) PROVE a[2] \in R \cup T
    <3>1. CASE q = x
      BY <1>3, <1>4, <2>1, <3>1 DEF Reach
    <3>2. CASE q # x /\ q \in R
      <4>1. q \in R \ K
        BY <2>1, <3>2
      <4> QED BY <1>1, <2>1, <4>1 DEF Reach, Closed
    <3>3. CASE q # x /\ q \in T
      <4>1. q \in T \ K
        BY <2>1, <3>3
      <4> QED BY <1>3, <2>1, <4>1 DEF Reach, Closed
    <3> QED BY <2>1, <3>1, <3>2, <3>3
  <2> QED BY <1>1, <2>1 DEF Reach, Closed
<1>6. Q \subseteq R \cup T
  BY <1>2, <1>5 DEF Reach
<1>7. Closed(Q, K) /\ p \in Q
  BY <1>2 DEF Reach, Closed
<1>8. R \subseteq Q
  BY <1>1, <1>7 DEF Reach
<1>9. s \in Q
  <2>1. x \in Q \ (K \ {x})
    BY <1>1, <1>8
  <2>2. \A a \in Arms(x) : a[2] \in Q
    BY <1>2, <2>1 DEF Reach, Closed
  <2> QED BY <2>2
<1>10. T \subseteq Q
  BY <1>3, <1>7, <1>9 DEF Reach
<1>11. Q = R \cup T
  BY <1>6, <1>8, <1>10
<1> QED BY <1>1, <1>2, <1>3, <1>11

LEMMA LandingIsKept ==
  ASSUME NEW p, NEW K
  PROVE  Landing(p, K) \subseteq K
  BY DEF Landing

-----------------------------------------------------------------------------
(* The control flow the graph has by now.                                  *)

(* The ways out of a vertex that edges of control flow make.               *)
LeadsIn(h, ks, v) ==
  {<<ks[e], PosOf(h.tgt[e])>> :
     e \in {x \in h.edges[Self] : h.src[x] = v /\ ks[x] # "Impossible"}}

(* The vertices that are in the graph to stay, as far as is known, and the *)
(* ways out of a position that arrive at the next one of K.                *)
Staying  == InGraph \ doomed
Standing == {PosOf(v) : v \in Staying}
Onward(p, K) == UNION {{<<a[1], q>> : q \in Landing(a[2], K)} : a \in Arms(p)}

(* What a vertex leads to: a jump not linked and the last statement so far *)
(* to nothing yet, others to where the source says, and when the removal   *)
(* has begun to what of it stays.                                          *)
Unled(v) == v - 1 \in Jumps \/ (pc = "statements" /\ v = prev)
Due(v, K) ==
  IF Unled(v) THEN {}
  ELSE IF pc \in {"redundant", "done"} THEN Onward(PosOf(v), K)
  ELSE Arms(PosOf(v))

NamesInv ==
  /\ labelMap["EXIT"] = Exit
  /\ \A m \in Added : prog[m].op = "label" => labelMap[prog[m].to[1]] = Stmt(m)

ArmsInv ==
  WellLabelled(prog) =>
    /\ NamesInv
    /\ \A v \in Staying : \A K \in {Standing} : LeadsIn(heap, kinds, v) = Due(v, K)

LEMMA LeadsAre ==
  ASSUME NEW h, NEW ks, NEW v
  PROVE  \A r : r \in LeadsIn(h, ks, v) <=>
           \E e \in h.edges[Self] :
             h.src[e] = v /\ ks[e] # "Impossible" /\ r = <<ks[e], PosOf(h.tgt[e])>>
  BY DEF LeadsIn

LEMMA OnwardIs ==
  ASSUME NEW p, NEW K
  PROVE  \A r : r \in Onward(p, K) <=>
           \E a \in Arms(p) : \E q \in Landing(a[2], K) : r = <<a[1], q>>
  BY DEF Onward

(* The statement list never changes, and so nothing that depends on it     *)
(* alone does.                                                             *)
LEMMA SourceStays ==
  ASSUME prog' = prog, NEW p, NEW v, NEW K
  PROVE  /\ EndPos' = EndPos /\ PosOf(v)' = PosOf(v)
         /\ Arms(p)' = Arms(p) /\ Landing(p, K)' = Landing(p, K)
         /\ Onward(p, K)' = Onward(p, K)
         /\ WellLabelled(prog)' = WellLabelled(prog)
<1>1. EndPos' = EndPos /\ PosOf(v)' = PosOf(v)
  BY DEF EndPos, PosOf
<1>2. Arms(p)' = Arms(p)
  BY DEF Arms, EndPos, LabelPos, ArmKind
<1>3. Landing(p, K)' = Landing(p, K)
  BY DEF Landing, Passing, Arms, EndPos, LabelPos, ArmKind
<1>4. Onward(p, K)' = Onward(p, K)
  BY DEF Onward, Landing, Passing, Arms, EndPos, LabelPos, ArmKind
<1>5. WellLabelled(prog)' = WellLabelled(prog)
  OBVIOUS
<1> QED BY <1>1, <1>2, <1>3, <1>4, <1>5

LEMMA LeadsNow ==
  ASSUME prog' = prog, NEW v
  PROVE  LeadsIn(heap, kinds, v)' = LeadsIn(heap', kinds', v)
  BY DEF LeadsIn, PosOf, EndPos

LEMMA DueNow ==
  ASSUME prog' = prog, NEW v, NEW K
  PROVE  Due(v, K)' = IF Unled(v)' THEN {}
                      ELSE IF pc' \in {"redundant", "done"} THEN Onward(PosOf(v), K)
                      ELSE Arms(PosOf(v))
<1>1. Arms(PosOf(v))' = Arms(PosOf(v))
  BY DEF Arms, EndPos, LabelPos, ArmKind, PosOf
<1>2. Onward(PosOf(v), K)' = Onward(PosOf(v), K)
  BY DEF Onward, Landing, Passing, Arms, EndPos, LabelPos, ArmKind, PosOf
<1> QED BY <1>1, <1>2 DEF Due

(* Each vertex of the graph stands for a position of its own.              *)
LEMMA ThePositions ==
  ASSUME TypeOK
  PROVE  /\ PosOf(Entry) = 0 /\ PosOf(Exit) = EndPos /\ EndPos = Len(prog) + 1
         /\ Len(prog) \in Nat
         /\ \A m \in 1 .. Len(prog) : PosOf(Stmt(m)) = m /\ PosOf(Linked(m)) = m
<1>1. MaxLen \in Nat /\ Len(prog) \in 0 .. MaxLen
  BY TheProgram
<1>2. Exit # Entry /\ ~(Entry > Stmt(MaxLen)) /\ ~(Exit > Stmt(MaxLen))
  BY <1>1 DEF Exit, Entry, Stmt
<1>3. PosOf(Entry) = 0
  BY <1>2, Zenon DEF PosOf
<1>4. PosOf(Exit) = EndPos
  BY <1>2, Zenon DEF PosOf
<1>5. ASSUME NEW m \in 1 .. Len(prog) PROVE PosOf(Stmt(m)) = m /\ PosOf(Linked(m)) = m
  <2>1. /\ Stmt(m) # Entry /\ Stmt(m) # Exit /\ ~(Stmt(m) > Stmt(MaxLen))
        /\ Stmt(m) - Stmt(0) = m
    BY <1>1 DEF Stmt, Entry, Exit
  <2>2. /\ Linked(m) # Entry /\ Linked(m) # Exit /\ Linked(m) > Stmt(MaxLen)
        /\ Linked(m) - Linked(0) = m
    BY <1>1 DEF Stmt, Linked, Entry, Exit
  <2>3. PosOf(Stmt(m)) = Stmt(m) - Stmt(0)
    BY <2>1, Zenon DEF PosOf
  <2>4. PosOf(Linked(m)) = Linked(m) - Linked(0)
    BY <2>2, Zenon DEF PosOf
  <2> QED BY <2>1, <2>2, <2>3, <2>4
<1> QED BY <1>1, <1>3, <1>4, <1>5 DEF EndPos

LEMMA TheVertex ==
  ASSUME CfgInv, NEW v \in InGraph
  PROVE  /\ \/ v = Entry \/ v = Exit
            \/ \E m \in Added : v = Stmt(m)
            \/ \E m \in Jumps : v = Linked(m) /\ Stmt(m) \notin InGraph
         /\ PosOf(v) \in Position
         /\ Added \subseteq 1 .. Len(prog) /\ Jumps \subseteq Added
<1>1. TypeOK /\ MembersInv /\ v \in Int /\ MaxLen \in Nat
  BY TheGraph, TheProgram DEF CfgInv, Vertices
<1>2. Added \subseteq 1 .. Len(prog) /\ Jumps \subseteq Added
  BY TheProgram DEF CfgInv, ListsInv, StatementsInv, Added, Jumps, TypeOK
<1>3. \A m \in Int : Stmt(m) = m + 1 /\ Linked(m) = MaxLen + 1 + m
  BY DEF Stmt, Linked
<1>4. \/ v = Entry \/ v = Exit
      \/ \E m \in Added : v = Stmt(m)
      \/ \E m \in Jumps : v = Linked(m) /\ Stmt(m) \notin InGraph
  <2>1. CASE v - 1 \in Added
    <3>1. v = Stmt(v - 1)
      BY <1>1, <1>3
    <3> QED BY <2>1, <3>1
  <2>2. CASE v - Linked(0) \in Jumps /\ Stmt(v - Linked(0)) \notin InGraph
    <3>1. v = Linked(v - Linked(0))
      BY <1>1, <1>3
    <3> QED BY <2>2, <3>1
  <2> QED BY <1>1, <2>1, <2>2 DEF MembersInv
<1>5. PosOf(v) \in Position
  BY <1>1, <1>2, <1>4, ThePositions DEF Position
<1> QED BY <1>2, <1>4, <1>5

LEMMA PositionsDiffer ==
  ASSUME CfgInv, NEW v \in InGraph, NEW w \in InGraph, PosOf(v) = PosOf(w)
  PROVE  v = w
<1>1. TypeOK
  BY DEF CfgInv
<1>2. /\ PosOf(Entry) = 0 /\ PosOf(Exit) = EndPos /\ EndPos = Len(prog) + 1 /\ Len(prog) \in Nat
      /\ \A m \in 1 .. Len(prog) : PosOf(Stmt(m)) = m /\ PosOf(Linked(m)) = m
  BY <1>1, ThePositions
<1>3. /\ Added \subseteq 1 .. Len(prog) /\ Jumps \subseteq Added
      /\ \A u \in {v, w} :
           \/ u = Entry \/ u = Exit
           \/ \E m \in Added : u = Stmt(m)
           \/ \E m \in Jumps : u = Linked(m) /\ Stmt(m) \notin InGraph
  BY TheVertex
<1>4. \A u \in {v, w} :
        \/ u = Entry /\ PosOf(u) = 0
        \/ u = Exit /\ PosOf(u) = Len(prog) + 1
        \/ PosOf(u) \in 1 .. Len(prog) /\ u = Stmt(PosOf(u))
        \/ PosOf(u) \in 1 .. Len(prog) /\ u = Linked(PosOf(u)) /\ Stmt(PosOf(u)) \notin InGraph
  BY <1>2, <1>3
<1> QED BY <1>2, <1>4

(* As long as the statements an edge of the graph leads to stay as they    *)
(* are, so do the ways out of its source.                                  *)
LEMMA LeadsCarried ==
  ASSUME prog' = prog, EdgesCarried, NEW v,
         \A e \in GraphEdges' \ GraphEdges : heap'.src[e] # v \/ kinds'[e] = "Impossible"
  PROVE  LeadsIn(heap', kinds', v) = LeadsIn(heap, kinds, v)
<1>1. \A r : r \in LeadsIn(heap', kinds', v) <=>
        \E e \in heap'.edges[Self] :
          heap'.src[e] = v /\ kinds'[e] # "Impossible" /\ r = <<kinds'[e], PosOf(heap'.tgt[e])>>
  BY LeadsAre
<1>2. \A r : r \in LeadsIn(heap, kinds, v) <=>
        \E e \in heap.edges[Self] :
          heap.src[e] = v /\ kinds[e] # "Impossible" /\ r = <<kinds[e], PosOf(heap.tgt[e])>>
  BY LeadsAre
<1>3. \A r : r \in LeadsIn(heap', kinds', v) <=> r \in LeadsIn(heap, kinds, v)
  BY <1>1, <1>2 DEF EdgesCarried, GraphEdges
<1> QED BY <1>3 DEF LeadsIn

(* Impossible edges change nothing.                                        *)
LEMMA QuietArms ==
  ASSUME ArmsInv, prog' = prog, labelMap' = labelMap, doomed' = doomed, InGraph' = InGraph,
         EdgesCarried, \A e \in GraphEdges' \ GraphEdges : kinds'[e] = "Impossible",
         pc # "statements", pc' # "statements",
         pc \in {"redundant", "done"} <=> pc' \in {"redundant", "done"}
  PROVE  ArmsInv'
<1>1. Added' = Added /\ Jumps' = Jumps
  BY DEF Added, Jumps
<1>2. Staying' = Staying /\ Standing' = Standing
  BY DEF Staying, Standing, PosOf, EndPos
<1>3. NamesInv => NamesInv'
  BY <1>1 DEF NamesInv
<1>4. ASSUME NEW v \in Staying, NEW K \in {Standing}, LeadsIn(heap, kinds, v) = Due(v, K)
      PROVE  LeadsIn(heap, kinds, v)' = Due(v, K)'
  <2>1. LeadsIn(heap, kinds, v)' = LeadsIn(heap', kinds', v)
    BY LeadsNow
  <2>2. LeadsIn(heap', kinds', v) = LeadsIn(heap, kinds, v)
    BY LeadsCarried
  <2>3. Unled(v)' <=> Unled(v)
    BY <1>1 DEF Unled
  <2>4. Due(v, K)' = Due(v, K)
    BY <2>3, DueNow DEF Due
  <2> QED BY <1>4, <2>1, <2>2, <2>4
<1> QED BY <1>2, <1>3, <1>4 DEF ArmsInv

LEMMA StillArms ==
  ASSUME ArmsInv, UNCHANGED <<prog, labelMap, doomed, heap, kinds>>,
         pc # "statements", pc' # "statements",
         pc \in {"redundant", "done"} <=> pc' \in {"redundant", "done"}
  PROVE  ArmsInv'
<1>1. InGraph' = InGraph /\ GraphEdges' = GraphEdges /\ EdgesCarried
  BY DEF InGraph, GraphEdges, EdgesCarried
<1> QED BY <1>1, QuietArms

LEMMA OneImpossibleEdge ==
  ASSUME CfgInv, ArmsInv, UNCHANGED <<prog, labelMap, doomed>>,
         NEW s \in Vertices, NEW t \in Vertices, Room(1),
         heap' = AddEdge(heap, Self, s, t, NewEdge), kinds' = Append(kinds, "Impossible"),
         pc # "statements", pc' # "statements",
         pc \in {"redundant", "done"} <=> pc' \in {"redundant", "done"}
  PROVE  ArmsInv'
<1>1. /\ TypeOK /\ Joined(heap, Len(kinds)) /\ heap \in Heaps /\ SameEdges(heap, heap)
      /\ "Impossible" \in Kind
  BY DEF CfgInv, EdgesInv, Joined, SameEdges, Kind
<1>2. /\ heap'.verts = heap.verts /\ EdgesCarried
      /\ GraphEdges' = GraphEdges \cup {NewEdge} /\ kinds'[NewEdge] = "Impossible"
  BY <1>1, OneEdgeMore
<1>3. InGraph' = InGraph /\ \A e \in GraphEdges' \ GraphEdges : kinds'[e] = "Impossible"
  BY <1>2 DEF InGraph
<1> QED BY <1>2, <1>3, QuietArms

LEMMA AddImpossibleEdgeArms == ASSUME CfgInv, ArmsInv, AddImpossibleEdge PROVE ArmsInv'
<1> DEFINE p == leaders[i]
<1>1. /\ pc = "leaders" /\ pc' = pc /\ i <= Len(leaders)
      /\ UNCHANGED <<prog, labelMap, doomed>>
  BY DEF AddImpossibleEdge, building, pruning
<1>2. i \in DOMAIN leaders
  BY <1>1 DEF CfgInv, TypeOK
<1>3. p.leader \in Vertices /\ p.pred \in Vertices
  BY <1>1, <1>2, TheLeader
<1>4. CASE InDegreeIs0(heap, p.leader)
  <2>1. /\ Room(1) /\ heap' = AddEdge(heap, Self, p.pred, p.leader, NewEdge)
        /\ kinds' = Append(kinds, "Impossible")
    BY <1>4 DEF AddImpossibleEdge
  <2> HIDE DEF p
  <2> QED BY <1>1, <1>3, <2>1, OneImpossibleEdge
<1>5. CASE ~InDegreeIs0(heap, p.leader)
  <2>1. heap' = heap /\ kinds' = kinds
    BY <1>5 DEF AddImpossibleEdge
  <2> QED BY <1>1, <2>1, StillArms
<1> QED BY <1>4, <1>5

LEMMA AddSelfEdgesArms == ASSUME CfgInv, ArmsInv, AddSelfEdges PROVE ArmsInv'
<1>1. /\ pc = "selfedges" /\ pc' = "dfs" /\ UNCHANGED <<prog, labelMap, doomed>>
  BY DEF AddSelfEdges, GoTo, building, pruning
<1>2. /\ heap'.verts = heap.verts /\ EdgesCarried
      /\ GraphEdges' = GraphEdges \cup {Len(kinds) + 1, Len(kinds) + 2}
      /\ kinds'[Len(kinds) + 1] = "Impossible" /\ kinds'[Len(kinds) + 2] = "Impossible"
  BY SelfEdgesAdded
<1>3. InGraph' = InGraph /\ \A e \in GraphEdges' \ GraphEdges : kinds'[e] = "Impossible"
  BY <1>2 DEF InGraph
<1> QED BY <1>1, <1>2, <1>3, QuietArms

LEMMA MarkBackEdgeArms == ASSUME CfgInv, ArmsInv, MarkBackEdge PROVE ArmsInv'
<1> DEFINE src == heap.src[found[i].edge]
           proxy == found[i].proxy
           need == proxy # Null /\ Cardinality(heap.outE[src]) = 1
<1>1. /\ pc = "mark" /\ pc' = pc /\ i <= Len(found)
      /\ IF need
         THEN /\ Room(1) /\ heap' = AddEdge(heap, Self, src, proxy, NewEdge)
              /\ kinds' = Append(kinds, "Impossible")
         ELSE UNCHANGED <<heap, kinds>>
      /\ UNCHANGED <<prog, labelMap, doomed>>
  BY DEF MarkBackEdge, building, pruning
<1>2. i \in DOMAIN found /\ proxy \in Vertices \cup {Null}
  <2> DEFINE R == [edge : Edges, proxy : Vertices \cup {Null}]
  <2>1. found \in Seq(R) /\ i \in Nat /\ i >= 1
    BY DEF TypeOK, CfgInv
  <2>2. \A r \in R : r.proxy \in Vertices \cup {Null}
    OBVIOUS
  <2> HIDE DEF R
  <2>3. i \in DOMAIN found /\ found[i] \in R
    BY <1>1, <2>1
  <2> QED BY <2>2, <2>3
<1>3. src \in Vertices
  BY <1>1, <1>2 DEF CfgInv, SearchInv, EdgesInv, Joined, GraphEdges
<1>4. CASE need
  <2>1. proxy \in Vertices
    BY <1>2, <1>4
  <2>2. /\ Room(1) /\ heap' = AddEdge(heap, Self, src, proxy, NewEdge)
        /\ kinds' = Append(kinds, "Impossible")
    BY <1>1, <1>4
  <2> HIDE DEF src, proxy, need
  <2> QED BY <1>1, <1>3, <2>1, <2>2, OneImpossibleEdge
<1>5. CASE ~need
  BY <1>1, <1>5, StillArms
<1> QED BY <1>4, <1>5

LEMMA OtherArms ==
  ASSUME CfgInv, ArmsInv,
         \/ LinkingComplete \/ LeadersComplete \/ CheckForNoInEdges
         \/ StartVisit \/ TreeEdge \/ ForwardOrCrossEdge \/ BackEdge \/ FinishVertex
         \/ SearchComplete \/ KeepNeeded
  PROVE  ArmsInv'
<1>1. CASE LinkingComplete \/ LeadersComplete \/ CheckForNoInEdges \/ SearchComplete
  <2>1. /\ UNCHANGED <<prog, labelMap, doomed, heap, kinds>>
        /\ pc \in {"link", "leaders", "check", "dfs"}
        /\ pc' \in {"leaders", "check", "selfedges", "mark"}
    BY <1>1 DEF LinkingComplete, LeadersComplete, CheckForNoInEdges, SearchComplete,
                GoTo, building, pruning
  <2> QED BY <2>1, StillArms
<1>2. CASE StartVisit \/ TreeEdge \/ ForwardOrCrossEdge \/ BackEdge \/ FinishVertex
  <2>1. /\ UNCHANGED <<prog, labelMap, doomed, heap, kinds>>
        /\ pc = "dfs" /\ pc' \in {"dfs", "crashed"}
    BY <1>2 DEF StartVisit, TreeEdge, ForwardOrCrossEdge, BackEdge, FinishVertex,
                building, pruning
  <2> QED BY <2>1, StillArms
<1>3. CASE KeepNeeded
  <2>1. UNCHANGED <<prog, labelMap, doomed, heap, kinds>> /\ pc = "redundant" /\ pc' = pc
    BY <1>3 DEF KeepNeeded, building
  <2> QED BY <2>1, StillArms
<1> QED BY <1>1, <1>2, <1>3

(* When the removal begins, all that an edge of control flow leads to is   *)
(* there to stay.                                                          *)
LEMMA LedToStays ==
  ASSUME CfgInv, pc \in {"mark", "redundant"}, NEW e \in GraphEdges, IsReal(e)
  PROVE  heap.tgt[e] \in Staying /\ PosOf(heap.tgt[e]) \in Standing
<1>1. heap.tgt[e] \in InGraph /\ EndsAgree(heap) /\ e \in Edges /\ InGraph \subseteq Vertices
  BY TheGraph DEF CfgInv, EdgesInv, Joined
<1>2. e \in heap.inE[heap.tgt[e]]
  BY <1>1 DEF EndsAgree, Edges, Vertices
<1>3. heap.tgt[e] \notin doomed
  BY <1>2 DEF CfgInv, PruningInv
<1> QED BY <1>1, <1>3 DEF Staying, Standing

LEMMA MarkingCompleteArms == ASSUME CfgInv, ArmsInv, MarkingComplete PROVE ArmsInv'
<1>1. /\ pc = "mark" /\ pc' = "redundant"
      /\ UNCHANGED <<prog, labelMap, prev, doomed, heap, kinds>>
  BY DEF MarkingComplete, GoTo, building
<1>2. TypeOK
  BY DEF CfgInv
<1>3. Staying' = Staying /\ Standing' = Standing /\ Added' = Added /\ Jumps' = Jumps
  BY <1>1 DEF Staying, Standing, InGraph, PosOf, EndPos, Added, Jumps
<1>4. SUFFICES ASSUME WellLabelled(prog), NEW v \in Staying, NEW K \in {Standing}
               PROVE  NamesInv' /\ LeadsIn(heap, kinds, v)' = Due(v, K)'
  <2>1. NamesInv => NamesInv'
    BY <1>1, <1>3 DEF NamesInv
  <2> QED BY <1>1, <1>3, <2>1 DEF ArmsInv
<1>5. NamesInv /\ LeadsIn(heap, kinds, v) = Due(v, K) /\ TargetsDefined(prog)
  BY <1>4 DEF ArmsInv, WellLabelled
<1>6. NamesInv'
  BY <1>1, <1>3, <1>5 DEF NamesInv
<1>7. LeadsIn(heap, kinds, v)' = LeadsIn(heap, kinds, v)
  BY <1>1, LeadsNow
<1>8. Unled(v)' <=> Unled(v)
  BY <1>1, <1>3 DEF Unled
<1>9. CASE Unled(v)
  <2>1. Due(v, K)' = {} /\ Due(v, K) = {}
    BY <1>1, <1>8, <1>9, DueNow DEF Due
  <2> QED BY <1>5, <1>6, <1>7, <2>1
<1>10. CASE ~Unled(v)
  <2>1. Due(v, K) = Arms(PosOf(v))
    BY <1>1, <1>10 DEF Due
  <2>2. Due(v, K)' = Onward(PosOf(v), K)
    BY <1>1, <1>8, <1>10, DueNow
  <2>3. PosOf(v) \in Position
    BY TheVertex DEF Staying
  <2>4. ASSUME NEW a \in Arms(PosOf(v))
        PROVE  a = <<a[1], a[2]>> /\ Landing(a[2], K) = {a[2]}
    <3>1. a[2] \in Position /\ a = <<a[1], a[2]>>
      BY <1>2, <1>5, <2>3, ArmsStay
    <3>2. PICK e \in GraphEdges : IsReal(e) /\ a = <<kinds[e], PosOf(heap.tgt[e])>>
      <4>1. a \in LeadsIn(heap, kinds, v)
        BY <1>5, <2>1
      <4> QED BY <4>1, LeadsAre DEF GraphEdges, IsReal
    <3>3. a[2] \in K
      <4>1. PosOf(heap.tgt[e]) \in Standing
        BY <1>1, <3>2, LedToStays
      <4> QED BY <3>2, <4>1
    <3> QED BY <1>2, <1>5, <3>1, <3>3, LandingAtOnce
  <2>5. Onward(PosOf(v), K) = Arms(PosOf(v))
    <3>1. \A r : r \in Onward(PosOf(v), K) <=> r \in Arms(PosOf(v))
      BY <2>4, OnwardIs
    <3> QED BY <3>1 DEF Onward
  <2> QED BY <1>5, <1>6, <1>7, <2>1, <2>2, <2>5
<1> QED BY <1>9, <1>10

LEMMA DeleteDoomedArms == ASSUME CfgInv, ArmsInv, DeleteDoomed PROVE ArmsInv'
<1>1. /\ pc = "redundant" /\ pc' = "done"
      /\ heap' = [heap EXCEPT !.verts[Self] = heap.verts[Self] \ doomed]
      /\ UNCHANGED <<prog, labelMap, prev, doomed, kinds>>
  BY DEF DeleteDoomed, GoTo, building, pruning
<1>2. /\ heap'.verts[Self] = heap.verts[Self] \ doomed
      /\ heap'.edges = heap.edges /\ heap'.src = heap.src /\ heap'.tgt = heap.tgt
  <2>1. heap \in Heaps
    BY TheGraph DEF CfgInv
  <2>2. /\ heap'.verts = [heap.verts EXCEPT ![Self] = heap.verts[Self] \ doomed]
        /\ heap'.edges = heap.edges /\ heap'.src = heap.src /\ heap'.tgt = heap.tgt
    BY <1>1, <2>1 DEF Heaps
  <2>3. heap.verts \in [{Self} -> SUBSET Vertices]
    BY <2>1, HeapFields
  <2> QED BY <2>2, <2>3
<1>3. Staying' = Staying /\ Added' = Added /\ Jumps' = Jumps
  BY <1>1, <1>2 DEF Staying, InGraph, Added, Jumps
<1>4. Standing' = Standing
  BY <1>1, <1>3 DEF Standing, PosOf, EndPos
<1>5. NamesInv => NamesInv'
  BY <1>1, <1>3 DEF NamesInv
<1>6. ASSUME NEW v \in Staying, NEW K \in {Standing}, LeadsIn(heap, kinds, v) = Due(v, K)
      PROVE  LeadsIn(heap, kinds, v)' = Due(v, K)'
  <2>1. LeadsIn(heap, kinds, v)' = LeadsIn(heap', kinds', v)
    BY <1>1, LeadsNow
  <2>2. LeadsIn(heap', kinds', v) = LeadsIn(heap, kinds, v)
    BY <1>1, <1>2 DEF LeadsIn
  <2>3. Unled(v)' <=> Unled(v)
    BY <1>1, <1>3 DEF Unled
  <2>4. Due(v, K)' = Due(v, K)
    BY <1>1, <2>3, DueNow DEF Due
  <2> QED BY <1>6, <2>1, <2>2, <2>4
<1> QED BY <1>1, <1>3, <1>4, <1>5, <1>6 DEF ArmsInv

(* A vertex the removal may bypass has one way out, not to itself.         *)
LEMMA SingleWay ==
  ASSUME CfgInv, WellLabelled(prog), pc # "statements", NEW v \in InGraph, Removable(v)
  PROVE  PosOf(v) \in Position /\ \E k : \E s \in Position : Arms(PosOf(v)) = {<<k, s>>}
<1> DEFINE p == PosOf(v)
<1>1. /\ TypeOK /\ TargetsDefined(prog) /\ v \in Vertices /\ v - 1 \notin Jumps
      /\ v # Entry /\ v # Exit
  BY TheGraph, TheRemovable DEF CfgInv, WellLabelled
<1>2. p \in Position /\ Added \subseteq 1 .. Len(prog) /\ Jumps \subseteq Added
  BY TheVertex
<1>3. p \in 1 .. Len(prog) /\ prog[p].op \in {"goto", "return", "label"}
  <2>1. MaxLen \in Nat /\ Len(prog) \in 0 .. MaxLen /\ v \in Int
    BY <1>1, TheProgram DEF Vertices
  <2>2. \A m \in 1 .. Len(prog) : PosOf(Stmt(m)) = m /\ PosOf(Linked(m)) = m
    BY <1>1, ThePositions
  <2>3. CASE \E m \in Added : v = Stmt(m)
    <3>1. PICK m \in Added : v = Stmt(m)
      BY <2>3
    <3>2. m \in 1 .. Len(prog) /\ p = m /\ v = m + 1 /\ v - Stmt(0) = m
      BY <1>2, <2>2, <3>1 DEF Stmt
    <3>3. ~IsGoto(v)
      BY <2>1, <3>2 DEF IsGoto, Stmt
    <3> QED BY <3>2, <3>3 DEF Removable, IsTempLabel
  <2>4. CASE \E m \in Jumps : v = Linked(m)
    <3>1. PICK m \in Jumps : v = Linked(m)
      BY <2>4
    <3>2. m \in 1 .. Len(prog) /\ p = m
      BY <1>2, <2>2, <3>1
    <3>4. v = MaxLen + 1 + m /\ v - Linked(0) = m
      BY <2>1, <3>1, <3>2 DEF Linked
    <3>3. ~IsTempLabel(v)
      BY <2>1, <3>2, <3>4 DEF IsTempLabel, Stmt
    <3> QED BY <3>2, <3>3, <3>4 DEF Removable, IsGoto
  <2> QED BY <1>1, <2>3, <2>4, TheVertex
<1> HIDE DEF p
<1>4. /\ prog[p].op = "return" => Arms(p) = {<<"Fallthrough", EndPos>>}
      /\ prog[p].op \in {"plain", "label"} => Arms(p) = {<<"Fallthrough", p + 1>>}
      /\ prog[p].op \in {"goto", "if", "switch"} =>
           Arms(p) = {<<ArmKind(prog[p], n), LabelPos(prog[p].to[n])>> : n \in DOMAIN prog[p].to}
      /\ Len(prog) \in Nat /\ EndPos \in Position /\ EndPos = Len(prog) + 1
  BY <1>1, <1>2, <1>3, ArmsAreKnown
<1>5. CASE prog[p].op = "return"
  BY <1>2, <1>4, <1>5 DEF p
<1>6. CASE prog[p].op = "label"
  <2>1. p + 1 \in Position
    BY <1>3, <1>4 DEF Position
  <2> QED BY <1>2, <1>4, <1>6, <2>1 DEF p
<1>7. CASE prog[p].op = "goto"
  <2>1. prog[p] \in Statement
    BY <1>1, <1>3, TheProgram
  <2>2. DOMAIN prog[p].to = {1}
    <3>1. prog[p].to \in Seq(Label) /\ Len(prog[p].to) = 1
      BY <1>7, <2>1 DEF Statement
    <3>2. DOMAIN prog[p].to = 1 .. 1
      BY <3>1
    <3> QED BY <3>2
  <2>3. LabelPos(prog[p].to[1]) \in 1 .. Len(prog)
    BY <1>1, <1>3, <2>2, TheTargets
  <2>4. Arms(p) = {<<ArmKind(prog[p], 1), LabelPos(prog[p].to[1])>>}
    BY <1>4, <1>7, <2>2
  <2>5. LabelPos(prog[p].to[1]) \in Position
    BY <1>4, <2>3 DEF Position
  <2> QED BY <1>2, <2>4, <2>5 DEF p
<1> QED BY <1>3, <1>5, <1>6, <1>7

(* With every jump resolved, no jump is left that was not linked.          *)
LEMMA NoneUnled ==
  ASSUME CfgInv, TargetsDefined(prog), pc \in {"redundant", "done"}, NEW v \in InGraph
  PROVE  ~Unled(v)
<1>1. v \in Int /\ MembersInv
  BY TheGraph DEF CfgInv, Vertices
<1>2. ASSUME v - 1 \in Jumps PROVE FALSE
  <2>1. Stmt(v - 1) = v
    BY <1>1 DEF Stmt
  <2>2. Waiting(v)
    BY <1>1, <1>2, <2>1 DEF MembersInv
  <2> QED BY <2>2 DEF Waiting
<1> QED BY <1>2 DEF Unled

LEMMA BypassArms == ASSUME CfgInv, ArmsInv, BypassRedundant PROVE ArmsInv'
<1>0. /\ TypeOK /\ MembersInv /\ EdgesInv /\ PruningInv /\ EndsAgree(heap)
      /\ GraphEdges \subseteq Edges /\ InGraph \subseteq Vertices
  BY TheGraph DEF CfgInv, EdgesInv, Joined
<1>1. PICK x \in todo :
        /\ Redundant(heap, x) /\ heap' = Bypass(heap, x)
        /\ doomed' = IF InDegreeIs0(heap', x) /\ OutDegreeIs0(heap', x)
                     THEN doomed \cup {x} ELSE doomed
  BY DEF BypassRedundant
<1>2. /\ pc = "redundant" /\ pc' = pc /\ kinds' = kinds /\ prog' = prog
      /\ labelMap' = labelMap /\ prev' = prev
  BY DEF BypassRedundant, building
<1>3. PICK a \in GraphEdges, b \in GraphEdges :
        /\ heap.inE[x] = {a} /\ heap.outE[x] = {b} /\ x \in Vertices /\ x \in InGraph
        /\ heap.tgt[a] = x /\ heap.src[b] = x /\ heap.tgt[b] \in InGraph /\ IsReal(b)
        /\ heap'.verts = heap.verts /\ heap'.edges[Self] = heap.edges[Self] \ {b}
        /\ \A e \in heap'.edges[Self] :
             /\ heap'.src[e] = heap.src[e]
             /\ heap'.tgt[e] = IF e = a THEN heap.tgt[b] ELSE heap.tgt[e]
        /\ heap'.inE[x] = {} /\ heap'.outE[x] = {}
  BY <1>1, <1>2, TheBypass DEF SameVertices
<1>4. SUFFICES ASSUME WellLabelled(prog) PROVE ArmsInv'
  BY <1>2 DEF ArmsInv
<1>5. /\ x \notin doomed /\ Removable(x) /\ doomed' = doomed \cup {x} /\ TargetsDefined(prog)
      /\ InGraph' = InGraph /\ Added' = Added /\ Jumps' = Jumps /\ x \in Staying
  BY <1>0, <1>1, <1>2, <1>3, <1>4
     DEF PruningInv, InDegreeIs0, OutDegreeIs0, InGraph, Added, Jumps, WellLabelled, Staying
<1>6. NamesInv'
  <2>1. NamesInv
    BY <1>4 DEF ArmsInv
  <2> QED BY <1>2, <1>5, <2>1 DEF NamesInv
<1>7. Staying' = Staying \ {x} /\ Staying \subseteq InGraph
  BY <1>5 DEF Staying
<1>8. PICK px, t, K0, K1 :
        px = PosOf(x) /\ t = PosOf(heap.tgt[b]) /\ K0 = Standing /\ K1 = K0 \ {px}
  OBVIOUS
<1>9. Standing' = K1 /\ px \in K0
  <2>1. Standing' = {PosOf(v) : v \in Staying \ {x}}
    BY <1>2, <1>7 DEF Standing, PosOf, EndPos
  <2>2. \A v \in Staying \ {x} : PosOf(v) # px
    BY <1>3, <1>7, <1>8, PositionsDiffer
  <2> QED BY <1>5, <1>8, <2>1, <2>2 DEF Standing
<1>10. \A v \in Staying : LeadsIn(heap, kinds, v) = Onward(PosOf(v), K0) /\ ~Unled(v)
  <2> SUFFICES ASSUME NEW v \in Staying
               PROVE  LeadsIn(heap, kinds, v) = Onward(PosOf(v), K0) /\ ~Unled(v)
    OBVIOUS
  <2>1. ~Unled(v)
    BY <1>2, <1>5, <1>7, NoneUnled
  <2>2. LeadsIn(heap, kinds, v) = Due(v, K0)
    BY <1>4, <1>8 DEF ArmsInv
  <2> QED BY <1>2, <2>1, <2>2 DEF Due
<1>11. \A e \in GraphEdges : IsReal(e) =>
         /\ heap.tgt[e] \in InGraph
         /\ PosOf(heap.tgt[e]) = px <=> e = a
         /\ heap.src[e] = x <=> e = b
  <2> SUFFICES ASSUME NEW e \in GraphEdges, IsReal(e)
               PROVE  /\ heap.tgt[e] \in InGraph
                      /\ PosOf(heap.tgt[e]) = px <=> e = a
                      /\ heap.src[e] = x <=> e = b
    OBVIOUS
  <2>1. heap.tgt[e] \in InGraph
    BY <1>0 DEF EdgesInv
  <2>2. PosOf(heap.tgt[e]) = px => heap.tgt[e] = x
    BY <1>3, <1>8, <2>1, PositionsDiffer
  <2>3. (e \in heap.inE[x] <=> heap.tgt[e] = x) /\ (e \in heap.outE[x] <=> heap.src[e] = x)
    BY <1>0, <1>3 DEF EndsAgree, Edges, Vertices
  <2> QED BY <1>3, <1>8, <2>1, <2>2, <2>3
<1>12. PICK k, s : s \in Position /\ Arms(px) = {<<k, s>>} /\ px \in Position
  <2>1. pc # "statements" /\ x \in InGraph /\ Removable(x)
    BY <1>2, <1>3, <1>5
  <2>2. PosOf(x) \in Position /\ \E k : \E s \in Position : Arms(PosOf(x)) = {<<k, s>>}
    BY <1>4, <2>1, SingleWay
  <2> QED BY <1>8, <2>2
<1>13. Landing(s, K0) = {t}
  <2>1. LeadsIn(heap, kinds, x) = Onward(px, K0)
    BY <1>5, <1>8, <1>10
  <2>2. \A r : r \in LeadsIn(heap, kinds, x) <=> r = <<kinds[b], t>>
    <3>1. \A r : r \in LeadsIn(heap, kinds, x) <=>
            \E e \in GraphEdges : heap.src[e] = x /\ IsReal(e) /\ r = <<kinds[e], PosOf(heap.tgt[e])>>
      BY LeadsAre DEF GraphEdges, IsReal
    <3> QED BY <1>3, <1>8, <1>11, <3>1
  <2>3. \A q : <<k, q>> \in Onward(px, K0) <=> q \in Landing(s, K0)
    <3>1. \A q : <<k, q>> \in Onward(px, K0) <=>
            \E w \in Arms(px) : \E z \in Landing(w[2], K0) : <<k, q>> = <<w[1], z>>
      BY OnwardIs
    <3> QED BY <1>12, <3>1
  <2>4. <<kinds[b], t>> \in Onward(px, K0)
    BY <2>1, <2>2
  <2>5. kinds[b] = k
    BY <1>12, <2>4, OnwardIs
  <2>6. \A q : <<k, q>> = <<kinds[b], t>> <=> q = t
    BY <2>5
  <2>7. \A q : q \in Landing(s, K0) <=> q = t
    BY <2>1, <2>2, <2>3, <2>6
  <2> QED BY <2>7
<1>14. ASSUME NEW u \in Staying'
       PROVE  LeadsIn(heap, kinds, u)' = Due(u, K1)'
  <2>1. u \in Staying /\ u \in InGraph /\ u # x
    BY <1>7, <1>14
  <2>2. PICK pu : pu = PosOf(u) /\ pu \in Position
    BY <2>1, TheVertex
  <2>3. Due(u, K1)' = Onward(pu, K1)
    <3>1. ~Unled(u)'
      BY <1>2, <1>5, <1>10, <2>1 DEF Unled
    <3> QED BY <1>2, <2>2, <3>1, DueNow
  <2>4. \A r : r \in Onward(pu, K0) <=>
          \E e \in GraphEdges : heap.src[e] = u /\ IsReal(e) /\ r = <<kinds[e], PosOf(heap.tgt[e])>>
    BY <1>10, <2>1, <2>2, LeadsAre DEF GraphEdges, IsReal
  <2>5. \A r : r \in LeadsIn(heap, kinds, u)' <=>
          \E e \in GraphEdges : /\ heap.src[e] = u /\ IsReal(e)
                                /\ r = <<kinds[e], IF e = a THEN t ELSE PosOf(heap.tgt[e])>>
    <3>1. LeadsIn(heap, kinds, u)' = LeadsIn(heap', kinds', u)
      BY <1>2, LeadsNow
    <3>2. \A r : r \in LeadsIn(heap', kinds', u) <=>
            \E e \in heap'.edges[Self] : /\ heap'.src[e] = u /\ kinds'[e] # "Impossible"
                                         /\ r = <<kinds'[e], PosOf(heap'.tgt[e])>>
      BY LeadsAre
    <3>3. \A e : e \in heap'.edges[Self] /\ heap'.src[e] = u <=> e \in GraphEdges /\ heap.src[e] = u
      BY <1>3, <2>1 DEF GraphEdges
    <3>4. \A e \in heap'.edges[Self] :
            PosOf(heap'.tgt[e]) = IF e = a THEN t ELSE PosOf(heap.tgt[e])
      BY <1>3, <1>8
    <3> QED BY <1>2, <3>1, <3>2, <3>3, <3>4 DEF IsReal
  <2>6. \A w \in Arms(pu) : w[2] \in Position
    BY <1>0, <1>5, <2>2, ArmsStay
  <2>7. ASSUME NEW w \in Arms(pu), px \in Landing(w[2], K0)
        PROVE  /\ <<w[1], px>> \in Onward(pu, K0)
               /\ Landing(w[2], K1) = (Landing(w[2], K0) \ {px}) \cup {t}
    <3>1. <<w[1], px>> \in Onward(pu, K0)
      BY <2>7, OnwardIs
    <3>2. PICK e \in GraphEdges : heap.src[e] = u /\ IsReal(e) /\ px = PosOf(heap.tgt[e])
      BY <2>4, <3>1
    <3>3. e = a /\ a # b
      BY <1>11, <2>1, <3>2
    <3>4. t # px
      BY <1>3, <1>8, <1>11, <3>3
    <3>5. /\ w[2] \in Position /\ s \in Position /\ px \in Position
          /\ px \in K0 /\ K1 = K0 \ {px}
      BY <1>8, <1>9, <1>12, <2>6
    <3>6. /\ TypeOK /\ TargetsDefined(prog) /\ px \notin Landing(s, K0)
          /\ (\E z \in Arms(px) : z[2] = s) /\ \A z \in Arms(px) : z[2] = s
      BY <1>0, <1>5, <1>12, <1>13, <3>4
    <3>7. Landing(w[2], K0 \ {px}) = (Landing(w[2], K0) \ {px}) \cup Landing(s, K0)
      BY <2>7, <3>5, <3>6, LandingBeyond
    <3> QED BY <1>13, <3>1, <3>5, <3>7
  <2>8. ASSUME NEW w \in Arms(pu), px \notin Landing(w[2], K0)
        PROVE  Landing(w[2], K1) = Landing(w[2], K0)
    BY <1>0, <1>5, <1>8, <1>9, <2>6, <2>8, LandingElsewhere
  <2>9. ASSUME NEW r, r \in LeadsIn(heap, kinds, u)' PROVE r \in Onward(pu, K1)
    <3>1. PICK e \in GraphEdges : /\ heap.src[e] = u /\ IsReal(e)
                                  /\ r = <<kinds[e], IF e = a THEN t ELSE PosOf(heap.tgt[e])>>
      BY <2>5, <2>9
    <3>2. <<kinds[e], PosOf(heap.tgt[e])>> \in Onward(pu, K0)
      BY <2>4, <3>1
    <3>3. PICK w \in Arms(pu) : kinds[e] = w[1] /\ PosOf(heap.tgt[e]) \in Landing(w[2], K0)
      BY <3>2, OnwardIs
    <3>4. r = <<w[1], IF e = a THEN t ELSE PosOf(heap.tgt[e])>>
      BY <3>1, <3>3
    <3>5. (IF e = a THEN t ELSE PosOf(heap.tgt[e])) \in Landing(w[2], K1)
      <4>1. CASE e = a
        BY <1>11, <2>7, <3>1, <3>3, <4>1
      <4>2. CASE e # a
        BY <1>11, <2>7, <2>8, <3>1, <3>3, <4>2
      <4> QED BY <4>1, <4>2
    <3> QED BY <3>4, <3>5, OnwardIs
  <2>10. ASSUME NEW r, r \in Onward(pu, K1) PROVE r \in LeadsIn(heap, kinds, u)'
    <3>1. PICK w \in Arms(pu) : \E q \in Landing(w[2], K1) : r = <<w[1], q>>
      BY <2>10, OnwardIs
    <3>2. PICK q \in Landing(w[2], K1) : r = <<w[1], q>>
      BY <3>1
    <3>3. q \in K1
      BY <3>2, LandingIsKept
    <3>4. CASE q \in Landing(w[2], K0)
      <4>1. <<w[1], q>> \in Onward(pu, K0)
        BY <3>4, OnwardIs
      <4>2. PICK e \in GraphEdges : /\ heap.src[e] = u /\ IsReal(e)
                                    /\ <<w[1], q>> = <<kinds[e], PosOf(heap.tgt[e])>>
        BY <2>4, <4>1
      <4>3. e # a
        BY <1>8, <1>11, <3>3, <4>2
      <4> QED BY <2>5, <3>2, <4>2, <4>3
    <3>5. CASE q \notin Landing(w[2], K0)
      <4>1. px \in Landing(w[2], K0) /\ q = t
        <5>1. px \in Landing(w[2], K0)
          BY <2>8, <3>2, <3>5
        <5>2. q \in (Landing(w[2], K0) \ {px}) \cup {t}
          BY <2>7, <3>2, <5>1
        <5> QED BY <3>5, <5>1, <5>2
      <4>2. PICK e \in GraphEdges : /\ heap.src[e] = u /\ IsReal(e)
                                    /\ <<w[1], px>> = <<kinds[e], PosOf(heap.tgt[e])>>
        BY <2>4, <2>7, <4>1
      <4>3. e = a
        BY <1>11, <4>2
      <4> QED BY <2>5, <3>2, <4>1, <4>2, <4>3
    <3> QED BY <3>4, <3>5
  <2>11. \A r : r \in LeadsIn(heap, kinds, u)' <=> r \in Onward(pu, K1)
    BY <2>9, <2>10
  <2>12. LeadsIn(heap, kinds, u)' = Onward(pu, K1)
    BY <2>11 DEF LeadsIn, Onward
  <2> QED BY <2>3, <2>12
<1> QED BY <1>6, <1>9, <1>14 DEF ArmsInv

(* The statement loop: control falls from the last statement to the next.  *)
LEMMA PrevFallsThrough ==
  ASSUME CfgInv, pc = "statements"
  PROVE  /\ prev - 1 \in Jumps <=> ended
         /\ ~ended => \A r : r \in Arms(PosOf(prev)) <=> r = <<"Fallthrough", i>>
<1>1. /\ TypeOK /\ StatementsInv /\ i \in Nat /\ i >= 1 /\ Added = 1 .. i - 1 /\ i <= Len(prog) + 1
      /\ prev = IF i = 1 THEN Entry ELSE Stmt(i - 1)
      /\ ended <=> i - 1 \in Jumps
  BY DEF CfgInv, TypeOK, ListsInv, StatementsInv, Added
<1>2. Len(prog) \in Nat /\ EndPos = Len(prog) + 1 /\ \A m \in 1 .. Len(prog) : PosOf(Stmt(m)) = m
  BY <1>1, ThePositions
<1>3. CASE i = 1
  <2>1. prev = 0 /\ PosOf(prev) = 0 /\ 0 \in Position
    BY <1>1, <1>2, <1>3, ThePositions DEF Entry, Position
  <2>2. prev - 1 \notin Jumps /\ ~ended
    BY <1>1, <1>3, <2>1 DEF Jumps
  <2>3. Arms(0) = {<<"Fallthrough", 1>>}
    BY <1>1, <2>1, ArmsAreKnown
  <2> QED BY <1>3, <2>1, <2>2, <2>3
<1>4. CASE i # 1
  <2>1. /\ i - 1 \in 1 .. Len(prog) /\ i - 1 \in Added /\ prev - 1 = i - 1
        /\ PosOf(prev) = i - 1 /\ i - 1 \in Position
    BY <1>1, <1>2, <1>4 DEF Stmt, Position
  <2>2. ASSUME ~ended PROVE Arms(i - 1) = {<<"Fallthrough", i>>}
    <3>1. ~EndsBlock(prog[i - 1])
      BY <1>1, <2>1, <2>2 DEF Jumps
    <3>2. prog[i - 1] \in Statement
      BY <1>1, <2>1, TheProgram
    <3>3. prog[i - 1].op \in {"plain", "label"}
      BY <3>1, <3>2, TheStatement DEF EndsBlock
    <3>4. PICK p : p = i - 1 /\ p + 1 = i
      BY <1>1
    <3>5. Arms(p) = {<<"Fallthrough", p + 1>>}
      BY <1>1, <2>1, <3>3, <3>4, ArmsAreKnown
    <3> QED BY <3>4, <3>5
  <2> QED BY <1>1, <2>1, <2>2
<1> QED BY <1>3, <1>4

LEMMA FallArms ==
  ASSUME CfgInv, ArmsInv, WellLabelled(prog), pc = "statements", prog' = prog, EdgesCarried,
         NEW w, PosOf(w) = i,
         \A e \in GraphEdges' \ GraphEdges :
           heap'.src[e] = prev /\ heap'.tgt[e] = w /\ kinds'[e] = "Fallthrough",
         ~ended => GraphEdges' \ GraphEdges # {}, ended => GraphEdges' = GraphEdges
  PROVE  /\ doomed = {} /\ NamesInv
         /\ \A v \in InGraph :
              LeadsIn(heap', kinds', v) = IF v - 1 \in Jumps THEN {} ELSE Arms(PosOf(v))
<1>1. doomed = {} /\ NamesInv /\ Staying = InGraph
  BY DEF ArmsInv, CfgInv, PruningInv, Staying
<1>2. ASSUME NEW v \in InGraph
      PROVE  LeadsIn(heap, kinds, v) = IF v - 1 \in Jumps \/ v = prev THEN {} ELSE Arms(PosOf(v))
  <2>1. PICK K : K = Standing
    OBVIOUS
  <2>2. LeadsIn(heap, kinds, v) = Due(v, K)
    BY <1>1, <2>1 DEF ArmsInv
  <2> QED BY <2>2 DEF Due, Unled
<1>3. ASSUME NEW v \in InGraph
      PROVE  LeadsIn(heap', kinds', v) = IF v - 1 \in Jumps THEN {} ELSE Arms(PosOf(v))
  <2>1. CASE v # prev \/ ended
    <3>1. LeadsIn(heap', kinds', v) = LeadsIn(heap, kinds, v)
      <4>1. \A e \in GraphEdges' \ GraphEdges : heap'.src[e] # v \/ kinds'[e] = "Impossible"
        BY <2>1
      <4> QED BY <4>1, LeadsCarried
    <3>2. v = prev => v - 1 \in Jumps
      BY <2>1, PrevFallsThrough
    <3> QED BY <1>2, <3>1, <3>2
  <2>2. CASE v = prev /\ ~ended
    <3>1. v - 1 \notin Jumps /\ \A r : r \in Arms(PosOf(v)) <=> r = <<"Fallthrough", i>>
      BY <2>2, PrevFallsThrough
    <3>2. \A r : r \notin LeadsIn(heap, kinds, v)
      BY <1>2, <2>2
    <3>3. ~ \E e \in GraphEdges : heap.src[e] = v /\ kinds[e] # "Impossible"
      <4> SUFFICES ASSUME NEW e \in GraphEdges, heap.src[e] = v, kinds[e] # "Impossible"
                   PROVE  FALSE
        OBVIOUS
      <4>1. <<kinds[e], PosOf(heap.tgt[e])>> \in LeadsIn(heap, kinds, v)
        BY LeadsAre DEF GraphEdges
      <4> QED BY <3>2, <4>1
    <3>4. \A r : r \in LeadsIn(heap', kinds', v) <=>
            \E e \in heap'.edges[Self] :
              heap'.src[e] = v /\ kinds'[e] # "Impossible" /\ r = <<kinds'[e], PosOf(heap'.tgt[e])>>
      BY LeadsAre
    <3>5. \A e \in heap'.edges[Self] :
            heap'.src[e] = v /\ kinds'[e] # "Impossible" => e \in GraphEdges' \ GraphEdges
      BY <3>3 DEF EdgesCarried, GraphEdges
    <3>6. PICK e \in heap'.edges[Self] : e \in GraphEdges' \ GraphEdges
      BY <2>2 DEF GraphEdges
    <3>7. \A r : r \in LeadsIn(heap', kinds', v) <=> r = <<"Fallthrough", i>>
      BY <2>2, <3>4, <3>5, <3>6
    <3>8. \A r : r \in LeadsIn(heap', kinds', v) <=> r \in Arms(PosOf(v))
      BY <3>1, <3>7
    <3> QED BY <3>1, <3>8
  <2> QED BY <2>1, <2>2
<1> QED BY <1>1, <1>3

LEMMA FallOffTheEndArms == ASSUME CfgInv, ArmsInv, FallOffTheEnd PROVE ArmsInv'
<1>1. /\ pc = "statements" /\ i > Len(prog) /\ pc' = "link"
      /\ prog' = prog /\ labelMap' = labelMap /\ doomed' = doomed
  BY DEF FallOffTheEnd, GoTo, building, pruning
<1>2. /\ heap'.verts = heap.verts /\ EdgesCarried
      /\ \A e \in GraphEdges' \ GraphEdges :
           heap'.src[e] = prev /\ heap'.tgt[e] = Exit /\ kinds'[e] = "Fallthrough"
      /\ ~ended => GraphEdges' \ GraphEdges # {}
      /\ ended => GraphEdges' = GraphEdges
  BY EndReached
<1>3. TypeOK /\ i \in Nat /\ i <= Len(prog) + 1 /\ Len(prog) \in Nat
  BY <1>1, TheProgram DEF CfgInv, TypeOK, ListsInv, StatementsInv
<1>4. PosOf(Exit) = i
  BY <1>1, <1>3, ThePositions
<1>5. InGraph' = InGraph /\ Added' = Added /\ Jumps' = Jumps
  <2>1. Added' = Added
    BY <1>1, <1>3 DEF Added
  <2> QED BY <1>1, <1>2, <2>1 DEF InGraph, Jumps
<1>6. SUFFICES ASSUME WellLabelled(prog) PROVE ArmsInv'
  BY <1>1 DEF ArmsInv
<1>7. /\ doomed = {} /\ NamesInv
      /\ \A v \in InGraph : LeadsIn(heap', kinds', v) = IF v - 1 \in Jumps THEN {} ELSE Arms(PosOf(v))
  BY <1>1, <1>2, <1>4, <1>6, FallArms
<1>8. NamesInv'
  BY <1>1, <1>5, <1>7 DEF NamesInv
<1>9. ASSUME NEW v \in InGraph, NEW K PROVE LeadsIn(heap, kinds, v)' = Due(v, K)'
  <2>1. Unled(v)' <=> v - 1 \in Jumps
    BY <1>1, <1>5 DEF Unled
  <2>2. LeadsIn(heap, kinds, v)' = LeadsIn(heap', kinds', v)
    BY <1>1, LeadsNow
  <2>3. Due(v, K)' = IF v - 1 \in Jumps THEN {} ELSE Arms(PosOf(v))
    BY <1>1, <2>1, DueNow
  <2> QED BY <1>7, <2>2, <2>3
<1> QED BY <1>1, <1>5, <1>7, <1>8, <1>9 DEF ArmsInv, Staying

LEMMA LabelsHaveNames ==
  ASSUME TypeOK, NEW m \in 1 .. Len(prog), prog[m].op = "label"
  PROVE  prog[m].to = <<prog[m].to[1]>> /\ prog[m].to[1] \in Label
<1>1. prog[m].to \in Seq(Label) /\ Len(prog[m].to) = 1
  <2>1. prog[m] \in Statement
    BY TheProgram
  <2> QED BY <2>1, TheStatement
<1> QED BY <1>1

LEMMA AddStatementArms == ASSUME CfgInv, ArmsInv, AddStatement PROVE ArmsInv'
<1>1. /\ pc = "statements" /\ pc' = pc /\ i \in 1 .. Len(prog) /\ i' = i + 1
      /\ Stmt(i) \in Vertices /\ prev \in InGraph /\ InGraph' = InGraph \cup {Stmt(i)}
      /\ EdgesCarried
      /\ ended => GraphEdges' = GraphEdges
      /\ ~ended => /\ GraphEdges' = GraphEdges \cup {NewEdge}
                   /\ heap'.src[NewEdge] = prev /\ heap'.tgt[NewEdge] = Stmt(i)
                   /\ kinds'[NewEdge] = "Fallthrough"
  BY StatementAdded
<1>2. /\ labelMap' = IF prog[i].op = "label" THEN [labelMap EXCEPT ![prog[i].to[1]] = Stmt(i)]
                     ELSE labelMap
      /\ prev' = Stmt(i) /\ prog' = prog /\ doomed' = doomed
  BY DEF AddStatement, pruning
<1>3. /\ TypeOK /\ MembersInv /\ EdgesInv /\ Joined(heap, Len(kinds)) /\ Len(kinds) \in Nat
      /\ MaxLen \in Nat /\ Len(prog) \in 0 .. MaxLen /\ InGraph \subseteq Vertices
      /\ \A w \in Vertices : w \in Int
  <2>1. TypeOK /\ MembersInv /\ EdgesInv /\ Joined(heap, Len(kinds))
    BY DEF CfgInv, EdgesInv
  <2>2. Len(kinds) \in Nat
    BY <2>1 DEF TypeOK
  <2> QED BY <2>1, <2>2, TheProgram, TheGraph DEF Vertices
<1>4. /\ Added = 1 .. i - 1 /\ Added' = Added \cup {i}
      /\ Jumps' = Jumps \cup (IF EndsBlock(prog[i]) THEN {i} ELSE {})
  BY <1>1, AddStatementLists DEF Added
<1>5. SUFFICES ASSUME WellLabelled(prog) PROVE ArmsInv'
  BY <1>2 DEF ArmsInv
<1>6. Stmt(i) \notin InGraph
  <2>1. Stmt(i) = i + 1 /\ Stmt(i) - Linked(0) = i - MaxLen
    BY <1>1, <1>3 DEF Stmt, Linked
  <2>2. Stmt(i) \notin {Entry, Exit} /\ Stmt(i) - 1 \notin Added
    BY <1>1, <1>4, <2>1 DEF Entry, Exit
  <2>3. Stmt(i) - Linked(0) \notin Jumps
    BY <1>1, <1>3, <1>4, <2>1 DEF Jumps
  <2> QED BY <1>3, <2>2, <2>3 DEF MembersInv
<1>7. /\ doomed = {} /\ NamesInv
      /\ \A v \in InGraph : LeadsIn(heap', kinds', v) = IF v - 1 \in Jumps THEN {} ELSE Arms(PosOf(v))
  <2>1. PosOf(Stmt(i)) = i
    BY <1>1, <1>3, ThePositions
  <2>2. \A e \in GraphEdges' \ GraphEdges :
          heap'.src[e] = prev /\ heap'.tgt[e] = Stmt(i) /\ kinds'[e] = "Fallthrough"
    BY <1>1
  <2>3. NewEdge \notin GraphEdges
    BY <1>3 DEF Joined, NewEdge, GraphEdges
  <2>4. ~ended => GraphEdges' \ GraphEdges # {}
    BY <1>1, <2>3
  <2> QED BY <1>1, <1>2, <1>5, <2>1, <2>2, <2>4, FallArms
<1>8. NamesInv'
  <2>1. labelMap \in [Label \cup {"EXIT"} -> Vertices \cup {Null}]
    BY <1>3 DEF TypeOK
  <2>2. labelMap["EXIT"] = Exit /\ \A m \in Added : prog[m].op = "label" => labelMap[prog[m].to[1]] = Stmt(m)
    BY <1>7 DEF NamesInv
  <2>3. DefinedOnce(prog) /\ NoneNamedExit(prog) /\ DOMAIN prog = 1 .. Len(prog)
    BY <1>3, <1>5, TheProgram DEF WellLabelled
  <2>4. CASE prog[i].op = "label"
    <3>1. prog[i].to = <<prog[i].to[1]>> /\ prog[i].to[1] \in Label
      BY <1>1, <1>3, <2>4, LabelsHaveNames
    <3>2. prog[i].to[1] # "EXIT"
      BY <1>1, <2>3, <2>4, <3>1 DEF NoneNamedExit
    <3>3. \A l \in Label \cup {"EXIT"} :
            labelMap'[l] = IF l = prog[i].to[1] THEN Stmt(i) ELSE labelMap[l]
      BY <1>2, <2>1, <2>4, <3>1
    <3>4. labelMap'["EXIT"] = Exit
      BY <2>2, <3>2, <3>3
    <3>5. ASSUME NEW m \in Added, prog[m].op = "label"
          PROVE  prog[m].to[1] \in Label /\ prog[m].to[1] # prog[i].to[1]
      <4>1. m \in 1 .. Len(prog) /\ m # i
        BY <1>1, <1>4
      <4>2. prog[m].to = <<prog[m].to[1]>> /\ prog[m].to[1] \in Label
        BY <1>3, <3>5, <4>1, LabelsHaveNames
      <4>3. prog[m].to # prog[i].to
        BY <1>1, <2>3, <2>4, <3>5, <4>1 DEF DefinedOnce
      <4> QED BY <3>1, <4>2, <4>3
    <3>6. \A m \in Added' : prog'[m].op = "label" => labelMap'[prog'[m].to[1]] = Stmt(m)
      BY <1>2, <1>4, <2>2, <3>1, <3>3, <3>5
    <3> QED BY <3>4, <3>6 DEF NamesInv, Stmt, Exit
  <2>5. CASE prog[i].op # "label"
    <3>1. labelMap' = labelMap /\ \A m \in Added' : prog[m].op = "label" => m \in Added
      BY <1>2, <1>4, <2>5
    <3> QED BY <1>2, <2>2, <3>1 DEF NamesInv, Stmt, Exit
  <2> QED BY <2>4, <2>5
<1>9. ASSUME NEW v \in InGraph', NEW K PROVE LeadsIn(heap, kinds, v)' = Due(v, K)'
  <2>1. LeadsIn(heap, kinds, v)' = LeadsIn(heap', kinds', v)
    BY <1>2, LeadsNow
  <2>2. CASE v = Stmt(i)
    <3>1. Due(v, K)' = {}
      <4>1. Unled(v)'
        BY <1>1, <1>2, <2>2 DEF Unled
      <4> QED BY <1>2, <4>1, DueNow
    <3>2. \A r : r \notin LeadsIn(heap', kinds', v)
      <4>1. \A e \in heap'.edges[Self] : heap'.src[e] \in InGraph
        <5> SUFFICES ASSUME NEW e \in GraphEdges' PROVE heap'.src[e] \in InGraph
          BY DEF GraphEdges
        <5>1. CASE e \in GraphEdges
          BY <1>1, <1>3, <5>1 DEF EdgesInv, EdgesCarried
        <5>2. CASE e \notin GraphEdges
          BY <1>1, <5>2
        <5> QED BY <5>1, <5>2
      <4> QED BY <1>6, <2>2, <4>1, LeadsAre
    <3> QED BY <2>1, <3>1, <3>2
  <2>3. CASE v # Stmt(i)
    <3>1. v \in InGraph /\ v - 1 # i
      BY <1>1, <1>3, <2>3 DEF Stmt
    <3>2. Unled(v)' <=> v - 1 \in Jumps
      BY <1>1, <1>2, <1>4, <2>3, <3>1 DEF Unled
    <3>3. Due(v, K)' = IF v - 1 \in Jumps THEN {} ELSE Arms(PosOf(v))
      BY <1>1, <1>2, <3>2, DueNow
    <3> QED BY <1>7, <2>1, <3>1, <3>3
  <2> QED BY <2>2, <2>3
<1> QED BY <1>2, <1>7, <1>8, <1>9 DEF ArmsInv, Staying

(* Linking: the labels a jump is resolved with are where its arms lead.    *)
LEMMA ResolvedArms ==
  ASSUME CfgInv, WellLabelled(prog), NamesInv, pc = "link", NEW m \in Jumps
  PROVE  \A r : r \in Arms(m) <=>
           \E n \in DOMAIN Resolved(prog[m]) :
             r = <<ArmKind(prog[m], n), PosOf(labelMap[Resolved(prog[m])[n]])>>
<1> DEFINE s == prog[m]
           labels == Resolved(s)
<1>1. /\ TypeOK /\ TargetsDefined(prog) /\ Added = 1 .. Len(prog) /\ m \in 1 .. Len(prog)
      /\ m \in Position /\ s \in Statement /\ EndsBlock(s) /\ Len(prog) \in Nat
  <2>1. TypeOK /\ TargetsDefined(prog) /\ Added = 1 .. Len(prog)
    BY DEF CfgInv, WellLabelled, Added
  <2>2. m \in 1 .. Len(prog) /\ EndsBlock(s) /\ Len(prog) \in Nat
    BY <2>1, TheProgram DEF Jumps
  <2> QED BY <2>1, <2>2, TheProgram DEF Position, EndPos
<1>2. s.to \in Seq(Label) /\ s.op \in {"goto", "return", "if", "switch"}
  BY <1>1, TheStatement DEF EndsBlock
<1>3. ASSUME NEW n \in DOMAIN s.to
      PROVE  Known(s.to[n]) /\ PosOf(labelMap[s.to[n]]) = LabelPos(s.to[n])
  <2>1. PICK q : q = LabelPos(s.to[n])
    OBVIOUS
  <2>2. q \in 1 .. Len(prog) /\ prog[q].op = "label" /\ prog[q].to = <<s.to[n]>>
    BY <1>1, <2>1, TheTargets
  <2>3. prog[q].to[1] = s.to[n]
    BY <2>2
  <2>4. labelMap[s.to[n]] = Stmt(q)
    BY <1>1, <2>2, <2>3 DEF NamesInv
  <2>5. PosOf(Stmt(q)) = q /\ Stmt(q) # Null
    BY <1>1, <2>2, ThePositions DEF Stmt, Null
  <2> QED BY <2>1, <2>4, <2>5 DEF Known
<1>4. /\ s.op = "return" => Arms(m) = {<<"Fallthrough", EndPos>>}
      /\ s.op \in {"goto", "if", "switch"} =>
           Arms(m) = {<<ArmKind(s, n), LabelPos(s.to[n])>> : n \in DOMAIN s.to}
  BY <1>1, ArmsAreKnown
<1>5. CASE s.op = "return"
  <2>1. labels = <<"EXIT">>
    BY <1>5, Zenon DEF Resolved
  <2>2. ArmKind(s, 1) = "Fallthrough"
    <3>1. s.op # "if"
      BY <1>5
    <3> QED BY <3>1, Zenon DEF ArmKind
  <2>3. PosOf(labelMap["EXIT"]) = EndPos
    BY <1>1, ThePositions DEF NamesInv
  <2> HIDE DEF labels
  <2>4. DOMAIN labels = {1} /\ labels[1] = "EXIT"
    BY <2>1
  <2>5. \A r : r \in Arms(m) <=> r = <<"Fallthrough", EndPos>>
    BY <1>4, <1>5
  <2>6. \A r : r \in Arms(m) <=>
          \E n \in DOMAIN labels : r = <<ArmKind(s, n), PosOf(labelMap[labels[n]])>>
    BY <2>2, <2>3, <2>4, <2>5
  <2> QED BY <2>6 DEF labels
<1>6. CASE s.op \in {"goto", "if"}
  <2>1. labels = s.to
    <3>1. s.op # "return" /\ s.op # "switch"
      BY <1>6
    <3>2. labels = IF \A n \in DOMAIN s.to : Known(s.to[n]) THEN s.to ELSE <<>>
      BY <3>1, Zenon DEF Resolved
    <3> QED BY <1>3, <3>2
  <2>2. \A r : r \in Arms(m) <=> \E n \in DOMAIN s.to : r = <<ArmKind(s, n), LabelPos(s.to[n])>>
    BY <1>4, <1>6
  <2> HIDE DEF labels
  <2>3. \A r : r \in Arms(m) <=>
          \E n \in DOMAIN labels : r = <<ArmKind(s, n), PosOf(labelMap[labels[n]])>>
    BY <1>3, <2>1, <2>2
  <2> QED BY <2>3 DEF labels
<1>7. CASE s.op = "switch"
  <2> DEFINE S == {n \in DOMAIN s.to : Known(s.to[n])}
             at == KnownInOrder(s)
  <2>1. DOMAIN s.to = 1 .. Len(s.to) /\ Len(s.to) \in Nat /\ S = DOMAIN s.to
    BY <1>2, <1>3
  <2>2. at \in SX!SetToSeqs(S)
    <3>1. \E x \in SX!SetToSeqs(S) : \A j, n \in DOMAIN x : j < n => x[j] < x[n]
      BY <2>1, OrderExists DEF InOrder
    <3> QED BY <3>1 DEF KnownInOrder
  <2>3. IsFiniteSet(S)
    <3>1. S \in SUBSET (1 .. Len(s.to))
      BY <2>1
    <3> QED BY <2>1, <3>1, PositionsAreFinite
  <2>4. at \in [1 .. Cardinality(S) -> S]
    BY <2>2, SequencesOf
  <2>5. labels = [n \in DOMAIN at |-> s.to[at[n]]]
    <3>1. s.op # "return"
      BY <1>7
    <3> QED BY <1>7, <3>1, Zenon DEF Resolved
  <2>6. \A n : ArmKind(s, n) = "Fallthrough"
    <3>1. s.op # "if"
      BY <1>7
    <3> QED BY <3>1, Zenon DEF ArmKind
  <2> HIDE DEF at, labels
  <2>7. /\ DOMAIN labels = DOMAIN at
        /\ \A n \in DOMAIN at : at[n] \in DOMAIN s.to /\ labels[n] = s.to[at[n]]
    BY <2>1, <2>4, <2>5
  <2>8. \A e \in DOMAIN s.to : \E n \in DOMAIN at : at[n] = e
    <3> HIDE DEF S
    <3> SUFFICES ASSUME NEW e \in S PROVE \E n \in DOMAIN at : at[n] = e
      BY <2>1
    <3> QED BY <2>2, <2>3, ListedAll
  <2>9. \A r : r \in Arms(m) <=> \E e \in DOMAIN s.to : r = <<"Fallthrough", LabelPos(s.to[e])>>
    BY <1>4, <1>7, <2>6
  <2>10. ASSUME NEW r
         PROVE  r \in Arms(m) <=>
                  \E n \in DOMAIN labels : r = <<ArmKind(s, n), PosOf(labelMap[labels[n]])>>
    <3>1. \A n \in DOMAIN labels :
            /\ at[n] \in DOMAIN s.to
            /\ <<ArmKind(s, n), PosOf(labelMap[labels[n]])>> = <<"Fallthrough", LabelPos(s.to[at[n]])>>
      BY <1>3, <2>6, <2>7
    <3>2. ASSUME r \in Arms(m)
          PROVE  \E n \in DOMAIN labels : r = <<ArmKind(s, n), PosOf(labelMap[labels[n]])>>
      <4>1. PICK e \in DOMAIN s.to : r = <<"Fallthrough", LabelPos(s.to[e])>>
        BY <2>9, <3>2
      <4>2. PICK n \in DOMAIN at : at[n] = e
        BY <2>8
      <4> QED BY <2>7, <3>1, <4>1, <4>2
    <3>3. ASSUME NEW n \in DOMAIN labels, r = <<ArmKind(s, n), PosOf(labelMap[labels[n]])>>
          PROVE  r \in Arms(m)
      BY <2>9, <3>1, <3>3
    <3> QED BY <3>2, <3>3
  <2> QED BY <2>10 DEF labels
<1> QED BY <1>2, <1>5, <1>6, <1>7

LEMMA LinkFlowControlArms == ASSUME CfgInv, ArmsInv, LinkFlowControl PROVE ArmsInv'
<1>1. PICK v, m, new, labels :
        v = flow[i] /\ m = v - 1 /\ new = Linked(m) /\ labels = Resolved(prog[m])
  OBVIOUS
<1>2. /\ pc = "link" /\ pc' = pc /\ prog' = prog /\ labelMap' = labelMap /\ doomed' = doomed
      /\ prev' = prev
  BY DEF LinkFlowControl, building, pruning
<1>3. /\ v \in Vertices /\ v \in InGraph /\ m \in Jumps /\ new \in Vertices /\ new \notin InGraph
      /\ TargetsDefined(prog) => labels # <<>>
  BY <1>1, TheJump
<1>4. labels # <<>> =>
        /\ InGraph' = (InGraph \cup {new}) \ {v}
        /\ GraphEdges \subseteq GraphEdges'
        /\ \A e \in GraphEdges :
             /\ kinds'[e] = kinds[e]
             /\ heap'.src[e] = IF heap.src[e] = v THEN new ELSE heap.src[e]
             /\ heap'.tgt[e] = IF heap.tgt[e] = v THEN new ELSE heap.tgt[e]
        /\ \A e \in GraphEdges' \ GraphEdges : kinds'[e] # "Impossible" /\ heap'.src[e] = new
        /\ \A e \in GraphEdges' \ GraphEdges : \E n \in DOMAIN labels :
             kinds'[e] = ArmKind(prog[m], n) /\ heap'.tgt[e] = labelMap[labels[n]]
        /\ \A n \in DOMAIN labels : \E e \in GraphEdges' \ GraphEdges :
             kinds'[e] = ArmKind(prog[m], n) /\ heap'.tgt[e] = labelMap[labels[n]]
  BY <1>1, JumpLinked
<1>5. SUFFICES ASSUME WellLabelled(prog) PROVE ArmsInv'
  BY <1>2 DEF ArmsInv
<1>6. /\ labels # <<>> /\ doomed = {} /\ NamesInv /\ Staying = InGraph
      /\ Added' = Added /\ Jumps' = Jumps /\ TypeOK /\ EdgesInv
  BY <1>2, <1>3, <1>5 DEF WellLabelled, CfgInv, PruningInv, ArmsInv, Staying, Added, Jumps
<1>7. NamesInv'
  BY <1>2, <1>6 DEF NamesInv
<1>8. ASSUME NEW u \in InGraph
      PROVE  LeadsIn(heap, kinds, u) = IF u - 1 \in Jumps THEN {} ELSE Arms(PosOf(u))
  <2>1. PICK K : K = Standing
    OBVIOUS
  <2>2. LeadsIn(heap, kinds, u) = Due(u, K)
    BY <1>5, <1>6, <2>1 DEF ArmsInv
  <2> QED BY <1>2, <2>2 DEF Due, Unled
<1>9. /\ PosOf(new) = m /\ PosOf(v) = m /\ new - 1 \notin Jumps /\ v - 1 \in Jumps /\ new # v
  <2>1. /\ m \in 1 .. Len(prog) /\ MaxLen \in Nat /\ Len(prog) \in 0 .. MaxLen
        /\ Added = 1 .. Len(prog) /\ v \in Int
    BY <1>2, <1>3, <1>6, TheProgram DEF Jumps, Added, Vertices
  <2>2. v = Stmt(m) /\ new - 1 = MaxLen + m
    <3>1. m = v - 1 /\ new = MaxLen + 1 + m
      BY <1>1 DEF Linked
    <3> QED BY <2>1, <3>1 DEF Stmt
  <2>3. new - 1 \notin Jumps
    BY <2>1, <2>2 DEF Jumps
  <2> QED BY <1>1, <1>3, <1>6, <2>1, <2>2, <2>3, ThePositions
<1>10. \A e \in GraphEdges : heap.src[e] # v /\ heap.src[e] # new /\ kinds[e] # "Impossible"
  <2> SUFFICES ASSUME NEW e \in GraphEdges
               PROVE  heap.src[e] # v /\ heap.src[e] # new /\ kinds[e] # "Impossible"
    OBVIOUS
  <2>1. kinds[e] # "Impossible" /\ heap.src[e] \in InGraph
    BY <1>2, <1>6 DEF EdgesInv, IsReal
  <2>2. ASSUME heap.src[e] = v PROVE FALSE
    <3>1. <<kinds[e], PosOf(heap.tgt[e])>> \in LeadsIn(heap, kinds, v)
      BY <2>1, <2>2, LeadsAre DEF GraphEdges
    <3>2. LeadsIn(heap, kinds, v) = {}
      BY <1>3, <1>8, <1>9
    <3> QED BY <3>1, <3>2
  <2> QED BY <1>3, <2>1, <2>2
<1>11. \A e \in GraphEdges : PosOf(heap'.tgt[e]) = PosOf(heap.tgt[e]) /\ heap'.src[e] = heap.src[e]
  BY <1>4, <1>6, <1>9, <1>10
<1>12. ASSUME NEW u \in InGraph', NEW K PROVE LeadsIn(heap, kinds, u)' = Due(u, K)'
  <2>1. LeadsIn(heap, kinds, u)' = LeadsIn(heap', kinds', u)
    BY <1>2, LeadsNow
  <2>2. Due(u, K)' = IF u - 1 \in Jumps THEN {} ELSE Arms(PosOf(u))
    <3>1. Unled(u)' <=> u - 1 \in Jumps
      BY <1>2, <1>6 DEF Unled
    <3> QED BY <1>2, <3>1, DueNow
  <2>3. \A r : r \in LeadsIn(heap', kinds', u) <=>
          \E e \in GraphEdges' :
            heap'.src[e] = u /\ kinds'[e] # "Impossible" /\ r = <<kinds'[e], PosOf(heap'.tgt[e])>>
    BY LeadsAre DEF GraphEdges
  <2>4. CASE u = new
    <3>1. \A r : r \in LeadsIn(heap', kinds', u) <=>
            \E e \in GraphEdges' \ GraphEdges : r = <<kinds'[e], PosOf(heap'.tgt[e])>>
      BY <1>4, <1>6, <1>10, <1>11, <2>3, <2>4
    <3>2. \A r : r \in Arms(m) <=>
            \E n \in DOMAIN labels : r = <<ArmKind(prog[m], n), PosOf(labelMap[labels[n]])>>
      <4>1. labels = Resolved(prog[m])
        BY <1>1
      <4>2. \A r : r \in Arms(m) <=>
              \E n \in DOMAIN Resolved(prog[m]) :
                r = <<ArmKind(prog[m], n), PosOf(labelMap[Resolved(prog[m])[n]])>>
        BY <1>2, <1>3, <1>5, <1>6, ResolvedArms
      <4> QED BY <4>1, <4>2
    <3>3. ASSUME NEW r, r \in LeadsIn(heap', kinds', u) PROVE r \in Arms(m)
      <4>1. PICK e \in GraphEdges' \ GraphEdges : r = <<kinds'[e], PosOf(heap'.tgt[e])>>
        BY <3>1, <3>3
      <4>2. PICK n \in DOMAIN labels :
              kinds'[e] = ArmKind(prog[m], n) /\ heap'.tgt[e] = labelMap[labels[n]]
        BY <1>4, <1>6
      <4> QED BY <3>2, <4>1, <4>2
    <3>4. ASSUME NEW r, r \in Arms(m) PROVE r \in LeadsIn(heap', kinds', u)
      <4>1. PICK n \in DOMAIN labels : r = <<ArmKind(prog[m], n), PosOf(labelMap[labels[n]])>>
        BY <3>2, <3>4
      <4>2. PICK e \in GraphEdges' \ GraphEdges :
              kinds'[e] = ArmKind(prog[m], n) /\ heap'.tgt[e] = labelMap[labels[n]]
        BY <1>4, <1>6
      <4> QED BY <3>1, <4>1, <4>2
    <3>5. LeadsIn(heap', kinds', u) = Arms(m)
      BY <3>3, <3>4
    <3> QED BY <1>9, <2>1, <2>2, <2>4, <3>5
  <2>5. CASE u # new
    <3>1. u \in InGraph
      BY <1>4, <1>6, <2>5
    <3>2. \A r : r \in LeadsIn(heap, kinds, u) <=>
            \E e \in GraphEdges :
              heap.src[e] = u /\ kinds[e] # "Impossible" /\ r = <<kinds[e], PosOf(heap.tgt[e])>>
      BY LeadsAre DEF GraphEdges
    <3>3. \A e \in GraphEdges' : heap'.src[e] = u => e \in GraphEdges
      BY <1>4, <1>6, <2>5
    <3>4. \A r : r \in LeadsIn(heap', kinds', u) <=> r \in LeadsIn(heap, kinds, u)
      BY <1>4, <1>6, <1>11, <2>3, <3>2, <3>3
    <3>5. LeadsIn(heap', kinds', u) = LeadsIn(heap, kinds, u)
      BY <3>4 DEF LeadsIn
    <3> QED BY <1>8, <2>1, <2>2, <3>1, <3>5
  <2> QED BY <2>4, <2>5
<1> QED BY <1>2, <1>6, <1>7, <1>12 DEF ArmsInv, Staying

LEMMA InitArms == Init => ArmsInv
<1> SUFFICES ASSUME Init PROVE ArmsInv
  OBVIOUS
<1>1. /\ pc = "statements" /\ i = 1 /\ prev = Entry /\ doomed = {}
      /\ labelMap = [l \in Label \cup {"EXIT"} |-> IF l = "EXIT" THEN Exit ELSE Null]
  BY DEF Init
<1>2. TypeOK /\ InGraph = {Entry, Exit} /\ GraphEdges = {}
  BY InitEstablishes DEF CfgInv
<1>3. NamesInv
  <2>1. Added = {}
    BY <1>1 DEF Added
  <2> QED BY <1>1, <2>1 DEF NamesInv
<1>4. ASSUME NEW v \in Staying, NEW K PROVE LeadsIn(heap, kinds, v) = Due(v, K)
  <2>1. LeadsIn(heap, kinds, v) = {}
    BY <1>2 DEF LeadsIn, GraphEdges
  <2>2. CASE v = Entry
    BY <1>1, <2>1, <2>2 DEF Due, Unled
  <2>3. CASE v = Exit
    <3>1. PosOf(v) = EndPos /\ EndPos \in Position
      BY <1>2, <2>3, ThePositions DEF Position
    <3>2. Arms(PosOf(v)) = {}
      BY <1>2, <3>1, ArmsAreKnown
    <3> QED BY <1>1, <2>1, <3>2 DEF Due
  <2> QED BY <1>2, <2>2, <2>3 DEF Staying
<1> QED BY <1>3, <1>4 DEF ArmsInv

LEMMA ArmsStep == CfgInv /\ ArmsInv /\ [Next]_vars => ArmsInv'
<1> SUFFICES ASSUME CfgInv, ArmsInv, [Next]_vars PROVE ArmsInv'
  OBVIOUS
<1>1. CASE AddStatement \/ FallOffTheEnd
  BY <1>1, AddStatementArms, FallOffTheEndArms
<1>2. CASE LinkFlowControl
  BY <1>2, LinkFlowControlArms
<1>3. CASE AddImpossibleEdge \/ AddSelfEdges \/ MarkBackEdge
  BY <1>3, AddImpossibleEdgeArms, AddSelfEdgesArms, MarkBackEdgeArms
<1>4. CASE MarkingComplete \/ BypassRedundant \/ DeleteDoomed
  BY <1>4, MarkingCompleteArms, BypassArms, DeleteDoomedArms
<1>5. CASE UNCHANGED vars
  <2>1. UNCHANGED <<prog, pc, i, heap, kinds, prev, labelMap, doomed>>
    BY <1>5 DEF vars, building, pruning
  <2>2. Added' = Added /\ Jumps' = Jumps /\ Staying' = Staying
    BY <2>1 DEF Added, Jumps, Staying, InGraph
  <2>3. Standing' = Standing
    BY <2>1, <2>2 DEF Standing, PosOf, EndPos
  <2>4. NamesInv => NamesInv'
    BY <2>1, <2>2 DEF NamesInv
  <2>5. ASSUME NEW v \in Staying, NEW K \in {Standing}, LeadsIn(heap, kinds, v) = Due(v, K)
        PROVE  LeadsIn(heap, kinds, v)' = Due(v, K)'
    <3>1. LeadsIn(heap, kinds, v)' = LeadsIn(heap, kinds, v)
      BY <2>1, LeadsNow
    <3>2. Unled(v)' <=> Unled(v)
      BY <2>1, <2>2 DEF Unled
    <3>3. Due(v, K)' = Due(v, K)
      BY <2>1, <3>2, DueNow DEF Due
    <3> QED BY <2>5, <3>1, <3>3
  <2> QED BY <2>1, <2>2, <2>3, <2>4, <2>5 DEF ArmsInv
<1> QED BY <1>1, <1>2, <1>3, <1>4, <1>5, OtherArms DEF Next, Build, Returned

(* However gotos, returns and compiler labels follow one another, and in   *)
(* whatever order the hash set of vertices hands them to the removal: the  *)
(* finished graph has the control flow of the source, arm by arm           *)
(* (Function.cpp:695-877).                                                 *)
THEOREM AlwaysFlowPreserved == Spec => []FlowPreserved
<1>1. CfgInv /\ ArmsInv => FlowPreserved
  <2> SUFFICES ASSUME CfgInv, ArmsInv, pc = "done", WellLabelled(prog), NEW v \in InGraph
               PROVE  RealArms(v) = UNION {{<<a[1], q>> : q \in Landing(a[2], Kept)} : a \in Arms(PosOf(v))}
    BY DEF FlowPreserved
  <2>1. TargetsDefined(prog) /\ InGraph \cap doomed = {} /\ ~Unled(v)
    BY NoneUnled DEF WellLabelled, CfgInv, PruningInv
  <2>2. Staying = InGraph /\ Standing = Kept
    BY <2>1 DEF Staying, Standing, Kept
  <2>3. PICK K : K = Standing
    OBVIOUS
  <2>4. LeadsIn(heap, kinds, v) = Onward(PosOf(v), K)
    <3>1. LeadsIn(heap, kinds, v) = Due(v, K)
      BY <2>2, <2>3 DEF ArmsInv
    <3> QED BY <2>1, <3>1 DEF Due
  <2>5. LeadsIn(heap, kinds, v) = RealArms(v)
    <3>1. /\ EndsAgree(heap) /\ heap \in Heaps /\ v \in Vertices /\ GraphEdges \subseteq Edges
          /\ \A e \in Edges \ GraphEdges : heap.src[e] = Null
      BY TheGraph DEF CfgInv, EdgesInv, Joined, GraphEdges
    <3>2. heap.outE[v] \subseteq Edges /\ v # Null
      <4>1. heap.outE \in [Vertices -> SUBSET Edges]
        BY <3>1, HeapFields
      <4>2. \A w \in Vertices : w # Null
        BY DEF Null, Vertices
      <4> QED BY <3>1, <4>1, <4>2
    <3>3. \A e \in Edges : e \in heap.outE[v] <=> e \in GraphEdges /\ heap.src[e] = v
      <4>1. \A e \in Edges : e \in heap.outE[v] <=> heap.src[e] = v
        BY <3>1 DEF EndsAgree, Edges, Vertices
      <4> QED BY <3>1, <3>2, <4>1
    <3>4. \A r : r \in RealArms(v) <=>
            \E e \in heap.outE[v] : IsReal(e) /\ r = <<kinds[e], PosOf(heap.tgt[e])>>
      BY DEF RealArms
    <3>5. \A r : r \in LeadsIn(heap, kinds, v) <=>
            \E e \in GraphEdges : heap.src[e] = v /\ IsReal(e) /\ r = <<kinds[e], PosOf(heap.tgt[e])>>
      BY LeadsAre DEF GraphEdges, IsReal
    <3>6. \A r : r \in LeadsIn(heap, kinds, v) <=> r \in RealArms(v)
      BY <3>1, <3>2, <3>3, <3>4, <3>5
    <3> QED BY <3>6 DEF LeadsIn, RealArms
  <2>6. Onward(PosOf(v), Kept) = UNION {{<<a[1], q>> : q \in Landing(a[2], Kept)} : a \in Arms(PosOf(v))}
    BY Zenon DEF Onward
  <2> QED BY <2>2, <2>3, <2>4, <2>5, <2>6
<1> QED BY <1>1, InitArms, ArmsStep, CfgInvariant, PTL DEF Spec
=============================================================================
