----------------------------- MODULE Multigraph -----------------------------
(***************************************************************************)
(* What the Graph class promises its callers: a family of directed         *)
(* multigraphs.  An arc is an edge with its two ends, stored once; whether *)
(* the ends also know the arc, and whether everyone agrees, is not a       *)
(* question that can be asked here.  An arc may outlive the place of its   *)
(* ends in a graph, as it may in the code.                                 *)
(***************************************************************************)
CONSTANTS GraphId, Vertex, Edge

VARIABLES
  verts,   \* the vertices of each graph
  arcs     \* the arcs of each graph

vars == <<verts, arcs>>

Arc(e, s, t) == [edge |-> e, from |-> s, to |-> t]

AllVertices == UNION {verts[g] : g \in GraphId}
AllArcs     == UNION {arcs[g] : g \in GraphId}

Init ==
  /\ verts = [g \in GraphId |-> {}]
  /\ arcs  = [g \in GraphId |-> {}]

Add(g, v) ==
  /\ v \notin AllVertices
  /\ verts' = [verts EXCEPT ![g] = @ \cup {v}]
  /\ UNCHANGED arcs

(* A vertex leaves and the arcs that end at it are left as they are.       *)
Remove(g, v) ==
  /\ verts' = [verts EXCEPT ![g] = @ \ {v}]
  /\ UNCHANGED arcs

(* Replacing a vertex renames it in every arc of every graph.              *)
Replace(g, old, new) ==
  LET Renamed(v) == IF v = old THEN new ELSE v
  IN  /\ old \in verts[g]
      /\ new \notin AllVertices
      /\ \A a \in AllArcs : a.from # new /\ a.to # new
      /\ verts' = [verts EXCEPT ![g] = (@ \cup {new}) \ {old}]
      /\ arcs'  = [h \in GraphId |->
                     {Arc(a.edge, Renamed(a.from), Renamed(a.to)) : a \in arcs[h]}]

Connect(g, s, t, e) ==
  /\ \A a \in AllArcs : a.edge # e
  /\ arcs' = [arcs EXCEPT ![g] = @ \cup {Arc(e, s, t)}]
  /\ UNCHANGED verts

Disconnect(g, a) ==
  /\ a \in arcs[g]
  /\ arcs' = [arcs EXCEPT ![g] = @ \ {a}]
  /\ UNCHANGED verts

(* One end of an arc moves; the arc stays in the graph that owns it.       *)
Move(g, a, s, t) ==
  /\ a \in arcs[g]
  /\ s = a.from \/ t = a.to
  /\ arcs' = [arcs EXCEPT ![g] = (@ \ {a}) \cup {Arc(a.edge, s, t)}]
  /\ UNCHANGED verts

Next ==
  \E g \in GraphId :
    \/ \E v \in Vertex : Add(g, v) \/ Remove(g, v)
    \/ \E v, w \in Vertex : Replace(g, v, w)
    \/ \E s, t \in Vertex, e \in Edge : Connect(g, s, t, e)
    \/ \E a \in arcs[g] : Disconnect(g, a)
    \/ \E a \in arcs[g], s, t \in Vertex : Move(g, a, s, t)

Spec == Init /\ [][Next]_vars
=============================================================================
