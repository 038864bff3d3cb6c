------------------------------ MODULE DotVisit ------------------------------
(***************************************************************************)
(* Drawing a function: improved_depth_first_visit over the linked program  *)
(* from the function's ENTRY, with WriteGraphvizDotFileVisitor, which      *)
(* writes a line for each vertex discovered and for each edge examined and *)
(* not ignored.  A line names vertices by their number in the function's   *)
(* graph, so a vertex of another function would be taken for one of this.  *)
(*                                                                         *)
(* The visitor asks for no color context and never ends the search, so the *)
(* stack of color maps keeps its one map.                                  *)
(***************************************************************************)
EXTENDS LinkedProgram

CONSTANTS
  Programs,   \* the programs, each a function from names to graphs
  Drawn       \* the functions to draw

(* Self edges of ENTRY and EXIT, which belong to every function's graph.   *)
SelfEdges(p) ==
  UNION {{[from |-> v, to |-> v, kind |-> "back", call |-> NoCall]
            : v \in {EntryOf(f), ExitOf(f)}} : f \in DOMAIN p}

(* A program is finite.  But for the self edges nothing leads to an ENTRY  *)
(* and nothing leaves an EXIT.                                             *)
ASSUME ProgramsAssumption ==
  \A p \in Programs :
    /\ IsFiniteSet(EdgesOf(p) \cup SelfEdges(p))
    /\ \A f \in DOMAIN p : \A a \in p[f].arcs : a.kind \in ArcKind /\ a.to # 0 /\ a.from # 1

VARIABLES
  prog,     \* the program
  edges,    \* the edges of all its graphs
  func,     \* the function drawn
  order,    \* the order in which the out-edges of a vertex are walked
  color,    \* the color map; a vertex it does not have is white
  dfs,      \* dfs_stack, with the vertex being worked on
  nodes,    \* how often the line of a vertex was written
  lines     \* how often the line of an edge was written

given == <<prog, edges, func>>
vars  == <<given, order, color, dfs, nodes, lines>>

-----------------------------------------------------------------------------
Last(s)  == s[Len(s)]
Front(s) == SubSeq(s, 1, Len(s) - 1)

ColorOf(v) == IF v \in DOMAIN color THEN color[v] ELSE "white"
Painted(v, c) == [w \in DOMAIN color \cup {v} |-> IF w = v THEN c ELSE color[w]]
Written(counts, x) == [counts EXCEPT ![x] = @ + 1]

Init ==
  /\ prog \in Programs /\ func \in Drawn \cap DOMAIN prog
  /\ edges = EdgesOf(prog) \cup SelfEdges(prog)
  /\ order \in OrdersWith(edges, <<>>, EntryOf(func))
  /\ color = [v \in {EntryOf(func)} |-> "gray"]
  /\ dfs = <<[v |-> EntryOf(func), at |-> 0]>>
  /\ nodes = [v \in VerticesOf(prog) |-> IF v = EntryOf(func) THEN 1 ELSE 0]
  /\ lines = [e \in edges |-> 0]

Here      == Last(dfs).v
MoreEdges == dfs # <<>> /\ Last(dfs).at < Len(order[Here])
Examined  == order[Here][Last(dfs).at + 1]
Advanced  == [dfs EXCEPT ![Len(dfs)].at = @ + 1]

(* Mutant: edges of a call are told from others only by where they lead.   *)
IgnoredSelfEdges(e) == e.from = e.to

(* WriteGraphvizDotFileVisitor::examine_edge.                              *)
Ignored(e) ==
  \/ e.kind \in {"call", "return"}
  \/ \E f \in DOMAIN prog : e.to = EntryOf(f) \/ e.from = ExitOf(f)

IgnoreEdge ==
  /\ MoreEdges /\ Ignored(Examined)
  /\ dfs' = Advanced
  /\ UNCHANGED <<given, order, color, nodes, lines>>

TreeEdge ==
  LET e == Examined IN
  /\ MoreEdges /\ ~Ignored(e) /\ ColorOf(e.to) = "white"
  /\ lines' = Written(lines, e) /\ nodes' = Written(nodes, e.to)
  /\ color' = Painted(e.to, "gray")
  /\ order' \in OrdersWith(edges, order, e.to)
  /\ dfs' = Append(Advanced, [v |-> e.to, at |-> 0])
  /\ UNCHANGED given

(* Mutant: an edge that is not followed is left for later.                 *)
OtherEdgeAgain ==
  /\ MoreEdges /\ ~Ignored(Examined) /\ ColorOf(Examined.to) # "white"
  /\ UNCHANGED vars

(* back_edge and forward_or_cross_edge both write the edge.                *)
OtherEdge ==
  LET e == Examined IN
  /\ MoreEdges /\ ~Ignored(e) /\ ColorOf(e.to) # "white"
  /\ lines' = Written(lines, e)
  /\ dfs' = Advanced
  /\ UNCHANGED <<given, order, color, nodes>>

(* Mutant: a finished vertex stays gray.                                   *)
FinishVertexGray ==
  /\ dfs # <<>> /\ ~MoreEdges
  /\ dfs' = Front(dfs)
  /\ UNCHANGED <<given, order, color, nodes, lines>>

FinishVertex ==
  /\ dfs # <<>> /\ ~MoreEdges
  /\ color' = Painted(Here, "black")
  /\ dfs' = Front(dfs)
  /\ UNCHANGED <<given, order, nodes, lines>>

Draw == IgnoreEdge \/ TreeEdge \/ OtherEdge \/ FinishVertex
DrawingDone == dfs = <<>> /\ UNCHANGED vars
Next == Draw \/ DrawingDone

(* One thread, which runs until the drawing is finished.                   *)
Spec == Init /\ [][Next]_vars /\ WF_vars(Draw)

-----------------------------------------------------------------------------
TypeOK ==
  LET V == VerticesOf(prog) IN
  /\ prog \in Programs /\ func \in Drawn \cap DOMAIN prog
  /\ edges = EdgesOf(prog) \cup SelfEdges(prog)
  /\ \A v \in DOMAIN order : v \in V /\ order[v] \in Orderings(OutEdges(edges, v))
  /\ DOMAIN color \subseteq V /\ \A v \in DOMAIN color : color[v] \in {"gray", "black"}
  /\ dfs \in Seq([v : DOMAIN order, at : Nat])
  /\ nodes \in [V -> Nat] /\ lines \in [edges -> Nat]

(* The drawing shows what can be reached in the function's own graph, each *)
(* vertex and each edge once, and nothing of another function although the *)
(* edges walked lead there and numbers start at 0 in every function.  All  *)
(* the while the variables hold what their names say.                      *)
Arcs      == prog[func].arcs
Numbers   == {0} \cup {a.to : a \in Arcs}
Closed(S) == 0 \in S /\ \A a \in Arcs : a.from \in S => a.to \in S
Shown     == {<<func, n>> : n \in {m \in Numbers : \A S \in SUBSET Numbers : Closed(S) => m \in S}}
OwnOut(S) == {e \in OwnEdges(prog) : e.from \in S}
DrawnWhole ==
  /\ TypeOK
  /\ dfs = <<>> =>
       LET shown == Shown
           out   == OwnOut(shown)
       IN  /\ \A v \in VerticesOf(prog) : nodes[v] = IF v \in shown THEN 1 ELSE 0
           /\ \A e \in edges : lines[e] = IF e \in out THEN 1 ELSE 0

(* The colors mean what the traversal's events say: gray are the vertices  *)
(* on the stack, once each, and what a finished vertex leads to has been   *)
(* discovered, so that an edge reported as a back edge closes a cycle.     *)
ColorsTellStack ==
  /\ \A m, n \in DOMAIN dfs : dfs[m].v = dfs[n].v => m = n
  /\ {v \in DOMAIN color : color[v] = "gray"} = {dfs[n].v : n \in DOMAIN dfs}
  /\ \A v \in DOMAIN color : color[v] = "black" =>
       \A e \in OutEdges(edges, v) : Ignored(e) \/ e.to \in DOMAIN color

(* The drawing is finished.                                                *)
DrawingEnds == <>(dfs = <<>>)
=============================================================================
