----------------------------- MODULE FunctionCfg -----------------------------
(***************************************************************************)
(* How Function::CreateControlFlowGraph turns the statement list of one    *)
(* function into its control flow graph: vertices and fallthrough edges in *)
(* list order, then the jumps, the Impossible edges into block leaders     *)
(* nobody jumps to, the back edges a depth-first search finds, and last    *)
(* the removal of Gotos and compiler labels that became superfluous.       *)
(*                                                                         *)
(* The program is sequential.  What varies between runs is the order in    *)
(* which hash sets of pointers are walked: the out-edges of a vertex and   *)
(* the vertices of the graph.                                              *)
(***************************************************************************)
EXTENDS Integers, Sequences, FiniteSets

CONSTANTS
  Programs,     \* the statement lists the parser may hand over
  MaxLen,       \* bound: the longest statement list
  MaxEdges,     \* bound: the edges memory has room for
  UserLabels,   \* labels written in the source
  TempLabels    \* labels the compiler made up, which start with '<'

(* A statement is its kind and the labels it defines or jumps to, in the   *)
(* order ResolveLinks looks them up.  The parser's grammar knows no switch *)
(* without a case.                                                         *)
Label     == UserLabels \cup TempLabels
Op        == {"plain", "label", "goto", "return", "if", "switch"}
Statement == {s \in [op : Op, to : Seq(Label)] :
                /\ s.op \in {"plain", "return"} => Len(s.to) = 0
                /\ s.op \in {"label", "goto"}   => Len(s.to) = 1
                /\ s.op = "if"                  => Len(s.to) = 2
                /\ s.op = "switch"              => Len(s.to) >= 1}

ASSUME BoundsAssumption == MaxLen \in Nat /\ MaxEdges \in Nat
ASSUME ProgramsAssumption ==
  \A p \in Programs : p \in Seq(Statement) /\ Len(p) <= MaxLen

(* The parser builds a *Unlinked object for each jump; linking replaces it *)
(* by an object of its own.                                                *)
Entry     == 0
Exit      == 1
Stmt(i)   == i + 1
Linked(i) == MaxLen + 1 + i
Null      == -1
Self      == "this function"

INSTANCE GraphOps
  WITH GraphId <- {Self}, Vertex <- 0 .. 2 * MaxLen + 1,
       Edge <- 1 .. MaxEdges, NULL <- Null

SX == INSTANCE SequencesExt
FS == INSTANCE FiniteSetsExt

VARIABLES
  prog,      \* the statement list
  pc,        \* the phase CreateControlFlowGraph is in
  i,         \* position of the loop that phase runs
  heap,      \* the graph's objects
  kinds,     \* kinds[e] is the class of edge e
  back,      \* the edges marked as back edges
  prev,      \* prev_vertex
  ended,     \* prev_vertex_ended_basic_block
  labelMap,  \* label_map
  leaders,   \* list_of_leader_info
  flow,      \* list_of_unlinked_flow_control_statements
  warned,    \* the vertices reported as not connected
  seen,      \* the vertices that are no longer white in the search
  order,     \* order[v] is the order in which v's out-edges are walked
  stack,     \* the gray vertices, each with the edges examined so far
  found,     \* the back edges found, with the proxy target of each
  todo,      \* the vertices RemoveRedundantNodes still has to look at
  doomed     \* vertices_to_remove

building == <<prev, ended, labelMap, leaders, flow>>
search   == <<seen, order, stack, found>>
pruning  == <<todo, doomed>>
vars     == <<prog, pc, i, heap, kinds, back, warned, building, search, pruning>>

Kind  == {"Fallthrough", "IfTrue", "IfFalse", "Impossible"}
Phase == {"statements", "link", "leaders", "check", "selfedges", "dfs", "mark",
          "redundant", "done", "crashed"}

Vertices == 0 .. 2 * MaxLen + 1
Edges    == 1 .. MaxEdges
InGraph  == heap.verts[Self]
GraphEdges == heap.edges[Self]

TypeOK ==
  /\ prog \in Programs
  /\ pc \in Phase
  /\ i \in Nat
  /\ heap \in Heaps
  /\ kinds \in Seq(Kind) /\ Len(kinds) <= MaxEdges
  /\ back \subseteq 1 .. Len(kinds)
  /\ prev \in Vertices /\ ended \in BOOLEAN
  /\ labelMap \in [Label \cup {"EXIT"} -> Vertices \cup {Null}]
  /\ leaders \in Seq([leader : Vertices, pred : Vertices])
  /\ flow \in Seq(Vertices)
  /\ warned \subseteq Vertices
  /\ seen \subseteq Vertices
  /\ order \in [Vertices -> Seq(Edges)]
  /\ stack \in Seq([v : Vertices, at : Nat])
  /\ found \in Seq([edge : Edges, proxy : Vertices \cup {Null}])
  /\ todo \subseteq Vertices /\ doomed \subseteq Vertices

Init ==
  /\ prog \in Programs
  /\ pc = "statements" /\ i = 1
  /\ heap = AddVertex(AddVertex(EmptyHeap, Self, Entry), Self, Exit)
  /\ kinds = <<>> /\ back = {} /\ warned = {}
  /\ prev = Entry /\ ended = FALSE
  /\ labelMap = [l \in Label \cup {"EXIT"} |-> IF l = "EXIT" THEN Exit ELSE Null]
  /\ leaders = <<>> /\ flow = <<>>
  /\ seen = {} /\ stack = <<>> /\ found = <<>>
  /\ order = [v \in Vertices |-> <<>>]
  /\ todo = {} /\ doomed = {}

(* The edge object "new" makes next, and whether there is memory for n.    *)
NewEdge == Len(kinds) + 1
Room(n) == Len(kinds) + n <= MaxEdges

GoTo(phase) == pc' = phase /\ i' = 1

-----------------------------------------------------------------------------
(* The statement loop.  "EXIT" is an ordinary key of the label map.        *)

EndsBlock(s) == s.op \in {"goto", "return", "if", "switch"}

AddStatement ==
  LET s     == prog[i]
      v     == Stmt(i)
      added == AddVertex(heap, Self, v)
  IN
  /\ pc = "statements" /\ i <= Len(prog)
  /\ IF ended
     THEN /\ heap' = added
          /\ leaders' = Append(leaders, [leader |-> v, pred |-> prev])
          /\ UNCHANGED kinds
     ELSE /\ Room(1)
          /\ heap' = AddEdge(added, Self, prev, v, NewEdge)
          /\ kinds' = Append(kinds, "Fallthrough")
          /\ UNCHANGED leaders
  /\ labelMap' = IF s.op = "label" THEN [labelMap EXCEPT ![s.to[1]] = v] ELSE labelMap
  /\ flow' = IF EndsBlock(s) THEN Append(flow, v) ELSE flow
  /\ ended' = EndsBlock(s)
  /\ prev' = v
  /\ i' = i + 1
  /\ UNCHANGED <<prog, pc, back, warned, search, pruning>>

FallOffTheEnd ==
  /\ pc = "statements" /\ i > Len(prog)
  /\ IF ended
     THEN UNCHANGED <<heap, kinds>>
     ELSE /\ Room(1)
          /\ heap' = AddEdge(heap, Self, prev, Exit, NewEdge)
          /\ kinds' = Append(kinds, "Fallthrough")
  /\ GoTo("link")
  /\ UNCHANGED <<prog, back, warned, building, search, pruning>>

-----------------------------------------------------------------------------
(* ResolveLinks: a goto, return or if needs all its labels, a switch adds  *)
(* the edges of the cases it can resolve.  No edge means no replacement.   *)

Known(l) == labelMap[l] # Null

(* The positions of the known labels, from the first to the last.          *)
KnownInOrder(s) ==
  CHOOSE at \in SX!SetToSeqs({n \in DOMAIN s.to : Known(s.to[n])}) :
    \A m, n \in DOMAIN at : m < n => at[m] < at[n]

Resolved(s) ==
  CASE s.op = "return" -> <<"EXIT">>
    [] s.op = "switch" -> [n \in DOMAIN KnownInOrder(s) |-> s.to[KnownInOrder(s)[n]]]
    [] OTHER -> IF \A n \in DOMAIN s.to : Known(s.to[n]) THEN s.to ELSE <<>>

ArmKind(s, n) ==
  CASE s.op = "if" /\ n = 1 -> "IfTrue"
    [] s.op = "if" /\ n = 2 -> "IfFalse"
    [] OTHER -> "Fallthrough"

(* AddEdge for each of the labels.                                         *)
AddArms(h, v, labels) ==
  LET Arm == {Len(kinds) + n : n \in DOMAIN labels}
      To(e) == labelMap[labels[e - Len(kinds)]]
  IN [h EXCEPT !.outE[v] = @ \cup Arm,
               !.inE = [w \in Vertices |-> h.inE[w] \cup {e \in Arm : To(e) = w}],
               !.src = [e \in Edges |-> IF e \in Arm THEN v ELSE h.src[e]],
               !.tgt = [e \in Edges |-> IF e \in Arm THEN To(e) ELSE h.tgt[e]],
               !.edges[Self] = @ \cup Arm]

(* Mutant: the vertex is replaced before its edges are drawn from it.      *)
LinkFlowControlReplaceFirst ==
  LET v      == flow[i]
      s      == prog[v - 1]
      labels == Resolved(s)
  IN
  /\ pc = "link" /\ i <= Len(flow) /\ Room(Len(labels))
  /\ heap' = IF labels = <<>> THEN heap
             ELSE AddArms(ReplaceVertex(heap, Self, v, Linked(v - 1)), v, labels)
  /\ kinds' = kinds \o [n \in DOMAIN labels |-> ArmKind(s, n)]
  /\ i' = i + 1
  /\ UNCHANGED <<prog, pc, back, warned, building, search, pruning>>

LinkFlowControl ==
  LET v      == flow[i]
      s      == prog[v - 1]
      labels == Resolved(s)
  IN
  /\ pc = "link" /\ i <= Len(flow) /\ Room(Len(labels))
  /\ heap' = IF labels = <<>> THEN heap
             ELSE ReplaceVertex(AddArms(heap, v, labels), Self, v, Linked(v - 1))
  /\ kinds' = kinds \o [n \in DOMAIN labels |-> ArmKind(s, n)]
  /\ i' = i + 1
  /\ UNCHANGED <<prog, pc, back, warned, building, search, pruning>>

LinkingComplete ==
  /\ pc = "link" /\ i > Len(flow)
  /\ GoTo("leaders")
  /\ UNCHANGED <<prog, heap, kinds, back, warned, building, search, pruning>>

-----------------------------------------------------------------------------
(* AddImpossibleEdges and CheckForNoInEdges both go through descriptors    *)
(* recorded before linking, which linking may have replaced.               *)

(* Mutant: the degree of the predecessor is asked for.                     *)
AddImpossibleEdgeByPred ==
  LET p == leaders[i] IN
  /\ pc = "leaders" /\ i <= Len(leaders)
  /\ IF InDegreeIs0(heap, p.pred)
     THEN /\ Room(1)
          /\ heap' = AddEdge(heap, Self, p.pred, p.leader, NewEdge)
          /\ kinds' = Append(kinds, "Impossible")
     ELSE UNCHANGED <<heap, kinds>>
  /\ i' = i + 1
  /\ UNCHANGED <<prog, pc, back, warned, building, search, pruning>>

AddImpossibleEdge ==
  LET p == leaders[i] IN
  /\ pc = "leaders" /\ i <= Len(leaders)
  /\ IF InDegreeIs0(heap, p.leader)
     THEN /\ Room(1)
          /\ heap' = AddEdge(heap, Self, p.pred, p.leader, NewEdge)
          /\ kinds' = Append(kinds, "Impossible")
     ELSE UNCHANGED <<heap, kinds>>
  /\ i' = i + 1
  /\ UNCHANGED <<prog, pc, back, warned, building, search, pruning>>

LeadersComplete ==
  /\ pc = "leaders" /\ i > Len(leaders)
  /\ GoTo("check")
  /\ UNCHANGED <<prog, heap, kinds, back, warned, building, search, pruning>>

Watched == {leaders[n].leader : n \in DOMAIN leaders}

CheckForNoInEdges ==
  /\ pc = "check"
  /\ warned' = {v \in Watched : InDegreeIs0(heap, v)}
  /\ GoTo("selfedges")
  /\ UNCHANGED <<prog, heap, kinds, back, building, search, pruning>>

AddSelfEdges ==
  /\ pc = "selfedges" /\ Room(2)
  /\ heap' = AddEdge(AddEdge(heap, Self, Entry, Entry, NewEdge),
                     Self, Exit, Exit, NewEdge + 1)
  /\ kinds' = kinds \o <<"Impossible", "Impossible">>
  /\ GoTo("dfs")
  /\ UNCHANGED <<prog, back, warned, building, search, pruning>>

-----------------------------------------------------------------------------
(* FixupBackEdges: boost::depth_first_search from ENTRY and then from any  *)
(* vertex still white.  A vertex on the stack is gray; a seen vertex which *)
(* is off the stack is black.                                              *)

Top  == stack[Len(stack)]
Gray == {stack[n].v : n \in DOMAIN stack}

(* Mutant: every linked jump counts as a decision.                         *)
IsDecisionAnyJump(v) == v > Stmt(MaxLen)

IsDecision(v) ==
  v > Stmt(MaxLen) /\ prog[v - Linked(0)].op \in {"if", "switch"}

Discover(v) ==
  /\ seen' = seen \cup {v}
  /\ \E o \in SX!SetToSeqs(heap.outE[v]) : order' = [order EXCEPT ![v] = o]

StartVisit ==
  /\ pc = "dfs" /\ stack = <<>>
  /\ \E v \in InGraph \ seen :
       /\ v = Entry \/ Entry \in seen
       /\ Discover(v)
       /\ stack' = <<[v |-> v, at |-> 0]>>
  /\ UNCHANGED <<prog, pc, i, heap, kinds, back, warned, building, found, pruning>>

(* The edge the vertex on top of the stack examines next.                  *)
Examined == order[Top.v][Top.at + 1]
Advanced == [stack EXCEPT ![Len(stack)].at = @ + 1]
MoreEdges == Top.at < Len(order[Top.v])

TreeEdge ==
  /\ pc = "dfs" /\ stack # <<>> /\ MoreEdges
  /\ heap.tgt[Examined] \notin seen
  /\ Discover(heap.tgt[Examined])
  /\ stack' = Append(Advanced, [v |-> heap.tgt[Examined], at |-> 0])
  /\ UNCHANGED <<prog, pc, i, heap, kinds, back, warned, building, found, pruning>>

ForwardOrCrossEdge ==
  /\ pc = "dfs" /\ stack # <<>> /\ MoreEdges
  /\ heap.tgt[Examined] \in seen \ Gray
  /\ stack' = Advanced
  /\ UNCHANGED <<prog, pc, i, heap, kinds, back, warned, building, seen, order,
                 found, pruning>>

(* FindForwardTargetForBackEdge walks from the source of the back edge up  *)
(* the tree edges, which are the edges the stack is examining, as far as   *)
(* the edge's target v, to the first decision statement.                   *)
DecisionsAbove(v) ==
  {n \in 1 .. Len(stack) - 1 :
     /\ IsDecision(stack[n].v)
     /\ \E m \in 1 .. n : stack[m].v = v}

(* FindDifferentOutEdge: the first out-edge that is not the tree edge.     *)
OtherEdges(n) ==
  {k \in DOMAIN order[stack[n].v] : k # stack[n].at}

BackEdge ==
  LET e == Examined
      v == heap.tgt[e]
      n == FS!Max(DecisionsAbove(v))
      Proxy == IF DecisionsAbove(v) = {} THEN Null
               ELSE heap.tgt[order[stack[n].v][FS!Min(OtherEdges(n))]]
  IN
  /\ pc = "dfs" /\ stack # <<>> /\ MoreEdges
  /\ v \in Gray
  /\ IF DecisionsAbove(v) # {} /\ OtherEdges(n) = {}
     THEN (* the iterator past the end is dereferenced *)
          pc' = "crashed" /\ UNCHANGED <<found, stack>>
     ELSE /\ found' = Append(found, [edge |-> e, proxy |-> Proxy])
          /\ stack' = Advanced
          /\ UNCHANGED pc
  /\ UNCHANGED <<prog, i, heap, kinds, back, warned, building, seen, order, pruning>>

FinishVertex ==
  /\ pc = "dfs" /\ stack # <<>> /\ ~MoreEdges
  /\ stack' = SubSeq(stack, 1, Len(stack) - 1)
  /\ UNCHANGED <<prog, pc, i, heap, kinds, back, warned, building, seen, order,
                 found, pruning>>

(* Mutant: a visit from ENTRY instead of a search of the whole graph.      *)
SearchCompleteFromEntry ==
  /\ pc = "dfs" /\ stack = <<>> /\ Entry \in seen
  /\ GoTo("mark")
  /\ UNCHANGED <<prog, heap, kinds, back, warned, building, search, pruning>>

SearchComplete ==
  /\ pc = "dfs" /\ stack = <<>> /\ InGraph \subseteq seen
  /\ GoTo("mark")
  /\ UNCHANGED <<prog, heap, kinds, back, warned, building, search, pruning>>

(* Mutant: the early "continue" comes before the marking.                  *)
MarkBackEdgeUnlessSelf ==
  LET e     == found[i].edge
      src   == heap.src[e]
      proxy == found[i].proxy
  IN
  /\ pc = "mark" /\ i <= Len(found)
  /\ back' = IF proxy = Null THEN back ELSE back \cup {e}
  /\ IF proxy # Null /\ Cardinality(heap.outE[src]) = 1
     THEN /\ Room(1)
          /\ heap' = AddEdge(heap, Self, src, proxy, NewEdge)
          /\ kinds' = Append(kinds, "Impossible")
     ELSE UNCHANGED <<heap, kinds>>
  /\ i' = i + 1
  /\ UNCHANGED <<prog, pc, warned, building, search, pruning>>

(* Mutant: no proxy edges.                                                 *)
MarkBackEdgeOnly ==
  /\ pc = "mark" /\ i <= Len(found)
  /\ back' = back \cup {found[i].edge}
  /\ i' = i + 1
  /\ UNCHANGED <<prog, pc, heap, kinds, warned, building, search, pruning>>

(* A proxy for each back edge that is its source's only out-edge.          *)
MarkBackEdge ==
  LET e     == found[i].edge
      src   == heap.src[e]
      proxy == found[i].proxy
  IN
  /\ pc = "mark" /\ i <= Len(found)
  /\ back' = back \cup {e}
  /\ IF proxy # Null /\ Cardinality(heap.outE[src]) = 1
     THEN /\ Room(1)
          /\ heap' = AddEdge(heap, Self, src, proxy, NewEdge)
          /\ kinds' = Append(kinds, "Impossible")
     ELSE UNCHANGED <<heap, kinds>>
  /\ i' = i + 1
  /\ UNCHANGED <<prog, pc, warned, building, search, pruning>>

-----------------------------------------------------------------------------
(* RemoveRedundantNodes: the loop bypasses, and deletion waits for its end.*)

IsGoto(v) ==
  v > Stmt(MaxLen) /\ prog[v - Linked(0)].op \in {"goto", "return"}

IsTempLabel(v) ==
  /\ v \in Stmt(1) .. Stmt(MaxLen)
  /\ prog[v - Stmt(0)].op = "label" /\ prog[v - Stmt(0)].to[1] \in TempLabels

Removable(v) == IsGoto(v) \/ IsTempLabel(v)

Redundant(h, v) == Cardinality(h.inE[v]) = 1 /\ Cardinality(h.outE[v]) = 1

(* Mutant: compiler labels are never looked at.                            *)
MarkingCompleteGotosOnly ==
  /\ pc = "mark" /\ i > Len(found)
  /\ todo' = {v \in InGraph : IsGoto(v)}
  /\ GoTo("redundant")
  /\ UNCHANGED <<prog, heap, kinds, back, warned, building, search, doomed>>

MarkingComplete ==
  /\ pc = "mark" /\ i > Len(found)
  /\ todo' = {v \in InGraph : Removable(v)}
  /\ GoTo("redundant")
  /\ UNCHANGED <<prog, heap, kinds, back, warned, building, search, doomed>>

(* Mutant: the out-edge survives the bypass and the in-edge goes.          *)
BypassKeepsOutEdge(h, v) ==
  LET inEdge  == CHOOSE e \in h.inE[v]  : TRUE
      outEdge == CHOOSE e \in h.outE[v] : TRUE
  IN RemoveEdge(ChangeSource(h, outEdge, h.src[inEdge]), Self, inEdge)

Bypass(h, v) ==
  LET inEdge  == CHOOSE e \in h.inE[v]  : TRUE
      outEdge == CHOOSE e \in h.outE[v] : TRUE
  IN RemoveEdge(ChangeTarget(h, inEdge, h.tgt[outEdge]), Self, outEdge)

BypassRedundant ==
  /\ pc = "redundant"
  /\ \E v \in todo :
       /\ Redundant(heap, v)
       /\ heap' = Bypass(heap, v)
       /\ todo' = todo \ {v}
       /\ doomed' = IF InDegreeIs0(heap', v) /\ OutDegreeIs0(heap', v)
                    THEN doomed \cup {v}
                    ELSE doomed            \* "STILL HAS EDGES"
  /\ UNCHANGED <<prog, pc, i, kinds, back, warned, building, search>>

KeepNeeded ==
  /\ pc = "redundant"
  /\ \E v \in todo :
       /\ ~Redundant(heap, v)
       /\ todo' = todo \ {v}
  /\ UNCHANGED <<prog, pc, i, heap, kinds, back, warned, building, search, doomed>>

DeleteDoomed ==
  /\ pc = "redundant" /\ todo = {}
  /\ heap' = [heap EXCEPT !.verts[Self] = @ \ doomed]    \* RemoveVertex, one by one
  /\ GoTo("done")
  /\ UNCHANGED <<prog, kinds, back, warned, building, search, pruning>>

(* CreateControlFlowGraph has returned.                                    *)
Returned == pc \in {"done", "crashed"} /\ UNCHANGED vars

Build ==
  \/ AddStatement \/ FallOffTheEnd
  \/ LinkFlowControl \/ LinkingComplete
  \/ AddImpossibleEdge \/ LeadersComplete \/ CheckForNoInEdges \/ AddSelfEdges
  \/ StartVisit \/ TreeEdge \/ ForwardOrCrossEdge \/ BackEdge \/ FinishVertex
  \/ SearchComplete \/ MarkBackEdge
  \/ MarkingComplete \/ BypassRedundant \/ KeepNeeded \/ DeleteDoomed

Next == Build \/ Returned

(* One thread runs the function to its end.                                *)
Spec == Init /\ [][Next]_vars /\ WF_vars(Build)

-----------------------------------------------------------------------------
(* Step applied n times to S.                                              *)
Grow(Step(_), S, n) == FS!FoldSet(LAMBDA k, acc : Step(acc), S, 1 .. n)

(* What the source says: positions 1 .. Len(prog) are the statements, 0 is *)
(* the entry and Len(prog) + 1 the exit.  Arms(p) are the ways control     *)
(* leaves position p.                                                      *)

EndPos   == Len(prog) + 1
LabelPos(l) == CHOOSE p \in DOMAIN prog : prog[p].op = "label" /\ prog[p].to = <<l>>

Arms(p) ==
  IF p = EndPos THEN {}
  ELSE IF p = 0 THEN {<<"Fallthrough", 1>>}
  ELSE CASE prog[p].op = "return" -> {<<"Fallthrough", EndPos>>}
         [] prog[p].op \in {"plain", "label"} -> {<<"Fallthrough", p + 1>>}
         [] OTHER -> {<<ArmKind(prog[p], n), LabelPos(prog[p].to[n])>> :
                        n \in DOMAIN prog[p].to}

PosOf(v) ==
  CASE v = Entry        -> 0
    [] v = Exit         -> EndPos
    [] v > Stmt(MaxLen) -> v - Linked(0)
    [] OTHER            -> v - Stmt(0)

Kept == {PosOf(v) : v \in InGraph}

(* The kept positions control arrives at next once it is at p: it passes   *)
(* through the others, and meets no more than all positions on its way.    *)
Passing(S, kept) == S \cup UNION {{a[2] : a \in Arms(q)} : q \in S \ kept}

Landing(p, kept) ==
  LET Passed[n \in Nat] == IF n = 0 THEN {p} ELSE Passing(Passed[n - 1], kept)
  IN Passed[EndPos + 1] \cap kept

(* The lists the comments take for granted: each label is defined once,    *)
(* each label jumped to is defined, and none goes by the name EXIT, the    *)
(* key of the label map a return is resolved with.                         *)
DefinedOnce(p) ==
  \A m, n \in DOMAIN p :
    (p[m].op = "label" /\ p[n].op = "label" /\ p[m].to = p[n].to) => m = n
TargetsDefined(p) ==
  \A n \in DOMAIN p : \A k \in DOMAIN p[n].to :
    \E m \in DOMAIN p : p[m].op = "label" /\ p[m].to = <<p[n].to[k]>>
NoneNamedExit(p) == \A n \in DOMAIN p : p[n].op = "label" => p[n].to # <<"EXIT">>
WellLabelled(p)  == DefinedOnce(p) /\ TargetsDefined(p) /\ NoneNamedExit(p)

IsReal(e) == kinds[e] # "Impossible"

RealArms(v) == {<<kinds[e], PosOf(heap.tgt[e])>> : e \in {x \in heap.outE[v] : IsReal(x)}}

(* The finished graph has exactly the control flow of the source: leaving  *)
(* aside Impossible edges, each statement kept leads, by an edge of the    *)
(* right kind, to the next statements kept, whichever vertices the removal *)
(* visited first and however Gotos and labels follow one another.          *)
FlowPreserved ==
  (pc = "done" /\ WellLabelled(prog)) =>
     \A v \in InGraph :
       RealArms(v) = UNION {{<<a[1], q>> : q \in Landing(a[2], Kept)} : a \in Arms(PosOf(v))}

(* Linking replaces vertices whose descriptors are still in the leader     *)
(* list, and the removal deletes vertices its loop has just re-linked.     *)
(* What hangs on a vertex that left the graph is at most an Impossible     *)
(* edge: all others have moved, and both ends of every edge know it.  Once *)
(* every jump was resolved, a walk of the graph cannot leave it either.    *)
Gone == {v \in Vertices : heap.index[v] # NoIndex} \ InGraph
NoDanglingEdges ==
  /\ EndsAgree(heap)
  /\ \A e \in GraphEdges :
       /\ heap.src[e] \in Gone \/ heap.tgt[e] \in Gone => ~IsReal(e)
       /\ heap.tgt[e] \in Gone /\ TargetsDefined(prog) => heap.src[e] \in Gone

(* The variables hold what their names say, and the graph hangs together.  *)
GraphWellFormed == TypeOK /\ NoDanglingEdges

(* From the search on, every vertex still in use has a way in, unless it   *)
(* stands for a jump that begins a block: none is lost by falling through, *)
(* by linking, by the Impossible edges of Function.cpp:782 or by the order *)
(* in which superfluous vertices go.  Of the jumps that begin a block this *)
(* says nothing: Function.cpp:748 would give those an Impossible edge and  *)
(* Function.cpp:680 would watch for them too, but the list holds the       *)
(* object that linking has replaced, and the edge goes there.              *)
RelinkedLeaders == {Linked(v - 1) : v \in Watched}
LeadersHaveWayIn ==
  pc \in {"dfs", "mark", "redundant", "done"} =>
    \A v \in InGraph \ (doomed \cup RelinkedLeaders) : ~InDegreeIs0(heap, v)

(* The edges between vertices of the graph that are not marked.            *)
ForwardEdges(h, marked) ==
  {e \in h.edges[Self] \ marked : h.src[e] \in h.verts[Self]}

(* The vertices of S an edge comes to from within S.                       *)
Cyclic(S, h, marked) ==
  {v \in S : \E e \in ForwardEdges(h, marked) : h.tgt[e] = v /\ h.src[e] \in S}

(* Peeling off vertices without a remaining in-edge leaves only cycles.    *)
AcyclicWithout(h, marked) ==
  LET Left[n \in Nat] ==
        IF n = 0 THEN h.verts[Self] ELSE Cyclic(Left[n - 1], h, marked)
  IN Left[Cardinality(h.verts[Self])] = {}

(* When the search ends, the edges it found cut every cycle of the graph,  *)
(* also those in code that cannot be reached from ENTRY.                   *)
FoundEdgesCutCycles ==
  (pc = "mark" /\ i = 1) => AcyclicWithout(heap, {found[n].edge : n \in DOMAIN found})

(* One pass is enough: whatever the order of the pass, no Goto or compiler *)
(* label with a single way in and a single way out is left.                *)
NothingRedundantLeft ==
  pc = "done" => \A v \in InGraph : Removable(v) => ~Redundant(heap, v)

(* With every jump resolved the construction runs to its end.  On the way  *)
(* FindDifferentOutEdge never dereferences the iterator past the last      *)
(* edge: each decision above a back edge has a second arm when the search  *)
(* asks for it, whatever was linked, drawn or walked before.               *)
ConstructionEnds == TargetsDefined(prog) => <>(pc = "done")

(* cfg_algs.h:29, cfg_algs.cpp:82: all back edges are marked, so that a    *)
(* topological visit which ignores the marked edges meets no cycle.        *)
ForwardAcyclic == pc = "done" => AcyclicWithout(heap, back)

(* Function.cpp:687: EXIT post-dominates all vertices, also for a visit    *)
(* which ignores the back edges.                                           *)
ReachesExit ==
  Grow(LAMBDA S : S \cup {heap.src[e] : e \in {x \in ForwardEdges(heap, back) : heap.tgt[x] \in S}},
       {Exit}, Cardinality(InGraph))
ExitPostDominates == pc = "done" => InGraph \subseteq ReachesExit

(* CFGEdgeTypeBase.h:54: a back edge, once determined, stays known as one: *)
(* removing superfluous vertices closes no unmarked cycle.                 *)
KeepsMarks ==
  (pc = "redundant" /\ AcyclicWithout(heap, back))
     => \E h \in {heap'} : AcyclicWithout(h, back)
=============================================================================
