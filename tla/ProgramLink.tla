---------------------------- MODULE ProgramLink ----------------------------
(***************************************************************************)
(* Function::Link, run over every function of a program after all files    *)
(* have been parsed.  A function is linked in two passes: the first lists  *)
(* the calls to be resolved, because a replacement would invalidate its    *)
(* iterator; the second replaces each listed vertex and adds the edges     *)
(* that lead into the called function and back.                            *)
(*                                                                         *)
(* The passes work on the pointer structure of GraphOps, one graph for     *)
(* each function.  The return edge is held by the graph of the callee and  *)
(* ends at a vertex of the caller, which may be a call that a later turn   *)
(* replaces.                                                               *)
(***************************************************************************)
EXTENDS LinkedProgram

CONSTANT
  Programs   \* the programs to link: the body of each function, by its name

(* A program is finite.  Statements are numbered, and a call, which is     *)
(* neither ENTRY nor EXIT, has one edge to go on by.                       *)
ASSUME ProgramsAssumption ==
  \A p \in Programs :
    /\ IsFiniteSet(VerticesOf(p)) /\ "" \notin DOMAIN p
    /\ \A f \in DOMAIN p :
         /\ \A a \in p[f].arcs : a.from \in Nat /\ a.to \in Nat /\ a.kind \in ArcKind
         /\ \A n \in DOMAIN p[f].calls :
              /\ n \in Nat \ {0, 1}
              /\ \E a \in p[f].arcs :
                   {b \in p[f].arcs : b.from = n /\ b.kind # "impossible"} = {a}

-----------------------------------------------------------------------------
(* The objects.  A statement is the object the parser made of it; a call   *)
(* that is resolved gets an object of another class.                       *)

Parsed(at)     == [at |-> at, class |-> "parsed"]
ResolvedAt(at) == [at |-> at, class |-> "FunctionCallResolved"]

(* The edges of a function's own graph, and the two linking makes.         *)
CallEdge(c)   == [kind |-> "call", call |-> c]
ReturnEdge(c) == [kind |-> "return", call |-> c]

Functions == UNION {DOMAIN p : p \in Programs}
Objects ==
  UNION {{Parsed(v) : v \in VerticesOf(p)} \cup {ResolvedAt(c) : c \in Resolved(p)}
           : p \in Programs}
EdgeObjects ==
  UNION {OwnEdges(p) \cup {CallEdge(c) : c \in Resolved(p)}
         \cup {ReturnEdge(c) : c \in Resolved(p)} : p \in Programs}
Null == [at |-> NoCall, class |-> "NULL"]

INSTANCE GraphOps
  WITH GraphId <- Functions, Vertex <- Objects, Edge <- EdgeObjects, NULL <- Null

VARIABLES
  prog,        \* the bodies of the functions
  heap,        \* the objects of all graphs
  left,        \* the functions whose Link has not been called
  current,     \* the function being linked, "" between two
  unseen,      \* the calls the first pass has not reached
  pairs,       \* vertex_replacement_info, by the call
  unresolved   \* unresolved_function_calls

vars == <<prog, heap, left, current, unseen, pairs, unresolved>>

-----------------------------------------------------------------------------
(* The graphs as CreateControlFlowGraph leaves them, numbered as there.    *)

OwnVertices(f) == {Parsed(v) : v \in {w \in VerticesOf(prog) : w[1] = f}}

Highest(f) ==
  CHOOSE n \in {v.at[2] : v \in OwnVertices(f)} :
    \A v \in OwnVertices(f) : v.at[2] <= n

ParsedHeap ==
  [ verts  |-> [f \in Functions |-> OwnVertices(f)],
    edges  |-> [f \in Functions |-> {e \in OwnEdges(prog) : e.from[1] = f}],
    nextId |-> [f \in Functions |-> IF f \in DOMAIN prog THEN Highest(f) + 1 ELSE 0],
    inE    |-> [v \in Objects |-> {e \in OwnEdges(prog) : Parsed(e.to) = v}],
    outE   |-> [v \in Objects |-> {e \in OwnEdges(prog) : Parsed(e.from) = v}],
    index  |-> [v \in Objects |-> IF v \in OwnVertices(v.at[1]) THEN v.at[2] ELSE NoIndex],
    src    |-> [e \in EdgeObjects |-> IF e \in OwnEdges(prog) THEN Parsed(e.from) ELSE Null],
    tgt    |-> [e \in EdgeObjects |-> IF e \in OwnEdges(prog) THEN Parsed(e.to) ELSE Null] ]

Init ==
  /\ prog \in Programs
  /\ heap = ParsedHeap
  /\ left = DOMAIN prog /\ current = ""
  /\ unseen = {} /\ pairs = <<>> /\ unresolved = {}

-----------------------------------------------------------------------------
(* The files and the functions in them come in any order.                  *)
LinkFunction ==
  /\ current = ""
  /\ \E f \in left :
       /\ current' = f /\ left' = left \ {f}
       /\ unseen' = {v.at : v \in {w \in heap.verts[f] :
                               w.class = "parsed" /\ w.at \in CallSites(prog)}}
  /\ UNCHANGED <<prog, heap, pairs, unresolved>>

(* Mutant: each file is linked when it has been parsed.                    *)
ListCallSoFar ==
  \E c \in unseen :
    /\ unseen' = unseen \ {c}
    /\ \/ /\ Callee(prog, c) \in DOMAIN prog \ left
          /\ pairs' = Append(pairs, c)
          /\ UNCHANGED unresolved
       \/ /\ Callee(prog, c) \notin DOMAIN prog \ left
          /\ unresolved' = unresolved \cup {c}
          /\ UNCHANGED pairs
    /\ UNCHANGED <<prog, heap, left, current>>

(* The first pass, in the order of the hash set of vertices.               *)
ListCall ==
  \E c \in unseen :
    /\ unseen' = unseen \ {c}
    /\ \/ /\ Callee(prog, c) \in DOMAIN prog
          /\ pairs' = Append(pairs, c)
          /\ UNCHANGED unresolved
       \/ /\ Callee(prog, c) \notin DOMAIN prog
          /\ unresolved' = unresolved \cup {c}
          /\ UNCHANGED pairs
    /\ UNCHANGED <<prog, heap, left, current>>

(* Mutant: the first out-edge of any class.                                *)
FallthroughsOfAnyClass(h, v) == h.outE[v]

(* Vertex::GetFirstOutEdgeOfType<CFGEdgeTypeFallthrough>.                  *)
Fallthroughs(h, v) == {e \in h.outE[v] : e.kind \in {"plain", "back"}}

(* The second pass.                                                        *)
ReplaceCall ==
  /\ current # "" /\ unseen = {} /\ pairs # <<>>
  /\ LET c      == Head(pairs)
         fcr    == ResolvedAt(c)
         callee == Callee(prog, c)
         placed == ReplaceVertex(heap, current, Parsed(c), fcr)
         called == AddEdge(placed, current, fcr, Parsed(EntryOf(callee)), CallEdge(c))
     IN \E through \in Fallthroughs(placed, fcr) :
          heap' = AddEdge(called, callee, Parsed(ExitOf(callee)),
                          called.tgt[through], ReturnEdge(c))
  /\ pairs' = Tail(pairs)
  /\ UNCHANGED <<prog, left, current, unseen, unresolved>>

FunctionLinked ==
  /\ current # "" /\ unseen = {} /\ pairs = <<>>
  /\ current' = ""
  /\ UNCHANGED <<prog, heap, left, unseen, pairs, unresolved>>

Linked == left = {} /\ current = ""

Next == LinkFunction \/ ListCall \/ ReplaceCall \/ FunctionLinked

(* One thread, which runs until Program::Parse returns.                    *)
Spec == Init /\ [][Next]_vars /\ WF_vars(Next)

-----------------------------------------------------------------------------
TypeOK ==
  /\ prog \in Programs
  /\ heap \in Heaps
  /\ left \subseteq DOMAIN prog /\ current \in DOMAIN prog \cup {""}
  /\ unseen \subseteq CallSites(prog)
  /\ pairs \in Seq(Resolved(prog))
  /\ unresolved \subseteq CallSites(prog)

(* Function.cpp:151-152: once its callers are deleted no edge, of whatever *)
(* graph, may still end at one: the ends of every edge are vertices some   *)
(* graph holds, they list the edge, and no object has two graphs.  What is *)
(* listed for the second pass are calls that can be resolved.              *)
LinkedConsistent == TypeOK /\ Consistent(heap)

(* A call comes back to the vertex its caller continues at, also after     *)
(* that vertex, itself a call, has been replaced: its return edge, which   *)
(* is another graph's, must have been moved with the rest.                 *)
ReturnsRejoin ==
  \A c \in Resolved(prog) :
    ReturnEdge(c) \in PlacedEdges(heap) =>
      \A through \in Fallthroughs(heap, ResolvedAt(c)) :
        heap.tgt[ReturnEdge(c)] = heap.tgt[through]

(* The calls reported as unresolved are those to functions no file         *)
(* defines, and every other call has the class the later passes look for,  *)
(* whatever the order of files, functions and vertices.                    *)
UnresolvedExact ==
  Linked =>
    /\ unresolved = CallSites(prog) \ Resolved(prog)
    /\ PlacedVertices(heap) =
         {Parsed(v) : v \in VerticesOf(prog) \ Resolved(prog)}
         \cup {ResolvedAt(c) : c \in Resolved(prog)}

(* What the edges of the heap say, whatever object an end has become: they *)
(* are at each moment those of some calls linked and some not, and in the  *)
(* end those LinkedProgram starts from.                                    *)
ArcOf(e) ==
  IF "to" \in DOMAIN e
  THEN [e EXCEPT !.from = heap.src[e].at, !.to = heap.tgt[e].at]
  ELSE [from |-> heap.src[e].at, to |-> heap.tgt[e].at, kind |-> e.kind, call |-> e.call]

Abstract == INSTANCE Linking WITH arcs <- {ArcOf(e) : e \in PlacedEdges(heap)}
ImplementsLinking == Abstract!Spec
=============================================================================
