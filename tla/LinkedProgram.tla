---------------------------- MODULE LinkedProgram ----------------------------
(***************************************************************************)
(* The graph a whole program has once TranslationUnit::Link has run        *)
(* Function::Link over every function: the control flow graphs of the      *)
(* functions, connected by a call edge and a return edge for each call to  *)
(* a function whose source was parsed.                                     *)
(*                                                                         *)
(* A function's own graph is a set of arcs between numbers, with ENTRY 0   *)
(* and EXIT 1, and the numbers at which it calls something.  An arc is     *)
(* "plain", "back" (marked by FixupBackEdges) or "impossible".  The marked *)
(* self edges of ENTRY and EXIT, which every walk skips, are left out.     *)
(***************************************************************************)
EXTENDS Integers, Sequences, FiniteSets

EntryOf(f) == <<f, 0>>
ExitOf(f)  == <<f, 1>>

NoCall == <<"none", 0>>

ArcKind  == {"plain", "back", "impossible"}
EdgeKind == ArcKind \cup {"call", "return"}

(* The call sites of a program, and the ones Function::Link can resolve.   *)
CallSites(bodies) ==
  UNION {{<<f, n>> : n \in DOMAIN bodies[f].calls} : f \in DOMAIN bodies}
Callee(bodies, c) == bodies[c[1]].calls[c[2]]
Resolved(bodies)  == {c \in CallSites(bodies) : Callee(bodies, c) \in DOMAIN bodies}

(* A call site's only fallthrough edge, which may be a back edge; the      *)
(* proxy of that back edge is of another class.                            *)
ReturnPoint(bodies, c) ==
  LET a == CHOOSE x \in bodies[c[1]].arcs : x.from = c[2] /\ x.kind # "impossible"
  IN <<c[1], a.to>>

OwnEdges(bodies) ==
  UNION {{[from |-> <<f, a.from>>, to |-> <<f, a.to>>, kind |-> a.kind, call |-> NoCall]
            : a \in bodies[f].arcs} : f \in DOMAIN bodies}

(* The call and return edges are new: nobody marks one as a back edge.     *)
LinkEdges(bodies) ==
  UNION {{[from |-> c, to |-> EntryOf(Callee(bodies, c)), kind |-> "call", call |-> c],
          [from |-> ExitOf(Callee(bodies, c)), to |-> ReturnPoint(bodies, c),
           kind |-> "return", call |-> c]} : c \in Resolved(bodies)}

EdgesOf(bodies)    == OwnEdges(bodies) \cup LinkEdges(bodies)
VerticesOf(bodies) ==
  {EntryOf(f) : f \in DOMAIN bodies} \cup {ExitOf(f) : f \in DOMAIN bodies}
  \cup UNION {{e.from, e.to} : e \in EdgesOf(bodies)}
OutEdges(edges, v) == {e \in edges : e.from = v}
InEdges(edges, v)  == {e \in edges : e.to = v}

-----------------------------------------------------------------------------
(* A hash set's order of iteration is anything, but stays what it is once  *)
(* it has been seen: the ways to extend the known orders o by that of v.   *)
Orderings(S) ==
  {s \in [1 .. Cardinality(S) -> S] : \A m, n \in 1 .. Cardinality(S) : s[m] = s[n] => m = n}
OrdersWith(edges, o, v) ==
  IF v \in DOMAIN o THEN {o}
  ELSE {[w \in DOMAIN o \cup {v} |-> IF w = v THEN s ELSE o[w]] :
          s \in Orderings(OutEdges(edges, v))}
=============================================================================
