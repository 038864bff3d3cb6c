------------------------------ MODULE KahnPrint ------------------------------
(***************************************************************************)
(* How Function::PrintControlFlowGraph prints a function with everything   *)
(* it calls: topological_visit_kahn visits a vertex when all edges into it *)
(* have been removed, and FunctionCFGVisitor decides which edges exist,    *)
(* keeps a stack of the calls it is inside, and prints brackets.           *)
(*                                                                         *)
(* How many edges of a vertex remain is kept in one map for the whole      *)
(* walk, although a function may be entered many times: an entry which     *)
(* reaches zero is erased, and the next activation starts afresh.          *)
(***************************************************************************)
EXTENDS LinkedProgram

CONSTANTS
  Programs,    \* the programs, each a function from names to graphs
  Printed,     \* functions --cfg may name
  MaxPending   \* bound: the edges memory has room for

ASSUME MaxPendingAssumption == MaxPending \in Nat \ {0}

(* A program is finite, no call of it is the null pointer, an ENTRY or an  *)
(* EXIT, and each has an edge to go on by.                                 *)
ASSUME ProgramsAssumption ==
  \A p \in Programs :
    /\ IsFiniteSet(EdgesOf(p))
    /\ NoCall \notin CallSites(p)
    /\ \A f \in DOMAIN p :
         /\ \A a \in p[f].arcs : a.kind \in ArcKind
         /\ \A n \in DOMAIN p[f].calls :
              /\ n \notin {0, 1}
              /\ \E a \in p[f].arcs : a.from = n /\ a.kind # "impossible"

VARIABLES
  prog,       \* the program
  edges,      \* its edges once it is linked
  target,     \* the function printed
  order,      \* the order in which the out-edges of a vertex are walked
  pending,    \* no_remaining_in_edges_set, a stack of edges
  remaining,  \* in_degree_map, without the entries it has erased
  calls,      \* m_call_stack: the call that pushed each frame
  entered,    \* m_call_set
  level,      \* m_indent_level
  visits,     \* how often each vertex has been visited
  status      \* "running", "done", "crashed" or "exhausted"

given == <<prog, edges, target>>
vars  == <<given, order, pending, remaining, calls, entered, level, visits, status>>

TypeOK ==
  LET V == DOMAIN visits IN
  /\ prog \in Programs /\ target \in Printed
  /\ \A e \in edges : e.from \in V /\ e.to \in V /\ e.kind \in EdgeKind
  /\ \A v \in DOMAIN order : v \in V /\ order[v] \in Orderings(OutEdges(edges, v))
  /\ \A n \in DOMAIN pending : pending[n].to \in V
  /\ DOMAIN remaining \subseteq V
  /\ \A v \in DOMAIN remaining : remaining[v] \in Int \ {0}
  /\ \A n \in DOMAIN calls : calls[n] \in CallSites(prog) \cup {NoCall}
  /\ entered \subseteq DOMAIN prog
  /\ level \in Int
  /\ \A v \in V : visits[v] \in Nat
  /\ status \in {"running", "done", "crashed", "exhausted"}

-----------------------------------------------------------------------------
Last(s)  == s[Len(s)]
Front(s) == SubSeq(s, 1, Len(s) - 1)

(* Mutant: the proxies of back edges do not count.                         *)
FilteredInDegreePlain(v) ==
  Cardinality({e \in InEdges(edges, v) : e.kind = "plain"})
  + IF \E e \in InEdges(edges, v) : e.kind = "call" THEN 1 ELSE 0

(* filtered_in_degree: back edges do not count, returns are counted by the *)
(* call's own fallthrough, all calls of a function count as one.           *)
FilteredInDegree(v) ==
  Cardinality({e \in InEdges(edges, v) : e.kind \in {"plain", "impossible"}})
  + IF \E e \in InEdges(edges, v) : e.kind = "call" THEN 1 ELSE 0

(* An if or a switch with two different ways to go.                        *)
IsDecision(v) ==
  Cardinality({e \in OutEdges(edges, v) : e.kind \in {"plain", "back"}}) > 1

(* SparsePropertyMap: zero is no entry, and no entry is the full degree.   *)
Remaining(m, v) == IF v \in DOMAIN m THEN m[v] ELSE FilteredInDegree(v)

(* Mutant: a count that reaches zero stays in the map.                     *)
PutRemainingKeepingZero(m, v, n) ==
  [w \in DOMAIN m \cup {v} |-> IF w = v THEN n ELSE m[w]]

PutRemaining(m, v, n) ==
  LET D == IF n = 0 THEN DOMAIN m \ {v} ELSE DOMAIN m \cup {v}
  IN [w \in D |-> IF w = v THEN n ELSE m[w]]

(* The edge the walk starts with is ENTRY's edge to itself.                *)
EntrySelfEdge(f) ==
  [from |-> EntryOf(f), to |-> EntryOf(f), kind |-> "back", call |-> NoCall]

Init ==
  /\ prog \in Programs /\ edges = EdgesOf(prog)
  /\ target \in Printed \cap DOMAIN prog
  /\ order = <<>>
  /\ pending = <<EntrySelfEdge(target)>>
  /\ remaining = <<>>
  /\ calls = <<NoCall>> /\ entered = {}
  /\ level = 0
  /\ visits = [v \in VerticesOf(prog) |-> 0]
  /\ status = "running"

-----------------------------------------------------------------------------
(* discover_vertex.                                                        *)

(* An if's or switch's arm opens a brace; a vertex where more than two     *)
(* edges meet closes the ones that have not been closed.                   *)
Opened(e) ==
  LET fid == FilteredInDegree(e.to)
  IN  (IF e.to = EntryOf(e.to[1]) THEN 1 ELSE 0)
      + (IF fid = 1 /\ IsDecision(e.from) THEN 1
         ELSE IF fid > 2 THEN 2 - fid ELSE 0)

IsResolvedCall(v) == v \in Resolved(prog)

(* Mutant: only a function that calls itself is noticed.                   *)
RecursiveDirectly(v) == IsResolvedCall(v) /\ Callee(prog, v) = v[1]

Recursive(v) == IsResolvedCall(v) /\ Callee(prog, v) \in entered

CallsAt(v) ==
  IF IsResolvedCall(v) /\ ~Recursive(v) THEN Append(calls, v) ELSE calls
EnteredAt(v) ==
  IF IsResolvedCall(v) THEN entered \cup {Callee(prog, v)} ELSE entered

(* Mutant: back edges are walked.                                          *)
WalkedBackEdges(e) ==
  CASE e.kind = "return" -> e.call = Last(CallsAt(e.from))
    [] e.kind = "call"   -> ~Recursive(e.from)
    [] e.kind = "plain"  -> IsResolvedCall(e.from) => Recursive(e.from)
    [] OTHER             -> TRUE

(* examine_edge: a return is walked only as the return of the call on top  *)
(* of the stack; a call's own fallthrough only if the call is recursive,   *)
(* and then instead of the call.                                           *)
Walked(e) ==
  CASE e.kind = "back"   -> FALSE
    [] e.kind = "return" -> e.call = Last(CallsAt(e.from))
    [] e.kind = "call"   -> ~Recursive(e.from)
    [] e.kind = "plain"  -> IsResolvedCall(e.from) => Recursive(e.from)
    [] OTHER             -> TRUE

(* An edge is removed; one that was the last into its target is pushed.    *)
RemoveEdge(acc, e) ==
  LET n == Remaining(acc.map, e.to) - 1
  IN  [map    |-> PutRemaining(acc.map, e.to, n),
       pushed |-> IF n = 0 THEN Append(acc.pushed, e) ELSE acc.pushed]

(* The edges out of a vertex, one by one.                                  *)
Removal(out) ==
  LET after[n \in 0 .. Len(out)] ==
        IF n = 0 THEN [map |-> remaining, pushed |-> <<>>]
        ELSE IF Walked(out[n]) THEN RemoveEdge(after[n - 1], out[n])
        ELSE after[n - 1]
  IN  after[Len(out)]

(* Mutant: a branch that ends at a merge is left open.                     *)
ClosedUnlessMerge(pushed) == IF pushed = <<>> THEN 1 ELSE 0

(* vertex_visit_complete: a vertex which pushes nothing ends its branch,   *)
(* and so does one whose only successor is a merge.                        *)
Closed(pushed) ==
  IF \/ pushed = <<>>
     \/ Len(pushed) = 1 /\ FilteredInDegree(pushed[1].to) > 1
  THEN 1 ELSE 0

Visit ==
  LET e == Last(pending)
      v == e.to
      IsExit == v = ExitOf(v[1])
  IN
  /\ status = "running" /\ pending # <<>>
  /\ visits' = [visits EXCEPT ![v] = @ + 1]
  /\ \E o \in OrdersWith(edges, order, v) : \E r \in {Removal(o[v])} :
       /\ order' = o
       /\ remaining' = r.map
       /\ IF Len(pending) - 1 + Len(r.pushed) > MaxPending
          THEN (* no memory for another edge *)
               /\ status' = "exhausted"
               /\ UNCHANGED <<pending, calls, entered, level>>
          ELSE /\ pending' = Front(pending) \o r.pushed
               /\ IF IsExit /\ Last(calls) = NoCall
                  THEN (* PopCallStack looks into the call of a frame without one *)
                       /\ status' = "crashed"
                       /\ level' = level + Opened(e)
                       /\ UNCHANGED <<calls, entered>>
                  ELSE /\ calls'   = IF IsExit THEN Front(calls) ELSE CallsAt(v)
                       /\ entered' = IF IsExit THEN entered \ {Callee(prog, Last(calls))}
                                     ELSE EnteredAt(v)
                       /\ level'   = level + Opened(e)
                                     - (IF IsExit THEN 1 ELSE 0)
                                     - (IF v = ExitOf(target) THEN 0 ELSE Closed(r.pushed))
                       /\ UNCHANGED status
  /\ UNCHANGED given

Finish ==
  /\ status = "running" /\ pending = <<>>
  /\ status' = "done"
  /\ UNCHANGED <<given, order, pending, remaining, calls, entered, level, visits>>

Printing == Visit \/ Finish

Printout == status # "running" /\ UNCHANGED vars

Next == Printing \/ Printout

Spec == Init /\ [][Next]_vars /\ WF_vars(Printing)

-----------------------------------------------------------------------------
(* topological_visit_kahn.h:94: a vertex is visited after the vertices     *)
(* before it, in each activation of its function: no vertex was ever       *)
(* visited more often than one that leads to it.  The counts of the edges  *)
(* that remain, zero being none, and all else hold what their names say.   *)
PredecessorsFirst ==
  /\ TypeOK
  /\ \A e \in edges :
       e.kind \in {"plain", "impossible"} => visits[e.from] >= visits[e.to]

(* When the walk arrives at the end of the function printed, nothing is    *)
(* left over, neither edges nor counts; every function has been walked     *)
(* whole each time it was entered.                                         *)
PrintedWhole ==
  status = "crashed" =>
    /\ pending = <<>> /\ remaining = <<>>
    /\ \A v \in DOMAIN visits :
         v # ExitOf(v[1]) => visits[v] = visits[EntryOf(v[1])]

(* The set that stands for the functions on the call stack is the set of   *)
(* functions on the call stack, each of them once: recursion is cut.       *)
CallSetMatchesStack ==
  /\ calls[1] = NoCall
  /\ entered = {Callee(prog, calls[n]) : n \in 2 .. Len(calls)}
  /\ Cardinality(entered) = Len(calls) - 1

(* Every bracket and brace opened inside the function has been closed when *)
(* its own closing bracket is due.                                         *)
BracketsBalanced == status = "crashed" => level = 1

(* The walk ends.                                                          *)
PrintEnds == <>(status \in {"done", "crashed"})

(* testsuite.at: printing a function is survived.                          *)
PrintReturns == status # "crashed"
=============================================================================
