--------------------------- MODULE MCProgramLink ---------------------------
(***************************************************************************)
(* Programs of two and three functions for Function::Link: every choice of *)
(* callees, recursion and calls in a row among them.                       *)
(***************************************************************************)
EXTENDS ProgramLink, ProgramShapes

Names == {"main", "g", "external"}

(* main and g, each calling itself, the other or an unknown function.      *)
Pairs ==
  LET Bodies == {Leaf} \cup {Both(a, b) : a, b \in Names} \cup {Loop(a) : a \in Names}
                \cup {Forever(a) : a \in Names} \cup {Either(a, b) : a, b \in Names}
  IN {"main" :> m @@ "g" :> g : m, g \in Bodies}

(* Two callers of a third function.                                        *)
Shared ==
  {"main" :> m @@ "g" :> Both("h", "main") @@ "h" :> h :
     m \in {Both("g", "h"), LoopBoth("h", "g")}, h \in {Leaf, Loop("g")}}

Checked == Pairs \cup Shared
=============================================================================
