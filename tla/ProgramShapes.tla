---------------------------- MODULE ProgramShapes ----------------------------
(***************************************************************************)
(* Small linked programs: functions whose graphs are those                 *)
(* CreateControlFlowGraph builds for the C source quoted, with every       *)
(* choice of callee.                                                       *)
(***************************************************************************)
EXTENDS LinkedProgram, TLC

Arc(a, b, k) == [from |-> a, to |-> b, kind |-> k]
Body(arcs, calls) == [arcs |-> arcs, calls |-> calls]

(* {}      { a(); b(); }      if(c) a(); else b();                         *)
Leaf == Body({Arc(0, 1, "plain")}, <<>>)
Both(a, b) ==
  Body({Arc(0, 2, "plain"), Arc(2, 3, "plain"), Arc(3, 1, "plain")}, 2 :> a @@ 3 :> b)
Either(a, b) ==
  Body({Arc(0, 2, "plain"), Arc(2, 3, "plain"), Arc(2, 4, "plain"),
        Arc(3, 5, "plain"), Arc(4, 5, "plain"), Arc(5, 1, "plain")}, 3 :> a @@ 4 :> b)

(* while(c) a();      while(c) { a(); b(); }      while(1) a();            *)
Loop(a) ==
  Body({Arc(0, 2, "plain"), Arc(2, 3, "plain"), Arc(3, 4, "plain"), Arc(3, 5, "plain"),
        Arc(4, 2, "back"), Arc(4, 5, "impossible"), Arc(5, 1, "plain")}, 4 :> a)
LoopBoth(a, b) ==
  Body({Arc(0, 2, "plain"), Arc(2, 3, "plain"), Arc(3, 4, "plain"), Arc(3, 6, "plain"),
        Arc(4, 5, "plain"), Arc(5, 2, "back"), Arc(5, 6, "impossible"), Arc(6, 1, "plain")},
       4 :> a @@ 5 :> b)
Forever(a) ==
  Body({Arc(0, 2, "plain"), Arc(2, 3, "plain"), Arc(3, 2, "plain")}, 3 :> a)

(* if(c) { a(); return; } b();                                             *)
EarlyReturn(a, b) ==
  Body({Arc(0, 2, "plain"), Arc(2, 3, "plain"), Arc(2, 4, "plain"),
        Arc(3, 1, "plain"), Arc(4, 1, "plain")}, 3 :> a @@ 4 :> b)

(* if(c && d) a(); else b();                                               *)
EitherAnd(a, b) ==
  Body({Arc(0, 2, "plain"), Arc(2, 3, "plain"), Arc(2, 5, "plain"), Arc(3, 4, "plain"),
        Arc(3, 5, "plain"), Arc(4, 6, "plain"), Arc(5, 6, "plain"), Arc(6, 1, "plain")},
       4 :> a @@ 5 :> b)

Ending(C)  == {Leaf} \cup {Both(a, b) : a, b \in C} \cup {Either(a, b) : a, b \in C}
              \cup {Loop(a) : a \in C}
Endless(C) == {Forever(a) : a \in C}

(* "external" is never defined.                                            *)
Layered(M, G, H) ==
  {"main" :> m @@ "g" :> g @@ "h" :> h @@ "k" :> Leaf : m \in M, g \in G, h \in H}

Branch == Either("external", "external")
=============================================================================
