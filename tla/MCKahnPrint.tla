----------------------------- MODULE MCKahnPrint -----------------------------
(***************************************************************************)
(* Printing main, over programs of three functions in which no loop ends   *)
(* with a call that is resolved.                                           *)
(***************************************************************************)
EXTENDS KahnPrint, ProgramShapes

Loops(C) == {Loop("external")} \cup {LoopBoth(a, "external") : a \in C}

(* Calls down; one function may be called twice, also from two branches.   *)
Descending ==
  Layered({Both("g", "h"), Both("g", "g")} \cup Loops({"g"})
            \cup {Either("g", "h"), Either("g", "g"), EarlyReturn("g", "g"), EitherAnd("g", "h")},
          {Leaf, Both("h", "external"), Either("h", "h"), EitherAnd("external", "h")}
            \cup Loops({"h"}),
          {Leaf})

(* Calls back up to the caller, or to the function itself, where no branch *)
(* of it is open.                                                          *)
Recurring ==
  Layered({Both("g", "h"), Both("main", "g")},
          {Both("main", "h"), Both("g", "main"), Both("h", "g")},
          {Leaf, Both("h", "external")})
  \cup Layered({Both("g", "h")}, {Both("main", "h")}, {Both("main", "g")})

(* while(1) h(); in a callee: the walk ends early.                         *)
Truncated == Layered({Both("g", "h"), Either("g", "h")}, {Forever("h")}, {Leaf})

Checked == Descending \cup Recurring \cup Truncated

(* while(c) g();                                                           *)
LoopCall == Layered({Loop("g")}, {Leaf}, {Leaf})

(* main: g(); external();                                                  *)
JustPrint == Layered({Both("g", "external")}, {Leaf}, {Leaf})
=============================================================================
