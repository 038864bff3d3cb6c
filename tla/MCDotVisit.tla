----------------------------- MODULE MCDotVisit -----------------------------
(***************************************************************************)
(* Drawings of main: every shape, with calls to itself, to a function that *)
(* calls it back, to an endless one and to an unknown one.                 *)
(***************************************************************************)
EXTENDS DotVisit, ProgramShapes

Names  == {"main", "g", "external"}
Bodies ==
  {Leaf} \cup UNION {{Both(a, b), Either(a, b), LoopBoth(a, b), EarlyReturn(a, b),
                      EitherAnd(a, b)} : a, b \in Names}
  \cup UNION {{Loop(a), Forever(a)} : a \in Names}
Checked == {"main" :> m @@ "g" :> g : m \in Bodies, g \in {Either("main", "g"), Forever("main")}}
=============================================================================
