--------------------------- MODULE MCReachability ---------------------------
(***************************************************************************)
(* Constraints that start at main, over programs of a main function and    *)
(* two functions below it, g and h.                                        *)
(***************************************************************************)
EXTENDS ReachabilitySearch, ProgramShapes

(* Every call returns.                                                     *)
EndingPrograms == Layered(Ending({"g", "h"}), Ending({"h"}), {Branch})

(* g never returns, and main does not call it from a loop.                 *)
EndlessCallee ==
  Layered({Both("g", "h"), Both("h", "g"), Either("g", "h"), Both("g", "g")},
          Endless({"h", "external"}), {Leaf, Branch})

(* h is called and returns twice before k is reached.                      *)
CalledTwice == Layered({Both("g", "k"), Either("g", "k")}, {Both("h", "h")}, {Leaf, Branch})

Checked == EndingPrograms \cup EndlessCallee \cup CalledTwice
=============================================================================
