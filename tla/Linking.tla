------------------------------ MODULE Linking ------------------------------
(***************************************************************************)
(* What linking a program promises: starting from the graphs of the        *)
(* functions, each call to a function of the program gets its call edge    *)
(* and its return edge, both at once, and in the end every one has them.   *)
(***************************************************************************)
EXTENDS LinkedProgram

CONSTANT Programs

VARIABLES
  prog,   \* the bodies of the functions
  arcs    \* the edges of all graphs

CallAndReturn(c) == {e \in LinkEdges(prog) : e.call = c}

Init == prog \in Programs /\ arcs = OwnEdges(prog)

LinkCall ==
  \E c \in Resolved(prog) :
    /\ ~ CallAndReturn(c) \subseteq arcs
    /\ arcs' = arcs \cup CallAndReturn(c)
    /\ UNCHANGED prog

Safety == Init /\ [][LinkCall]_<<prog, arcs>>

Spec == Safety /\ WF_<<prog, arcs>>(LinkCall)
=============================================================================
