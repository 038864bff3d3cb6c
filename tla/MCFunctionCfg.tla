---------------------------- MODULE MCFunctionCfg ----------------------------
(***************************************************************************)
(* Statement lists for CreateControlFlowGraph: all the short ones over two *)
(* labels, and lists shaped like those gcc emits for C source.             *)
(***************************************************************************)
EXTENDS FunctionCfg

Plain      == [op |-> "plain",  to |-> <<>>]
Return     == [op |-> "return", to |-> <<>>]
At(l)      == [op |-> "label",  to |-> <<l>>]
Goto(l)    == [op |-> "goto",   to |-> <<l>>]
If(t, f)   == [op |-> "if",     to |-> <<t, f>>]
Switch(ls) == [op |-> "switch", to |-> ls]

-----------------------------------------------------------------------------
(* Every list of up to three statements over a source label and a compiler *)
(* label, well labelled or not.                                            *)
TwoLabels == {"a", "<b>"}
SmallStatements ==
  {Plain, Return} \cup {At(l) : l \in TwoLabels} \cup {Goto(l) : l \in TwoLabels}
  \cup {If(t, f) : t, f \in TwoLabels}
  \cup {Switch(<<l, m>>) : l, m \in TwoLabels}
ListsUpTo(n) == UNION {[1 .. k -> SmallStatements] : k \in 0 .. n}

(* Of the lists of four, the ones whose labels are all defined, once each. *)
ShortLists ==
  ListsUpTo(3) \cup {p \in [1 .. 4 -> SmallStatements] : WellLabelled(p)}

-----------------------------------------------------------------------------
(* Lists as gcc lays out C source.                                         *)
IfElse    == <<If("<1>", "<2>"), At("<1>"), Plain, Goto("<3>"), At("<2>"), Plain, At("<3>"), Plain>>
EarlyExit == <<If("<1>", "<2>"), At("<1>"), Return, At("<2>"), Plain, Return>>
Cases     == <<Switch(<<"<1>", "<2>", "<3>">>), At("<1>"), Plain, Goto("<3>"), At("<2>"), Plain, At("<3>")>>
SharedCase == <<Switch(<<"<1>", "<1>", "<2>">>), At("<1>"), Plain, At("<2>"), Plain>>
While     == <<Goto("<2>"), At("<1>"), Plain, At("<2>"), If("<1>", "<3>"), At("<3>"), Plain>>
DoWhile   == <<Plain, At("<1>"), Plain, If("<1>", "<2>"), At("<2>"), Plain>>
DoInWhile == <<At("<1>"), Plain, If("<1>", "<2>"), At("<2>"), Plain, Goto("a"), At("a"), Return>>
TopTested == <<At("<1>"), If("<2>", "<3>"), At("<2>"), Plain, Goto("<1>"), At("<3>"), Return>>
GuardedLoop == <<If("<1>", "<4>"), At("<1>"), Goto("<3>"), At("<2>"), Plain,
                 At("<3>"), If("<2>", "<4>"), At("<4>"), Return>>
TwoLoops  == <<At("<1>"), If("<1>", "<2>"), At("<2>"), Plain, At("<3>"), If("<3>", "<4>"), At("<4>"), Plain>>

Shapes == {IfElse, EarlyExit, Cases, SharedCase, While, DoWhile, DoInWhile,
           TopTested, GuardedLoop, TwoLoops}

Lists == ShortLists \cup Shapes

(* while(c) { if(d) x(); y(); }                                            *)
BranchInLoop ==
  {<<Goto("<4>"), At("<1>"), If("<2>", "<3>"), At("<2>"), Plain, At("<3>"), Plain,
     At("<4>"), If("<1>", "<5>"), At("<5>"), Return>>}

(* tests/infinite_loop_simple.c: while(1) { x(); } return 1;               *)
InfiniteLoop == {<<At("<1>"), Plain, Goto("<1>"), Plain, Return>>}

-----------------------------------------------------------------------------
(* On lists that gcc emits for C source, the bypass of a Goto or a label   *)
(* on a marked edge keeps the mark: no loop is closed anew by the removal. *)
RemovalKeepsMarks == [][(prog \in Shapes => KeepsMarks)]_vars

(* On those lists a topological visit that ignores the marked edges meets  *)
(* no cycle, and EXIT is reached from everywhere without taking one.       *)
LoopsOpened ==
  prog \in Shapes => ForwardAcyclic /\ ExitPostDominates
=============================================================================
