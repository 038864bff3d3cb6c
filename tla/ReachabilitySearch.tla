------------------------- MODULE ReachabilitySearch -------------------------
(***************************************************************************)
(* How RuleReachability decides a constraint "source() -x sink()":         *)
(* ControlFlowGraphTraversalDFS walks the linked program from the source's *)
(* ENTRY, with a stack of frames that gives each call its own colors, and  *)
(* ReachabilityVisitor keeps the path and stops the walk at sink's ENTRY.  *)
(*                                                                         *)
(* A walk over a return edge pops the frame of the call.  The walk comes   *)
(* back to the callee's other branches later, with the caller's frame on   *)
(* top; and a callee whose EXIT is never walked leaves its frame behind.   *)
(***************************************************************************)
EXTENDS LinkedProgram

CONSTANTS
  Programs,   \* the programs, each a function from names to graphs
  Sources,    \* functions a constraint starts at
  Sinks,      \* functions it must not reach
  MaxFrames   \* bound: the call frames memory has room for

ASSUME MaxFramesAssumption == MaxFrames \in Nat \ {0}

(* A program is finite, and no call of it is the null pointer.  A call has *)
(* one edge to go on by.  ENTRY leads to one vertex and no vertex to it,   *)
(* EXIT leads to none, and neither of them calls anything.  The target of  *)
(* a back edge was on the stack of a walk from ENTRY that took no back     *)
(* edge: no set of statements that has ENTRY and is left by none but back  *)
(* edges is without it.                                                    *)
ASSUME ProgramsAssumption ==
  \A p \in Programs :
    /\ IsFiniteSet(VerticesOf(p)) /\ IsFiniteSet(EdgesOf(p))
    /\ NoCall \notin CallSites(p)
    /\ \A f \in DOMAIN p :
         /\ \A a \in p[f].arcs : a.kind \in ArcKind /\ a.from # 1 /\ a.to # 0
         /\ \A a, b \in p[f].arcs : a.from = 0 /\ b.from = 0 => a = b
         /\ 0 \notin DOMAIN p[f].calls
         /\ \A n \in DOMAIN p[f].calls :
              \E a \in p[f].arcs :
                {b \in p[f].arcs : b.from = n /\ b.kind # "impossible"} = {a}
         /\ \A S \in SUBSET ({0} \cup {a.to : a \in p[f].arcs}) :
              0 \in S /\ (\A a \in p[f].arcs : a.from \in S /\ a.kind = "plain" => a.to \in S)
                => \A a \in p[f].arcs : a.kind = "back" => a.to \in S

VARIABLES
  prog,      \* the program
  edges,     \* its edges once it is linked
  source,    \* m_source of the rule
  sink,      \* m_sink
  order,     \* the order in which the out-edges of a vertex are walked
  frames,    \* m_call_stack; a frame is the call that pushed it and its color map
  dfs,       \* dfs_stack, with the vertex being worked on
  path,      \* m_predecessors after the fake first edge
  verdict    \* "running", then what RunRule prints, or "exhausted"

given == <<prog, edges, source, sink>>
vars  == <<given, order, frames, dfs, path, verdict>>

Colors == {"gray", "black"}

TypeOK ==
  LET V == VerticesOf(prog) IN
  /\ prog \in Programs /\ source \in Sources /\ sink \in Sinks
  /\ \A e \in edges : e.from \in V /\ e.to \in V /\ e.kind \in EdgeKind
  /\ \A n \in DOMAIN frames :
       /\ frames[n].call \in CallSites(prog) \cup {NoCall}
       /\ DOMAIN frames[n].color \subseteq V
       /\ \A v \in DOMAIN frames[n].color : frames[n].color[v] \in Colors
  /\ Len(frames) <= MaxFrames
  /\ dfs \in Seq([v : V, at : Nat])
  /\ path \in Seq(edges)
  /\ \A v \in DOMAIN order : v \in V /\ order[v] \in Orderings(OutEdges(edges, v))
  /\ verdict \in {"running", "violation", "no violation", "exhausted"}

-----------------------------------------------------------------------------
Last(s)  == s[Len(s)]
Front(s) == SubSeq(s, 1, Len(s) - 1)

TopFrame  == Last(frames)
NewFrame(c) == [call |-> c, color |-> <<>>]

(* The color of v in the top frame of a call stack; absent means white.    *)
ColorIn(fs, v) ==
  IF v \in DOMAIN Last(fs).color THEN Last(fs).color[v] ELSE "white"

Paint(fs, v, c) ==
  [fs EXCEPT ![Len(fs)].color =
     [w \in DOMAIN @ \cup {v} |-> IF w = v THEN c ELSE @[w]]]

(* Traverse begins.  A visitor that says terminate_search about the source *)
(* only makes the walk skip the source's edges.                            *)
Init ==
  /\ prog \in Programs /\ edges = EdgesOf(prog)
  /\ source \in Sources \cap DOMAIN prog
  /\ sink \in Sinks \cap DOMAIN prog
  /\ order \in OrdersWith(edges, <<>>, EntryOf(source))
  /\ frames = Paint(<<NewFrame(NoCall)>>, EntryOf(source), "gray")
  /\ dfs = <<[v  |-> EntryOf(source),
              at |-> IF source = sink THEN Len(order[EntryOf(source)]) ELSE 0]>>
  /\ path = <<>>
  /\ verdict = "running"

Here      == Last(dfs).v
MoreEdges == Last(dfs).at < Len(order[Here])
Examined  == order[Here][Last(dfs).at + 1]
Advanced  == [dfs EXCEPT ![Len(dfs)].at = @ + 1]

Working == verdict = "running" /\ dfs # <<>> /\ MoreEdges

(* Mutant: any return is accepted inside a call.                           *)
MatchesAnyCall(e) == TopFrame.call # NoCall

(* A return edge is walked only as the return of the call that pushed the  *)
(* top frame.                                                              *)
Matches(e) == e.call = TopFrame.call

(* SkipEdge, and the visitor's examine_edge.                               *)
Skipped(e) ==
  \/ e.kind \in {"back", "impossible"}
  \/ e.kind = "return" /\ ~Matches(e)

Skip ==
  /\ Working /\ Skipped(Examined)
  /\ dfs' = Advanced
  /\ UNCHANGED <<given, order, frames, path, verdict>>

(* Mutant: a call takes over the frame of the function that makes it.      *)
FramesReusingTop(e) ==
  CASE e.kind = "return" -> Front(frames)
    [] e.kind = "call"   -> Append(Front(frames), NewFrame(e.call))
    [] OTHER             -> frames

(* The call stack with which the target of e is looked at: SkipEdge pops   *)
(* for a return it accepts, Traverse pushes for a call.                    *)
FramesFor(e) ==
  CASE e.kind = "return" -> Front(frames)
    [] e.kind = "call"   -> Append(frames, NewFrame(e.call))
    [] OTHER             -> frames

(* Mutant: terminate_search only ends the branch, as it does at the source.*)
EnterIgnoringSink(e, fs) ==
  /\ path' = Append(path, e)
  /\ order' \in OrdersWith(edges, order, e.to)
  /\ frames' = Paint(fs, e.to, "gray")
  /\ dfs' = Append(Advanced, [v |-> e.to, at |-> 0])
  /\ UNCHANGED verdict

Enter(e, fs) ==
  /\ path' = Append(path, e)
  /\ order' \in OrdersWith(edges, order, e.to)
  /\ frames' = Paint(fs, e.to, "gray")
  /\ IF e.to = EntryOf(sink)
     THEN verdict' = "violation" /\ UNCHANGED dfs
     ELSE dfs' = Append(Advanced, [v |-> e.to, at |-> 0]) /\ UNCHANGED verdict

Discover ==
  LET e  == Examined
      fs == FramesFor(e)
  IN
  /\ Working /\ ~Skipped(e)
  /\ ColorIn(fs, e.to) = "white"
  /\ IF Len(fs) <= MaxFrames
     THEN Enter(e, fs)
     ELSE (* no memory for another frame *)
          verdict' = "exhausted" /\ UNCHANGED <<order, frames, dfs, path>>
  /\ UNCHANGED given

(* Mutant: the edge iterator stays where it is.                            *)
AlreadyColoredAgain ==
  LET fs == FramesFor(Examined) IN
  /\ Working /\ ~Skipped(Examined)
  /\ ColorIn(fs, Examined.to) # "white"
  /\ frames' = fs
  /\ UNCHANGED <<given, order, dfs, path, verdict>>

AlreadyColored ==
  LET fs == FramesFor(Examined) IN
  /\ Working /\ ~Skipped(Examined)
  /\ ColorIn(fs, Examined.to) # "white"
  /\ frames' = fs
  /\ dfs' = Advanced
  /\ UNCHANGED <<given, order, path, verdict>>

(* The vertex is painted in whatever frame is on top by now.               *)
Finish ==
  /\ verdict = "running" /\ dfs # <<>> /\ ~MoreEdges
  /\ frames' = Paint(frames, Here, "black")
  /\ dfs' = Front(dfs)
  /\ path' = IF path = <<>> THEN path ELSE Front(path)
  /\ verdict' = IF Len(dfs) = 1 THEN "no violation" ELSE verdict
  /\ UNCHANGED <<given, order>>

Walk == Skip \/ Discover \/ AlreadyColored \/ Finish

Reported == verdict # "running" /\ UNCHANGED vars

Next == Walk \/ Reported

Spec == Init /\ [][Next]_vars /\ WF_vars(Walk)

-----------------------------------------------------------------------------
(* PrintCallChain lists the calls and the branches on the path, which      *)
(* RunRule has made to begin with ENTRY's edge to itself.  Steps over      *)
(* calls that were not resolved are stripped first; a line is indented by  *)
(* the ENTRYs passed and not left again by an EXIT.                        *)

EntrySelfEdge(f) ==
  [from |-> EntryOf(f), to |-> EntryOf(f), kind |-> "back", call |-> NoCall]

Unresolved(v) == v \in CallSites(prog) \ Resolved(prog)
IsDecision(v) ==
  Cardinality({e \in OutEdges(edges, v) : e.kind \in {"plain", "back"}}) > 1
Listed(v) == v \in Resolved(prog) \/ IsDecision(v)

(* Mutant: the way back out of a function is forgotten.                    *)
IndentNeverLess(v, indent) ==
  IF \E f \in DOMAIN prog : v = EntryOf(f) THEN indent + 1 ELSE indent

IndentAfter(v, indent) ==
  CASE \E f \in DOMAIN prog : v = EntryOf(f) -> indent + 1
    [] \E f \in DOMAIN prog : v = ExitOf(f)  -> indent - 1
    [] OTHER -> indent

CallChain ==
  LET walked == <<EntrySelfEdge(source)>> \o path
      Chain[n \in 0 .. Len(walked)] ==
        IF n = 0 THEN [indent |-> 0, lines |-> <<>>]
        ELSE LET v   == walked[n].from
                 was == Chain[n - 1]
             IN  CASE Unresolved(v) -> was
                   [] Listed(v) /\ ~Unresolved(v) ->
                        [was EXCEPT !.lines = Append(@, [at |-> v, indent |-> was.indent])]
                   [] OTHER -> [was EXCEPT !.indent = IndentAfter(v, @)]
  IN  Chain[Len(walked)].lines

-----------------------------------------------------------------------------
(* What the constraint means: a chain of forward edges and calls leads     *)
(* from the source's ENTRY to the sink's.                                  *)
Ahead(S) ==
  {e.to : e \in {x \in edges : x.from \in S /\ x.kind \in {"plain", "call"}}}
Within[n \in Nat] ==
  IF n = 0 THEN {EntryOf(source)}
  ELSE LET S == Within[n - 1] IN S \cup Ahead(S)
Reachable == Within[Cardinality(VerticesOf(prog))]

(* The verdict is right: whatever the frames left behind or popped early,  *)
(* the colors never hide a sink that can be reached, and none is made up.  *)
VerdictCorrect ==
  /\ verdict = "violation" => EntryOf(sink) \in Reachable
  /\ verdict = "no violation" /\ source # sink => EntryOf(sink) \notin Reachable

(* The path reported is one the program could take: each edge starts where *)
(* the last one ended, and each return is that of the innermost call of    *)
(* the path that has not returned.                                         *)
OpenCalls(p) ==
  LET Open[n \in 0 .. Len(p)] ==
        IF n = 0 THEN <<>>
        ELSE LET e    == p[n]
                 open == Open[n - 1]
             IN  CASE e.kind = "call" -> Append(open, e.call)
                   [] e.kind = "return" ->
                        IF open # <<>> /\ Last(open) = e.call THEN Front(open)
                        ELSE <<NoCall>> \o open
                   [] OTHER -> open
  IN  Open[Len(p)]
PathRealizable ==
  verdict = "violation" =>
    /\ path[1].from = EntryOf(source) /\ Last(path).to = EntryOf(sink)
    /\ \A n \in 1 .. Len(path) - 1 : path[n].to = path[n + 1].from
    /\ \A n \in DOMAIN OpenCalls(path) : OpenCalls(path)[n] # NoCall

(* RuleReachability.cpp:123: the chain printed shows the way to the sink:  *)
(* its last line is the call of the sink, and reading upwards, the nearest *)
(* line less indented is each time the call that led to the function one   *)
(* is in, past the calls that have returned on the way.                    *)
ChainShowsCallers ==
  verdict = "violation" =>
    LET open  == OpenCalls(path)
        chain == CallChain
    IN  /\ open # <<>> /\ Callee(prog, Last(open)) = sink
        /\ \A n \in DOMAIN open : \E k \in DOMAIN chain :
             /\ chain[k] = [at |-> open[n], indent |-> n + 1]
             /\ \A m \in k + 1 .. Len(chain) : chain[m].indent > n + 1
        /\ Last(chain).at = Last(open)

(* The frame of no call at all, which PopCallStack could not take apart,   *)
(* stays at the bottom.                                                    *)
RootFrameKept == frames # <<>> /\ frames[1].call = NoCall

(* Every variable holds what its name says, and that frame stays.          *)
SearchWellFormed == TypeOK /\ RootFrameKept

(* The constraint is decided.                                              *)
SearchEnds == <>(verdict \in {"violation", "no violation"})
=============================================================================
