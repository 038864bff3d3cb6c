# A TLA+ model of CoFlo

CoFlo reads C and C++ through gcc's GIMPLE dump, builds a control-flow graph for
each function, links the graphs at the calls, and then prints a graph, draws it,
or checks constraints such as `main() -x f()` ("main never reaches f"). This
directory holds TLA+ models of its core, the TLC runs that check them on small
instances, and proofs checked by TLAPS. Paths below are relative to
the source directory `src/src/` unless they say otherwise; `cfg/` stands for `controlflowgraph/`.

## 1. The system

| part | code | state it keeps | operations |
|---|---|---|---|
| graph container | `cfg/Graph`, `Vertex`, `Edge`, `GraphAdapter` | each graph's set of vertices and edges and its index counter; each vertex's in- and out-edge sets and index; each edge's two ends | AddVertex, RemoveVertex, ReplaceVertex, AddEdge, RemoveEdge, ChangeSource, ChangeTarget |
| construction of a graph | `Function::CreateControlFlowGraph`, `cfg/algorithms/cfg_algs.cpp`, `cfg/visitors/BackEdgeFixupVisitor.h`, `cfg/statements/ParseHelpers` | the statement list, label map, list of basic-block leaders, unlinked jumps, the search's stack, the back edges found | one pass over the statements; resolve jumps; Impossible edges; check for in-edges; self edges; find and mark back edges; remove redundant gotos and labels |
| linking | `Function::Link`, `TranslationUnit::Link` | the graphs of all functions, the calls to be replaced, the calls left unresolved | replace each call whose target is known, add a call edge to its ENTRY and a return edge from its EXIT |
| reachability | `cfg/ControlFlowGraphTraversalDFS`, `DFSCallStack`, `CallStackFrameBase`, `SparsePropertyMap`, `cfg/visitors/ReachabilityVisitor`, `cfg/analysis/RuleReachability` | a stack of vertices with edge iterators, a stack of call frames with one color map each, the path | examine, skip, discover, finish |
| printing | `cfg/algorithms/topological_visit_kahn.h`, `cfg/visitors/FunctionCFGVisitor` | stack of edges, remaining in-degrees, call stack and call set, indent level | visit a vertex, finish |
| drawing | `cfg/algorithms/depth_first_traversal.hpp`, `cfg/visitors/WriteGraphvizDotFileVisitor` | stack of vertices with edge iterators, color map, the file written | examine an edge, follow it or not, finish a vertex |
| program and driver | `main`, `Program`, `TranslationUnit`, `cfg/analysis/Analyzer` | the list of translation units, the map from names to functions, the unresolved calls | compile, parse, link, print, check, report |
| configuration | `RuntimeConfiguration`, `ResponseFileParser` | the map of options, the lines and words of a response file | read the command line, the user's file and the response file, split a line into words, store |
| report | `Program::Print`, `TranslationUnit::Print`, `templates/FileTemplate`, `ToolDot` | the text of the page, the edits not yet applied, the picture files | add a file, add a function and draw it, apply the edits |
| tools | `libexttools/` | version of a tool, the dump files | run gcc and dot, rename a dump, read and compare versions |
| parser, value types | `parsers/`, `Location`, `UEI`, `safe_enum` | none that later steps change | - |

The parts call each other in one sequence, in one thread: the driver has the
compiler write GIMPLE files, the parser turns each function into a list of
statements, construction turns the list into a graph of the container, linking
joins the graphs of all functions, and the last two or three parts read them.
There is no concurrency and no network, and nothing is kept between runs except
the intermediate files and the pictures of a report. What makes the behaviour hard is something else:

* **Order of hash sets.** The vertices of a graph and the edges of a vertex are
  in `unordered_set`s of pointers, so every loop over them runs in an order that
  differs from run to run. Searches, the removal of redundant vertices and the
  printer all depend on it. In the models an order is chosen
  nondeterministically when a vertex's edges are first looked at.
* **Redundant representation.** An edge is stored in itself, in both its ends
  and in its graph, and ReplaceVertex must update all of them.
* **Descriptors kept across changes.** Lists of vertices and edges are gathered
  in one phase and used in a later one, after vertices have been replaced.
* **One state for many activations.** The printer keeps one in-degree map and
  the search one stack of color maps for walks that enter a function often.
* **Leftover files.** A dump is named after the last component of a path and a
  pass number that differs between compilers, in the current directory; a run
  that is killed leaves it there for the next.
* **Termination** of those walks on graphs whose cycles run through several
  functions.
* **Edits applied late.** What files and functions add to the report is kept as a
  list of edits of one page; each is applied to all places that match when its turn
  comes, so that earlier edits decide what later ones find.
* **Options from three sources** are merged in one map, in which for each option the
  first source that has it wins, while each source by itself may not repeat it.

`PROJECT.json` lists each such hazard at its line, with the properties that
watch it.

What makes each part correct: the container keeps its representations in
agreement and gives out an index once; construction preserves the program's
control flow and leaves a graph that is acyclic without its marked edges and
from which EXIT can be reached; a constraint is reported violated exactly if the
sink can be reached, with a chain that can be taken; linking brings every call
back to where its caller continues; a drawing shows a function whole and nothing
else; a run builds on the files it was given and complains of what it could not do; a print
visits every vertex after its predecessors, ends, and closes the brackets it opens;
a response file means what the same words mean on the command line; and a report
lists the files asked for with their functions, each with its own picture.

## 2. Modules

| module | models | lines of the code |
|---|---|---|
| `GraphOps` | each operation of the container as a function from heap to heap | `Graph.cpp`, `Vertex.cpp`, `Edge.cpp` |
| `CfgGraph` | any sequence of those operations on several graphs | same, and `GraphAdapter.h` |
| `Multigraph` | what the container promises: sets of vertices, sets of arcs between any vertices | abstract |
| `CfgGraphProofs` | the proofs about `CfgGraph` | - |
| `FunctionCfg` | `CreateControlFlowGraph` and all it calls, over `GraphOps` | `Function.cpp` 615-822, `cfg_algs.cpp`, `BackEdgeFixupVisitor.h`, `ParseHelpers.cpp` |
| `FunctionCfgProofs` | the proofs about `FunctionCfg` | - |
| `LinkedProgram` | the vertices and edges of a program after `Function::Link` | `Function.cpp` 97-166 |
| `ProgramShapes` | small programs for the modules about linked programs | - |
| `ProgramLink` | `Function::Link` over `GraphOps`, for all functions of a program | `Function.cpp` 97-166, `TranslationUnit.cpp` 173-180 |
| `Linking` | what linking promises: the two edges of each call, at once | abstract |
| `ProgramLinkProofs` | the proofs about `ProgramLink`, with the lemmas of `CfgGraphProofs` | - |
| `ReachabilitySearch` | the search for one constraint over a linked program | `ControlFlowGraphTraversalDFS.cpp`, `ReachabilityVisitor.cpp`, `RuleReachability.cpp` |
| `SearchProofs` | the proofs about `ReachabilitySearch` | - |
| `KahnPrint` | the printing of one function over a linked program | `topological_visit_kahn.h`, `FunctionCFGVisitor.cpp` |
| `KahnProofs` | the proofs about `KahnPrint` | - |
| `DotVisit` | the drawing of one function over a linked program | `depth_first_traversal.hpp`, `WriteGraphvizDotFileVisitor.cpp` |
| `DotProofs` | the proofs about `DotVisit` | - |
| `VersionNumbers` | a tool's version: how it is read and compared | `VersionNumber.cpp`, `ToolBase.cpp` 183-214 |
| `Driver` | runs of the program one after another in one directory | `main.cpp`, `Program.cpp`, `TranslationUnit.cpp`, `ToolCompiler.cpp`, `RuntimeConfiguration.cpp`, `Analyzer.cpp` |
| `DriverProofs` | the proofs about `Driver` | - |
| `Configuration` | the options and where they come from | `RuntimeConfiguration.cpp`, `ResponseFileParser.cpp` |
| `Report` | the index page and the pictures of a report | `Program.cpp` 142-223, `TranslationUnit.cpp` 187-273, `FileTemplate.cpp`, `ToolDot.cpp` |
| `Session` | `Configuration` and `Report` as `main` calls them | `main.cpp` |
| `SessionProofs` | the proofs about the options, the words of a response file, the index page and the pictures of `Session` | - |
| `MC*` | the instances TLC checks | - |

`CfgGraph`, `FunctionCfg` and `ProgramLink` compose with `GraphOps` (the last two
instantiate it with their own vertices and edges); `ProgramLink`,
`ReachabilitySearch`, `KahnPrint` and `DotVisit` start from or lead to the linked
program of `LinkedProgram`, so that `ImplementsLinking` ties the graphs the
searches walk to the code that makes them. `Driver` extends `VersionNumbers`, and
`Session` extends `Configuration` and `Report`: the options one ends with are the files
the other shows. `Driver` and `Session` look at the same `main` from two sides, one at
many runs over changing files, the other at one run from its words to its page.

`PROJECT.json` ("map") gives the lines of every definition. Definitions headed
"Mutant:" are variants of the definition that follows them, as a plausible bug
would have it; no specification uses them. For each property of a passing run
one of them makes the property fail.

**GraphOps, CfgGraph.** The heap is one record whose fields are the members of
all objects: `verts`, `edges`, `nextId` of a graph, `inE`, `outE`, `index` of a
vertex, `src`, `tgt` of an edge. Several graphs share a heap because linking
puts edges between the graphs of two functions. The container checks nothing, and
neither do the actions, but for what is true of an object just constructed: an edge
that is added is in no graph, a vertex that is added is in none, and one put in the
place of another has no edges yet. Besides, an edge is removed, or given another end, when
a graph holds it, through that graph, and a vertex replaced is in the graph it is replaced in. An edge may be drawn
from or to a vertex that has left its graph, as `Function.cpp` 795 does with a jump
replaced at 737, and a vertex may be removed together with its place in a graph while
edges still hang on it. `thrown` tells the exception of a second insertion, after
which the vertex has been renumbered. `Multigraph` is reached by the mapping `verts <- heap.verts`,
`arcs <- ArcsOf(heap)`.

**FunctionCfg.** `pc` names the phase of the function and `i` the position of
the loop in it. A statement is a kind with the labels it jumps to. The parser's
object for statement *n* is vertex `Stmt(n)`, the one linking replaces it with
`Linked(n)`. `back` are the marked edges, `found` the records of the visitor,
`todo` the vertices the removal loop has not reached. The depth-first search of
Boost is external and modelled by its documented events, one edge a step. The edges
a switch gets are those of the labels known, in their order (`KnownInOrder`). An
action that adds edges waits for room for them (`Room`), so that the bound is met by
stopping and never by an edge that is not there. A
null descriptor or an iterator past the end that is dereferenced ends in the
phase `crashed`.

**LinkedProgram.** A vertex is its function's name with a number, 0 for ENTRY,
1 for EXIT. A call whose callee is defined gets its call edge and its return
edge. A function's own edges are what `FunctionCfg` makes of the C source quoted
in `ProgramShapes`.

**ProgramLink.** The heap of `GraphOps` starts as the functions' own graphs. The
parser's object for a call is `Parsed(c)`, the one linking puts in its place
`ResolvedAt(c)`. `LinkFunction` begins a function, `ListCall` is a turn of the
first pass, which only lists the calls, `ReplaceCall` a turn of the second:
ReplaceVertex, the call edge, the return edge. The vertices of a graph are walked
in any order, and functions are linked in any order. `Linking` is reached by
reading the ends of each edge as the places of the objects they point to.

**ReachabilitySearch.** `frames` is the call stack: the call that pushed a frame
and its color map. `dfs` is the stack of vertices with the edge iterator of
each; `path` is the visitor's. One action is one turn of the inner loop:
`Skip`, `Discover`, `AlreadyColored`; `Finish` is what follows it. The order of
the code is kept: the stack is popped for an accepted return or pushed for a
call before the color of the target is looked up, and colors are looked up in
whatever frame is on top. `CallChain` is what PrintCallChain makes of the path: the
lines it prints, each with its indentation.

**KahnPrint.** `Visit` is one turn of the loop of `topological_visit_kahn`:
discover_vertex, the walk over the out-edges with examine_edge, and
vertex_visit_complete, in this order and with what each changes. `remaining` is
the sparse in-degree map, in which an entry that reaches zero is erased and read
afresh from the graph later. `level` is the indent level, `visits` counts how
often each vertex was visited. `visits` is the only variable that the code does
not have.

**DotVisit.** One action is one turn of the inner loop of
improved_depth_first_visit (`IgnoreEdge`, `TreeEdge`, `OtherEdge`), and
`FinishVertex` is what follows it. The code pops the vertex it works on and pushes
it again; here it stays on top of `dfs`. `nodes` and `lines` count the lines
written.

**Driver.** `pc` and `at` tell what main is doing and in which turn of a loop.
`src` are the source files, `dumps` and `normal` the intermediate files with and
without the number of the pass, `units` what each file's functions were built from,
`functions` the map from names, `targets` and `unresolved` the outcome of linking,
`results` what was printed, checked and told of in the report; the constraints are
added and then run one a turn, and the report is written one file a turn. What the code
complains of and goes on (a constraint that cannot be parsed or names a function the program
does not have, a dump with a syntax error, a picture asked for without a file to put it in)
is in `results.complaints`; `results.rules` are the constraints added, `results.checked`
those run. Two steps may not come back, as the runs below show: the printing of a text,
which may also end in a null pointer (`exit = "undefined"`), and a search; the phase
`looping` is where such a run stays until it is killed. The action `Start` may change a
source file; `Kill` may end a run anywhere. A text is known by whether it compiles,
whether its dump parses and what it defines. `leftovers` is the only variable the
program and the directory do not have: whether some run was cut short with a dump
on the disk. Where the code uses a pointer never set (no source files) the run ends
with `exit = "undefined"`. `VersionNumbers` is about sequences of numbers; of what a tool
prints, a line is the version it starts with, or the empty one.

**Configuration.** `stage` is the place in ParseAllOptionSources; `values` is `m_vm`
without the options that only have their default, a store adding to it what it does
not have (the rule of boost's `store`, which is external like its errors). A response
file is split by one action for each character: `ToggleQuote`, `EndToken`,
`TakeCharacter`, `EndLine` are the turns of boost's `escaped_list_separator` with the
separators and quotes the code gives it, the filters of lines and of blank tokens are
the code's own. A character is a letter, a blank, a quote, `#` or `@`; the name of an
option counts as one. `conf` is the user's file: when there is none, the type tested
comes from an uninitialized buffer, and both outcomes are taken.

**Report.** `page` is a sequence of tokens: the marks the edits look for, the entries,
and "text" for all between. An edit puts something for a mark or in front of it;
`Removal`, the only one that takes out a region, is the non-greedy expression of
`Program.cpp` 180. `PrintFile`, `PrintFunction` and `FilePrinted` add edits,
`ApplyEdit` is a turn of FileTemplate::Apply. `picture[f]` is the function drawn in
`f.svg`, or a picture of an earlier report, or none; `drawn`, which the code does not
have, are the functions dot could draw.

**Session.** `Configure` steps through the configuration, `PrintProgram` hands the files
it ended with to the report, and the other actions are the ways `main` ends without
one. `Contents` gives the functions of each file; the file that is not there makes the
compiler fail.

## 3. Runs

| run | instance | result |
|---|---|---|
| `cfg_graph` | two graphs, three vertices, two edges, three indexes a graph, symmetric | the inductive invariant holds (both representations agree and indexes are unique are parts of it), each operation is one of the multigraph |
| `function_cfg` | every list of up to three statements over a user label and a compiler label, the well-labelled ones of four, and ten lists as gcc lays out if, switch, while, do, nested and successive loops and early returns | control flow is preserved, no real edge hangs on a vertex that left, every vertex but the jumps that begin a block has a way in, the back edges found cut all cycles, no redundant vertex is left, and construction ends; on the ten lists the finished graph is also acyclic without the marked edges, EXIT can be reached by forward edges, and the removal keeps marks |
| `reachability` | main over g, h, k: all pairs of calls, branches and loops; endless callees; a function called twice | the verdict is right, the path reported matches returns with calls, the chain printed shows every caller, the first frame stays, the search ends |
| `kahn_print` | main over g and h: sequences, branches, compound conditions, early returns and loops; recursion where no branch is open; callees that never return | the order is topological, each activation is printed whole, call set and call stack agree, brackets balance, the print ends |
| `program_link` | two functions with every choice of bodies and callees, among them recursion, calls in a row, loops and unknown callees; two callers of a third function | no edge ends at a deleted vertex, each return edge comes back to the vertex its caller has now, exactly the calls to unknown functions are left, each step adds the two edges of one call |
| `dot_visit` | main over g, every shape and choice of callees, where g calls main back or loops forever | each vertex and edge that main reaches in its own graph is written once, nothing else is, colors agree with the stack, the drawing ends |
| `driver` | three runs, two files with the same last component, two compilers whose passes have different numbers and two with other versions, twelve command lines | see below |
| `session` | twelve command lines of up to three words; every response file of one line of up to four characters (a letter, a blank, a quote, a comment sign), and of up to two of nine longer lines with options, quotes, blanks and comments; one that cannot be opened; three files, two of which define a function of the same name and one of which defines none | see below |

`driver` checks that functions come from the text their own file has now although
dumps of other files and texts lie about (`BuiltFromOwnSource`); that calls are
resolved to the functions the map ends with whatever the order of files
(`LinkSeesEveryFile`); that a numbered dump stays only if a run was cut short, and
only then a run is told there are too many (`DumpsCleanedUp`); that a compiler older
than 4.5.0 is refused although its digits are read twice (`OldCompilerRefused`);
that where the exit status is 0 every file was read, the function asked for printed and
every constraint checked, or complained of, and the report tells of every function there is
(`DoneOrComplained`); and that a run ends unless it is caught in a print or a search that
does not (`RunEnds`).

`session` checks that an option the command line leaves open has the value it would
have if the words of the response file stood in its place (`ResponseActsAsCommandLine`,
against a definition of the words of a line that does not read it from left to right, for
files without a word that is empty or all blank);
that what the command line sets stays as it is (`CommandLineWins`); that a run is
refused only for what one source gets wrong by itself (`RefusedForCause`); that the
index page is the template with its development regions out and the entries of all
files in, in order, each followed by its own functions and by none of an earlier file, and a
panel for each function (`IndexPageWhole`); that a picture is one of a
function of its name, the last dot could draw, whatever an earlier report has left
(`PicturesAreCurrent`); and that the files shown are the files asked for
(`ReportShowsFilesAsked`).

In `function_cfg`, `LeadersHaveWayIn` says that neither linking nor the Impossible edges
nor the removal of superfluous vertices leaves a vertex without a way in. It does not speak
of jumps that begin a block (see below). In `reachability`, `ChainShowsCallers`
reads the printed chain as a user does, from the sink upwards by indentation, and
finds exactly the calls that have not returned.

The bounds. Two graphs and three vertices are what an operation of the container
can involve at once (an edge between graphs, its ends, a replacement for one),
two edges make parallel, opposite and self edges. Four statements are enough for
a jump over a jump, a label nothing jumps to and two labels in a row; the
`Shapes`, of up to nine, add what needs more. `MaxEdges` is never reached. `MaxFrames = 4` is the
deepest call of the checked programs with one spare frame for a callee that did
not return, and `MaxPending = 4` is never reached: a run in which either bound were
would end in the status `exhausted` and fail the property that the walk ends.
`cfg_graph` turns off the deadlock check because an index counter at `MaxId` and
edges in use may leave no legal call, and `program_link` because linking is over
some day. `ProgramLink` and `DotVisit` need no bound but the programs. Three runs
are what a leftover needs: one to leave it, one to trip over it or to compile with
another compiler, one after that. In four characters of a response file a quote opens
and closes around a blank, a comment sign stands first or later, and a quote stays open;
three files are an earlier, a later and an empty one, which is what the marks left in
the page can tell apart.

Four runs check one sentence of the repository each, and TLC shows the code
does otherwise ("findings" in `PROJECT.json` quotes the sentences):

| run | program | what happens |
|---|---|---|
| `branch_in_loop` | `while(c) { if(d) x(); y(); }` | the proxy edge of the back edge goes to the other arm of the `if`, and closes an unmarked cycle |
| `infinite_loop` | `tests/infinite_loop_simple.c` | the Impossible edge out of the loop starts at a vertex that was replaced; EXIT cannot be reached |
| `print_endless` | `while(c) g();` | the loop is printed without end: the return edge into its head is not a back edge |
| `print_crash` | any program | at the EXIT of the function printed, the frame popped has no call |

Some more behaviours of the code disagree with what its comments say or stand behind
limits of the runs; no passing property takes them for right.

* Unreachable statements are to be reported and given an in-edge (`Function.cpp` 680-687,
  748-751). A statement after a jump that no jump leads to is not reported, since it has been
  given an Impossible in-edge before the check looks for one; if it is a jump itself, the
  list of leaders holds the object that linking has replaced, the edge goes there, and the
  jump in its place is neither connected nor reported. `LeadersHaveWayIn` leaves out the
  jumps that begin a block and does not say what is reported.
* A file whose dump has a syntax error is reported as parsed (`TranslationUnit.cpp` 155-170,
  against `TranslationUnit.h` 62), a constraint that cannot be parsed is skipped
  (`Analyzer.cpp` 73-76), and a picture without a file name is not made (`main.cpp`
  203-219); the exit status is 0 in each case. `DoneOrComplained` asks for the complaint, which
  the code does print, and leaves open whether 0 is the right status.
* A response file is to hold words "exactly as they would appear on the command line"
  (`ResponseFileParser.h` 28). The code skips one that is empty or all blank, which the
  @todo at `ResponseFileParser.cpp` 69 says it should not. `WordsOf` has these words, as the
  command line would; `TokensOf` are the ones the code sees, and
  `ResponseActsAsCommandLine` speaks of the files where there is no difference. The run
  has both kinds.
* The index page lists under each file the functions of all later files too: the mark for
  functions stands in front of every entry still to come. The sample in
  `index.template.html` 263-284 and the code for an entry (`TranslationUnit.cpp` 230-254)
  show each file with its own functions only. `IndexPageWhole` holds with or without the
  functions of later files.
* In the search, a loop around a callee that never returns pushes frames without end, since
  a frame is popped only by a return.
* In the printer, a recursive call from an open branch counts down the in-degrees of the
  activation that is still open.

**What the passing runs leave out on this account.** `LoopsOpened` speaks of
ten lists with no branch inside a loop and no endless loop. Lists with a switch of a
single arm are left out: above a back edge, FindDifferentOutEdge would run past
its last edge (the phase `crashed`). `reachability` has no recursive program
(frames would be pushed without end) and no endless callee inside a loop; a
constraint from a function to itself is never violated, whatever the program,
and `VerdictCorrect` does not speak of it. `kahn_print` has no loop whose last
statement is a resolved call, no recursion from an open branch, and no branch of
more than two ways, for which more braces are closed than were opened. When a
callee never returns the walk ends in the callee, with `done`; otherwise it ends
at the EXIT of the function printed, where the code would pop the first frame
(`crashed`), and it is there that `PrintedWhole` and `BracketsBalanced` look.

**Fairness.** The program is one thread that runs until it is finished, so each
specification has weak fairness of its steps as a whole, and of nothing else;
which order is walked is never fair. `Driver` is fair to the steps of a run (the
process is scheduled and gcc and dot return), not to `Start` or `Kill`, nor does it assume
that a print or a search comes back: `RunEnds` lets a run stay in `looping`. `CfgGraph`
has no fairness, since nobody need call the container.

## 4. Proofs

`CfgGraphProofs` proves for every number of graphs, vertices and edges, every sequence of
calls, and with no other assumption than that the null pointer is no vertex:

* `GraphInvariant`: `GraphInv` always holds. It is inductive: types; agreement
  of the edge lists with the ends (`EndsAgree`); an edge has both ends while a graph holds
  it and none otherwise (`EndsGiven`), where the ends need not be in a graph; no object in
  two graphs (`OneOwner`);
  unique indexes; and, the strengthening, that every index in use is below the
  counter (`IndexIssued`), without which uniqueness is not inductive. There is one
  lemma for what each operation does to each field and one for why it preserves
  the invariant.
* `TypeCorrect`, `AlwaysConsistent`, `AlwaysUniqueIndexes`: its parts.
* `RefinesMultigraph`: the container implements `Multigraph`. One lemma per
  operation shows which abstract step it is; ReplaceVertex is a renaming of all
  arcs although the code touches only those in the lists of the vertex replaced,
  which is where `EndsAgree` is needed.

`FunctionCfgProofs` proves for every set of statement lists, of any length and with
any labels, and every number of edges, from what the grammar gives of a statement
(`ProgramsAssumption`: a goto has one label, an if two, a switch at least one, as
`gcc_gimple_parser.dparser.g` 478-489 has no empty list of cases):

* `CfgInvariant`: `CfgInv` always holds. It has one part for each question a step can
  disturb. `ListsInv`: the lists gathered in the loop over the statements hold what
  they should, the jumps in order and what stands behind a jump together with that
  jump, and a label is only known by a statement that is a label. `MembersInv`: a jump is in the
  graph by itself or by its replacement, never both. `EdgesInv`: the copies of every
  edge agree and an edge hangs on vertices that once were in the graph, a real one on
  vertices that are. `WaysInv` and
  `EnteredInv`: from every vertex but EXIT and jumps without their label a way leads
  on, and every vertex has a way in, apart from those the phase at hand is still to
  give one. `SearchInv`: the search has recorded edges and vertices of the graph.
  `PruningInv`: what has been bypassed has no edge, and what has been passed over is
  needed and stays so.
* `GraphStaysWellFormed`: `GraphWellFormed`, from `EdgesInv` and `MembersInv`. That
  the object of a jump is never met again needs that it is replaced in the one pass
  over the list of jumps, each once, which is why the list's order is part of the
  invariant.
* `AlwaysLeadersHaveWayIn`: `LeadersHaveWayIn`. A statement behind a
  jump gets its in-edge from a jump, or else the Impossible edge, unless it is itself
  a jump that has been replaced by then.
* `AlwaysNothingRedundantLeft`: `NothingRedundantLeft`. A bypass changes the in-degree
  and out-degree of no vertex but the one bypassed, so that what was not redundant when the pass
  looked at it does not become so; it holds in any order.
* `AlwaysFoundEdgesCutCycles`: `FoundEdgesCutCycles`. `ColorsInv` says what the colors of
  the search mean: an edge examined has been found to lead back, or leads to a finished
  vertex, or to the next one on the stack; all edges of a finished vertex were found or
  lead to finished ones. A vertex that is finished is therefore entered by none finished
  before it, but for found edges, so that no cycle comes to lie among the finished
  vertices (`CycleFree`), and in the end all are finished. That peeling, as the property
  has it, empties such a graph is shown by counting (`PeelingEnds`).

* `AlwaysFlowPreserved`: `FlowPreserved`, for the lists that define each label once and
  every label they jump to, with none named EXIT (`WellLabelled`). `ArmsInv` says at every
  moment what an edge of control flow is worth: a vertex leads where the source says, by an
  edge of the kind the source says, unless it is a jump not linked yet or the last statement
  so far; and once the removal has begun, where the walk past the vertices already bypassed
  arrives (`Onward`). A bypass takes one position out of the set that walk stops at. It
  leaves every `Landing` as it was that did not meet that position, and moves the others to
  where its single arm lands (`LandingElsewhere`, `LandingBeyond`), which is where the
  out-edge of the vertex bypassed led. That the removal never bypasses a vertex that leads
  to itself is part of this: the one edge into it would be the one out of it. `Landing` is a
  recursive function that stops after as many steps as there are positions, and shown to be
  what the least closed set meets first (`LandingIs`, by counting).

The proof needs an arm for every switch: one with no case would be replaced by
nothing, and be left in the graph with no way on. It is also where it came out that
the search's variables must be known to be empty before the search.

`ProgramLinkProofs` proves for every set of finite programs in which a call is a
statement with exactly one edge to go on by (`ProgramsAssumption`), and in every order of
functions and vertices:

* `LinkInvariant`: which calls have been replaced can be read off the control state
  (`Replaced`: the functions not begun, the vertices not seen, the pairs not yet
  processed), and these calls alone determine which vertices the graphs hold, where
  each edge starts and ends (`Layout`) and which edges there are (`EdgesFor`).
  `LinkInv` says that the heap is this one, and `Progress` what the control state can
  be. What an operation of the container does comes from the lemmas of
  `CfgGraphProofs`, instantiated.
* `AlwaysLinkedConsistent`, `AlwaysRejoins`, `AlwaysUnresolvedExact`: the three safety
  properties of the run, each read off `LinkInv` without another step.
* `LinkingIsSafe`: `Spec => Abstract!Safety`, the safety part of `ImplementsLinking`.
  Init maps to Init; a turn of the second pass is `LinkCall`, all other turns are
  stutters. That linking ends is left to TLC.

`SearchProofs` proves for every source, sink and memory bound and every program
with finitely many vertices and edges, in which no call is the null pointer, every call has
one edge to go on by, one edge at most leaves ENTRY and none leads to it, none leaves EXIT,
neither of them is a call, and the head of a back edge can be reached from ENTRY without it
(`ProgramsAssumption`; construction gives ENTRY, EXIT and a call these edges, and the last is
what a depth-first search from ENTRY finds, since a back edge leads to a vertex on its stack):

* `SearchInvariant`: the search's variables are well typed, the path ends at the
  top of the stack of vertices, and each frame was pushed by a call (`SearchInv`).
  `SearchTypeCorrect` is the part about types.
* `SearchStaysWellFormed`: this and `FirstFrameKept` together, the property
  `SearchWellFormed` of the run.
* `FirstFrameKept`: the frame at the bottom of the search's call stack is the one
  no call pushed, so that PopCallStack never reads the call of a frame without
  one. It rests on the guard of SkipEdge: a return is followed only if its call is
  that of the top frame, and a return edge always has a call.
* `VerdictsAreCorrect`: `VerdictCorrect`. `VerdictInv` leaves the colors aside, since
  frames come and go with their colors: the vertices that have an order are those ever
  discovered, in whatever frame. They can all be reached; and each edge ahead of one of
  them leads to another, unless an entry of the stack is still to examine it. When the
  stack is empty the discovered vertices are therefore closed under the edges ahead, and
  everything that can be reached is among them. A vertex met in a frame that knows it
  already, or met again in a new one, is a discovered vertex either way, which is why the
  argument does not need to know which frame is on top. `Reachable` is defined by a
  recursive function on the number of steps, and shown to be the least closed set first.
* `PathsAreRealizable`: `PathRealizable`. SkipEdge follows a return if the top frame is that
  of its call, and frames that other branches have left behind stay on the call stack; so the
  top frame might be of a call that the path never made, or has returned from. That it is not
  is no fact about one state's stacks, but one about what two activations of one function have
  in common: the walk is deterministic once the orders of the edges are given (`Turn`,
  `Start`, `Going`), and what it does in a function sees only the frames above the function's
  own. `Story` therefore says of each activation on the path whose call has not returned that
  it is either live, as many turns in as a search of its function alone and with the same
  above its own frame, or has come to its own EXIT in its own frame (`Exited`), sooner than
  the activations around it. A frame that is of no live activation was left behind by a
  function searched to its end (`Ended`), and since a function cannot both come to its EXIT
  and end (`ExitOrEnd`), a return the top frame accepts is that of the innermost open call
  (`ReturnMatches`). `OpenCalls` is a recursion along the path; that it has a solution, and
  that the solution is the calls of the activations on the stack, is `OpenCallsAre`.
* `ChainsShowCallers`: `ChainShowsCallers`, from the path being realizable. `ChainGood`
  relates, after each edge of the path, the recursion of PrintCallChain with the activations
  open there: the indentation is their number, and one more once ENTRY has been left; of each
  but the source's there is the line of its call, and below that only lines indented further.
  An ENTRY or an EXIT is no line itself (`EntryUnlisted`, `ExitUnlisted`) and every other
  vertex leaves the indentation alone, so a call and its return cancel out
  (`ChainGoes`); the edge that finds the sink is a call, whose line is the last.

`KahnProofs` proves for every program with finitely many edges, in which no call is the
null pointer, an ENTRY or an EXIT and each has an edge to go on by (`ProgramsAssumption`),
for every order in which edges are walked and every bound on memory:

* `CallSetIsTheStack`: the printer's call set holds exactly the functions called
  by the frames of its call stack. The strengthening (`CallInvariant`) is that no
  function is on the stack twice, without which a pop would take a function out
  of the set that another frame stands for; it holds because a call is pushed
  only after AreWeRecursing has said no.
* `PrintTypeCorrect`: `TypeOK`; above all that no count in the map is ever zero.
* `OrderlyPredecessorsFirst` and `OrderlyPrintedWhole`: `PredecessorsFirst` and
  `PrintedWhole` of every orderly program. In an orderly one (`Orderly`) a resolved call
  goes on by a single edge which is no back edge, the function printed is not
  called again, no edge of the function itself but back edges leads into an ENTRY and none
  out of an EXIT, and where EXIT can be reached each statement of the function leads to it.
  The first is what the finding of `kahn_print_endless` violates: the walk does go wrong
  without it. The second is a limit of the proof; the run has programs that call main
  again. The others are about the shape of one function's graph, in
  which an Impossible edge stands beside each back edge; they are assumed of the program,
  not derived from `FunctionCfg`. 52 of the 63 programs of `kahn_print` are orderly, the
  other 11 call main.

  The argument is about one map of counts and one stack of edges that all activations
  share. A forward edge is gone (`Gone`) when its start has been visited in the current
  activation and waits for no call. Of a function with a frame, whose ENTRY has
  been visited, a vertex not yet visited has as many edges remaining as are not gone,
  or is pending and has none; of all other functions each vertex has been visited as
  often as the ENTRY, and no count is in the map (`VerticesInv`). Of two pending edges
  the upper one is of the same or of an inner frame (`PendingInv`), though a frame need
  not have been called by the one just below it: nothing is pending in the frames
  between a call's and its callee's (`FramesInv`). So when EXIT is visited all edges into
  it are gone, hence those into their starts, and back to ENTRY (`AllPassed`): the
  function has been visited whole, none of its statements waits for a call, it is
  the innermost (`ExitFrame`), and the return removes the edge the call goes
  on by as if the call had been an ordinary statement (`ReturnPassed`). `RemovalCounts`
  is the lemma on the loop over the out-edges: in whatever order they come, each vertex
  loses as many as are walked into it and is pushed exactly if those were its last.

`DotProofs` proves for all programs with finitely many edges
(`ProgramsAssumption`):

* `ColorsAreTheStack`: `ColorsTellStack`, by which an edge reported as a back edge
  closes a cycle. The strengthening (`DotInv`) is that every edge already passed by
  a vertex on the stack is ignored or leads to a discovered vertex (`PassedOK`), so
  that this holds of all its edges when the vertex is finished, since the order
  of iteration lists every edge (`OrderListsAll`, by counting, which is where
  finiteness is needed).
* `DrawingIsWhole`: `DrawnWhole`, if also no edge leads into an ENTRY or out of an EXIT
  within a function. `WrittenInv` gives for every moment the count of each line: a
  vertex has one when it has been discovered, an edge when it has been passed by its
  start. In the end all of the stack is finished, and what is black is closed under the
  edges of the function itself; `Shown` is the least such set with ENTRY.

`DriverProofs` proves for any number of files, paths with the same last component,
texts and runs, if there are finitely many compilers (`CompilersAssumption`), no path
is empty (`BasesAssumption`), a text defines a list of functions (`TextsAssumption`) and
each command has a compiler and, where it names source files or constraints, names at
least one (`CommandsAssumption`):

* `AlwaysOwnSource`: `BuiltFromOwnSource`. It needs that the file read is the one just
  written, hence that a single match is the dump of the compiler just run
  (`JustWritten`).
* `AlwaysCleanedUp`: `DumpsCleanedUp`. The strengthening (`OnlyOwnDump`) is that without
  leftovers the only numbered dump on the disk, of whatever file, is the one just
  written.
* `OldCompilersRefused`: `OldCompilerRefused`. It needs that a version appended to
  itself is below 4.5.0 in the lexicographic order if the version alone has a field that
  is too small (`VersionNumbers!Less`), for versions of any length.

* `AlwaysLinkedToAll`: `LinkSeesEveryFile`. `ProgramInv` says of each phase how far the
  program in memory has got: the map knows exactly the names the units read so far
  define, each by a function of that name, and the calls resolved and unresolved are
  those of the units linked so far, which begin to be linked when all have been read.
* `DriverTypeCorrect`: `TypeOK`, from the same invariant.
* `AlwaysDoneOrComplained`: `DoneOrComplained`. `ResultsInv` says what each phase has
  left behind and what it has done so far: each file passed is read or complained of
  (`ReadInv`); the rules added are those of the constraints passed that can be checked, each
  once and in their order, and all others were complained of (`AddedTo`); the
  rules run are the first of those (`RunSoFar`); and the functions told of are those of
  the files passed, in order, so that the turn of another file goes behind them. A run
  that ends with 0 without having been asked for help ends in the last turn of the report.

`SessionProofs` proves for any command lines and response files that are sequences of
characters, however long (`CommandLinesAssumption`, `ResponseFilesAssumption`), and any
sources with any functions in them (`ContentsAssumption`):

* `ResponseIsMoreCommandLine`: `ResponseActsAsCommandLine`, and `RefusedOnlyForCause`:
  `RefusedForCause`. `ReadingInv` says for each stage what is known by then: the map
  is that of the command line's own words until the response file is stored, and has
  that file's values beneath them from then on (`AllValues`); a run that has failed had
  a cause. While the file is split, `InLines` says that what has been found so far are
  the words of the lines passed, the words of this line that end before the position
  (`WordsBefore`), and the part of a word begun (`Part`); and that the flag for quotes is
  the parity of the quotes passed (`Within`). `TokensOf`, with which this is compared,
  does not read from left to right: a word lies between two blanks outside of quotes. They
  are `WordsOf` where no word is empty or all blank (`SeenWhole`).
* `CommandLineAlwaysWins`: `CommandLineWins`, from the same invariant.
* `IndexPageIsWhole`: `IndexPageWhole`. While a report is made the edits wait in a list,
  so the page itself says nothing before it is written. `ListingInv` says that the edits
  queued lead (`Leads`) from the page as it is to `PageAt(units, unit, fn)`, the page that
  lists all that has been printed so far and nothing else, as the code would write it. For an edit added at the end,
  there is a lemma for each kind of step that says what it makes of such a page
  (`FileStep`, `FunctionStep`, `DoneStep`), and `StartStep` says what the first ones make
  of the template, in which the non-greedy `Removal` must end at the nearest mark. An edit
  applied is the first of the list, and the end it leads to stays the same. When none is
  left the page is `PageAt` of the whole program, in which a file's own functions come first
  (`OwnComeFirst`), so that it is one of the pages `IndexPageWhole` allows.
* `ReportShowsWhatWasAsked`: `ReportShowsFilesAsked`, since the program printed is the
  one of the files the map ends with (`SourceInv`, which joins the two invariants).
* `PicturesStayCurrent`: `PicturesAreCurrent`. `PictureInv` says that every function
  drawn so far stands in the report before the place it has reached, so that a picture
  just drawn is the last of its name.

These are statements about sequences of any length, and the library's theorem for
induction takes an operator the provers cannot instantiate. `AllNumbers` and
`AllSequences` are induction for a set instead: a set of numbers that has 0, and n + 1
with every n, has all numbers, because its complement would have a least element
(`WFMin`, `NatLessThanWellFounded`). What `FlattenSeq` does is shown in the same way, first that a
function with its recursion exists, then that it is the only one (`JoinsThere`,
`FlattenIs`).

What stays with TLC, and why.

* Liveness (`ConstructionEnds`, `SearchEnds`, `PrintEnds`, `DrawingEnds`, `RunEnds`, that
  linking ends) is out of the prover's reach.
* `BracketsBalanced` is about the programs of the run, in which a decision has two ways that
  meet again. It is no invariant of all programs: of `switch(c) { case 1: a(); break; case 2:
  b(); break; default: d(); }` each arm closes its own brace, and the place where three edges
  meet (`Opened`) closes one more, so that the print ends a level too far out, as TLC shows of
  that program.
* `LoopsOpened` and `RemovalKeepsMarks` are about ten lists; a branch within a loop and an
  endless loop refute them of all.
* `PredecessorsFirst` and `PrintedWhole` of programs that call the function printed: two
  frames are then of one function, which `FramesInv` excludes.

## 5. Not modelled

* The GIMPLE grammar (`parsers/`): input of an external parser generator; its result,
  a list of statements, is the input of `FunctionCfg`.
* Value types and debug output (`Location`, `UEI`, `Successor`, `safe_enum`,
  `debug_utils`, the descriptor classes): no state that a later step changes.
* Wording, colors and layout of all output; the style sheet, the scripts and the vendored
  archive a report comes with; the regular expressions for versions and constraints; the
  identifier of a file's entry (`TranslationUnit.cpp` 234), which two paths may share and
  which nothing refers to.
* Short names of options, options with their value in a word of their own, and a
  backslash in a response file (the separator is made without an escape character).
* A rename or an opening of a file that fails for reasons outside the program (rights, a
  full disk), except that dot may fail.
* Code that is compiled out or that nothing calls: most of `cfg/ControlFlowGraph.cpp`,
  `cfg/visitors/MergeNodeInsertionVisitor.h`, `cfg_algs.cpp` 96-300, `Function.cpp`
  281-554, the second half of `ControlFlowGraphVisitorBase.cpp`. `cfg/GraphTest.cpp` and
  `cfg/ControlFlowGraph_test.cpp` are tests.

## 6. Plan

1. Done: container, construction, linking, search with its chain, printing, drawing,
   driver, configuration, report; proofs of the container and its refinement, of the
   graph under construction and its control flow, of linking, of the verdict, the frames, the path and the call chain of the search, of
   the printer's call stack, of the order and the completeness of what it prints, of the drawing, of the files, the linking, the version
   check and what the driver has done or complained of, of the words of a response file and the precedence
   of options, of the index page and the files it lists, and of the pictures.
2. Proofs: the printer when the function printed is called again.
3. A user's label named EXIT, which takes the place of the built-in one in the label
   map; switches of three arms in the printer.
