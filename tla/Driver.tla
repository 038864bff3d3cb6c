------------------------------- MODULE Driver -------------------------------
(***************************************************************************)
(* One run of coflo after another in the same directory: main reads the    *)
(* options, checks the compiler's version, has it dump each source file,   *)
(* renames, reads and parses the dump, links all files, and then prints,   *)
(* checks constraints and writes the report.  A run may be killed at any   *)
(* point; the files it wrote stay.                                         *)
(*                                                                         *)
(* A dump is named after the last component of the source's path and the   *)
(* number of the compiler pass that wrote it, and is renamed to a name     *)
(* without the number.  What the linking, printing and searching do is the *)
(* subject of other modules; here it matters to which functions, and that  *)
(* a search or the printing of text may not come to an end.                *)
(***************************************************************************)
EXTENDS VersionNumbers, FiniteSets

CONSTANTS
  Files,      \* the paths of the source files
  BaseOf,     \* BaseOf[f] is the last component of the path f
  Texts,      \* what a source file may contain
  Compilers,  \* the compilers: what each prints as its version, and the number of the pass
  Commands,   \* the command lines and configuration files given to a run
  MaxRuns     \* bound: the number of runs

(* A text is compiled or not, its dump parsed or not, and defines functions*)
(* that call others.  A dump is known by its source.                       *)
Bases  == {BaseOf[f] : f \in Files}
Passes == {c.pass : c \in Compilers}
NoDump == [file |-> "", text |-> [compiles |-> FALSE, parses |-> FALSE, defs |-> <<>>]]
Dumps  == [file : Files, text : Texts] \cup {NoDump}

(* Options.  The command line is stored first, and a store leaves alone    *)
(* what an earlier one has set.                                            *)
Over(f, g) == [x \in DOMAIN f \cup DOMAIN g |-> IF x \in DOMAIN f THEN f[x] ELSE g[x]]
OptionsOf(c) == Over(c.line, c.response)

ASSUME BoundAssumption == MaxRuns \in Nat
ASSUME CompilersAssumption ==
  IsFiniteSet(Compilers) /\ \A c \in Compilers : c.prints \in Seq(Version)
ASSUME BasesAssumption == BaseOf \in [Files -> STRING] /\ "" \notin Files

(* A text defines a list of functions, each with the names it calls.       *)
ASSUME TextsAssumption ==
  \A t \in Texts : t.defs \in Seq([name : STRING, calls : SUBSET STRING])

(* A constraint names two functions, or is a string that f_fxf_regex does  *)
(* not match.                                                              *)
NoMatch == <<>>
Constraints == (STRING \X STRING) \cup {NoMatch}

(* The option parser hands over a list of source files, or of constraints, *)
(* or no such option.                                                      *)
ASSUME CommandsAssumption ==
  \A c \in Commands :
    /\ c.compiler \in Compilers
    /\ "input-file" \in DOMAIN OptionsOf(c) =>
         OptionsOf(c)["input-file"] \in Seq(Files) \ {<<>>}
    /\ "constraint" \in DOMAIN OptionsOf(c) =>
         OptionsOf(c)["constraint"] \in Seq(Constraints) \ {<<>>}

VARIABLES
  src,         \* the source files
  dumps,       \* the files <base>.NNNt.gimple
  normal,      \* the files <base>.coflo.gimple
  runs,        \* how many runs have been started
  leftovers,   \* whether a run was cut short while a dump was on the disk
  cmd,         \* the options of the run
  pc,          \* what main is doing, "idle" between runs
  at,          \* the position of the loop it is in
  exit,        \* the status of the last run that ended
  units,       \* m_translation_units: the dump each file's functions were built from
  functions,   \* m_function_map, a function being its unit and place in it
  targets,     \* the functions the calls of the program are resolved to
  unresolved,  \* unresolved_function_calls
  results      \* the functions printed, m_constraints, the rules run, the functions told
               \* of in the report, and what was complained of without ending the run

disk   == <<src, dumps, normal>>
linked == <<units, functions, targets, unresolved>>
vars   == <<disk, runs, leftovers, cmd, pc, at, exit, linked, results>>

-----------------------------------------------------------------------------
Options == OptionsOf(cmd)
Given(o) == o \in DOMAIN Options
Sources == IF Given("input-file") THEN Options["input-file"] ELSE <<>>
Wanted  == IF Given("constraint") THEN Options["constraint"] ELSE <<>>

Definitions(u) == units[u].text.defs
Name(f)  == Definitions(f[1])[f[2]].name
Calls(f) == {<<f, n>> : n \in Definitions(f[1])[f[2]].calls}
InUnit(u) == {<<u, k>> : k \in 1 .. Len(Definitions(u))}
NoResults ==
  [printed |-> <<>>, rules |-> <<>>, checked |-> <<>>, told |-> <<>>, complaints |-> {}]

(* A message to the user, after which the run goes on.                     *)
Complain(what, n) == results' = [results EXCEPT !.complaints = @ \cup {<<what, n>>}]

GoTo(phase) == pc' = phase /\ at' = 1
Exit(status) == pc' = "idle" /\ exit' = status /\ at' = 1

(* The next turn of a loop over n things, or what comes after it.          *)
Step(n, again, after) ==
  IF at < n THEN pc' = again /\ at' = at + 1 ELSE GoTo(after)

Init ==
  /\ src \in [Files -> Texts]
  /\ dumps = [x \in Bases \X Passes |-> NoDump]
  /\ normal = [b \in Bases |-> NoDump]
  /\ runs = 0 /\ leftovers = FALSE
  /\ cmd \in Commands /\ pc = "idle" /\ at = 1 /\ exit = "0"
  /\ units = <<>> /\ functions = <<>> /\ targets = <<>> /\ unresolved = {}
  /\ results = NoResults

(* The user starts a run, perhaps after having changed a file.             *)
Start ==
  /\ pc = "idle" /\ runs < MaxRuns
  /\ cmd' \in Commands
  /\ \E f \in Files, t \in Texts : src' = [src EXCEPT ![f] = t]
  /\ runs' = runs + 1
  /\ GoTo("configure")
  /\ units' = <<>> /\ functions' = <<>> /\ targets' = <<>> /\ unresolved' = {}
  /\ results' = NoResults
  /\ UNCHANGED <<dumps, normal, leftovers, exit>>

(* RuntimeConfiguration.  Without a configuration file the type of file    *)
(* tested is whatever was on the stack; if it happens to say "regular",    *)
(* opening the file throws.                                                *)
Configure ==
  /\ pc = "configure"
  /\ \/ cmd.conf \in {"bad", "absent"} /\ Exit("1")
     \/ /\ cmd.conf \in {"good", "absent"}
        /\ IF Given("help") \/ DOMAIN Options = {} THEN Exit("0")
           ELSE /\ IF Given("input-file") THEN GoTo("version") ELSE GoTo("print")
                /\ UNCHANGED exit
  /\ UNCHANGED <<disk, runs, leftovers, cmd, linked, results>>

-----------------------------------------------------------------------------
(* main asks for the version twice, to print it and to compare it.         *)
Reported(c) == GetVersion(GetVersion(<<>>, c.prints), c.prints)

CheckVersion ==
  /\ pc = "version"
  /\ IF Less(Reported(cmd.compiler), <<4, 5, 0>>)
     THEN Exit("1") /\ UNCHANGED units
     ELSE /\ units' = [u \in DOMAIN Sources |-> NoDump]
          /\ GoTo("compile") /\ UNCHANGED exit
  /\ UNCHANGED <<disk, runs, leftovers, cmd, functions, targets, unresolved, results>>

-----------------------------------------------------------------------------
(* TranslationUnit::ParseFile.                                             *)
Base == BaseOf[Sources[at]]
Dump == [file |-> Sources[at], text |-> src[Sources[at]]]

(* The compiler writes its dump; one that fails may have written it.       *)
Compile ==
  /\ pc = "compile"
  /\ IF Dump.text.compiles
     THEN /\ dumps' = [dumps EXCEPT ![<<Base, cmd.compiler.pass>>] = Dump]
          /\ pc' = "rename" /\ UNCHANGED <<at, exit, leftovers>>
     ELSE /\ Exit("1")
          /\ \/ UNCHANGED <<dumps, leftovers>>
             \/ dumps' = [dumps EXCEPT ![<<Base, cmd.compiler.pass>>] = Dump] /\ leftovers' = TRUE
  /\ UNCHANGED <<src, normal, runs, cmd, linked, results>>

Matches == {p \in Passes : dumps[<<Base, p>>] # NoDump}

(* Mutant: if there are several dumps any is taken.                        *)
RenameSomeMatch ==
  /\ pc = "rename"
  /\ \E p \in Matches :
       /\ normal' = [normal EXCEPT ![Base] = dumps[<<Base, p>>]]
       /\ dumps' = [dumps EXCEPT ![<<Base, p>>] = NoDump]
       /\ pc' = "read" /\ UNCHANGED <<at, exit>>
  /\ UNCHANGED <<src, runs, leftovers, cmd, linked, results>>

(* Mutant: the dump is copied instead of renamed.                          *)
RenameByCopy ==
  /\ pc = "rename"
  /\ IF Cardinality(Matches) = 1
     THEN \E p \in Matches :
            /\ normal' = [normal EXCEPT ![Base] = dumps[<<Base, p>>]]
            /\ pc' = "read" /\ UNCHANGED <<at, exit>>
     ELSE Exit("1") /\ UNCHANGED normal
  /\ UNCHANGED <<src, dumps, runs, leftovers, cmd, linked, results>>

(* ToolCompiler::GenerateCFG after the compiler has returned.              *)
Rename ==
  /\ pc = "rename"
  /\ IF Cardinality(Matches) = 1
     THEN \E p \in Matches :
            /\ normal' = [normal EXCEPT ![Base] = dumps[<<Base, p>>]]
            /\ dumps' = [dumps EXCEPT ![<<Base, p>>] = NoDump]
            /\ pc' = "read" /\ UNCHANGED <<at, exit>>
     ELSE Exit("1") /\ UNCHANGED <<normal, dumps>>
  /\ UNCHANGED <<src, runs, leftovers, cmd, linked, results>>

(* Mutant: the units of the map are counted from 0.                        *)
WithUnitFromZero(u, text) ==
  Over([n \in {text.defs[k].name : k \in DOMAIN text.defs} |->
          <<u - 1, CHOOSE k \in DOMAIN text.defs : text.defs[k].name = n>>], functions)

(* BuildFunctionsFromThreeAddressFormStatementLists.                       *)
WithUnit(u, text) ==
  Over([n \in {text.defs[k].name : k \in DOMAIN text.defs} |->
          <<u, CHOOSE k \in DOMAIN text.defs :
                 /\ text.defs[k].name = n
                 /\ \A m \in DOMAIN text.defs : text.defs[m].name = n => m <= k>>], functions)

(* Mutant: a file whose dump does not parse is tried again.                *)
ReadDumpRetry ==
  /\ pc = "read"
  /\ IF normal[Base] = NoDump THEN Exit("1") /\ UNCHANGED linked
     ELSE /\ IF normal[Base].text.parses
             THEN /\ units' = [units EXCEPT ![at] = normal[Base]]
                  /\ functions' = WithUnit(at, normal[Base].text)
                  /\ Step(Len(Sources), "compile", "link")
             ELSE pc' = "compile" /\ UNCHANGED <<at, units, functions>>
          /\ UNCHANGED <<targets, unresolved, exit>>
  /\ UNCHANGED <<disk, runs, leftovers, cmd, results>>

(* ParseFile after the dump was renamed.  A syntax error is only told of:  *)
(* true is returned all the same, although TranslationUnit.h:62 says false.*)

ReadDump ==
  /\ pc = "read"
  /\ IF normal[Base] = NoDump THEN Exit("1") /\ UNCHANGED <<linked, results>>
     ELSE /\ IF normal[Base].text.parses
             THEN /\ units' = [units EXCEPT ![at] = normal[Base]]
                  /\ functions' = WithUnit(at, normal[Base].text)
                  /\ UNCHANGED results
             ELSE Complain("syntax", at) /\ UNCHANGED <<units, functions>>
          /\ Step(Len(Sources), "compile", "link")
          /\ UNCHANGED <<targets, unresolved, exit>>
  /\ UNCHANGED <<disk, runs, leftovers, cmd>>

(* Mutant: a file is linked with those read before it.                     *)
LinkUnitSoFar ==
  /\ pc = "link"
  /\ LET calls == UNION {Calls(f) : f \in InUnit(at)}
         known == {n \in DOMAIN functions : functions[n][1] <= at}
     IN /\ targets' = Over([c \in {d \in calls : d[2] \in known} |-> functions[c[2]]], targets)
        /\ unresolved' = unresolved \cup {c \in calls : c[2] \notin known}
  /\ Step(Len(Sources), "link", "print")
  /\ UNCHANGED <<disk, runs, leftovers, cmd, exit, units, functions, results>>

(* TranslationUnit::Link, once all files have been parsed.                 *)
LinkUnit ==
  /\ pc = "link"
  /\ LET calls == UNION {Calls(f) : f \in InUnit(at)} IN
       /\ targets' = Over([c \in {d \in calls : d[2] \in DOMAIN functions} |-> functions[c[2]]],
                           targets)
       /\ unresolved' = unresolved \cup {c \in calls : c[2] \notin DOMAIN functions}
  /\ Step(Len(Sources), "link", "print")
  /\ UNCHANGED <<disk, runs, leftovers, cmd, exit, units, functions, results>>

-----------------------------------------------------------------------------
(* What the run was asked for.  Without source files the_program is an     *)
(* uninitialized pointer.                                                  *)
NoProgram == ~Given("input-file")

(* LookupFunction.                                                         *)
Known(f) == f \in DOMAIN functions

(* A format other than these two is text.                                  *)
ToFile     == Given("cfg-fmt") /\ Options["cfg-fmt"] \in {"img", "dot"}
NoFilename == Given("cfg-output-file") /\ Options["cfg-output-file"] = ""

(* The graph of a function the program has.  A missing name for the output *)
(* file is only told of; whether the file can be written, or dot succeeds, *)
(* is not looked at.  Text is printed by the walk of KahnPrint, which may  *)
(* return, not return, or dereference a null pointer.                      *)
PrintKnown(f) ==
  \/ ToFile /\ NoFilename /\ Complain("filename", 1) /\ GoTo("constraints") /\ UNCHANGED exit
  \/ /\ ~(ToFile /\ NoFilename)
     /\ results' = [results EXCEPT !.printed = Append(@, f)]
     /\ GoTo("constraints") /\ UNCHANGED exit
  \/ ~ToFile /\ GoTo("looping") /\ UNCHANGED <<exit, results>>
  \/ ~ToFile /\ Exit("undefined") /\ UNCHANGED results

PrintCfg ==
  /\ pc = "print"
  /\ \/ ~Given("cfg") /\ GoTo("constraints") /\ UNCHANGED <<exit, results>>
     \/ Given("cfg") /\ NoProgram /\ Exit("undefined") /\ UNCHANGED results
     \/ Given("cfg") /\ ~NoProgram /\ ~Known(Options["cfg"]) /\ Exit("1") /\ UNCHANGED results
     \/ Given("cfg") /\ ~NoProgram /\ Known(Options["cfg"]) /\ PrintKnown(functions[Options["cfg"]])
  /\ UNCHANGED <<disk, runs, leftovers, cmd, linked>>

Addable(c) == c # NoMatch /\ Known(c[1]) /\ Known(c[2])
AddRule(c) ==
  results' = [results EXCEPT !.rules = Append(@, <<functions[c[1]], functions[c[2]]>>)]

(* Mutant: the first constraint that cannot be added ends the loop.        *)
AddConstraintUntilBad ==
  /\ pc = "constraints"
  /\ \/ ~Given("constraint") /\ GoTo("report") /\ UNCHANGED <<exit, results>>
     \/ Given("constraint") /\ NoProgram /\ Exit("undefined") /\ UNCHANGED results
     \/ /\ Given("constraint") /\ ~NoProgram /\ UNCHANGED exit
        /\ IF Addable(Wanted[at])
           THEN AddRule(Wanted[at]) /\ Step(Len(Wanted), "constraints", "analyze")
           ELSE Complain("constraint", at) /\ GoTo("analyze")
  /\ UNCHANGED <<disk, runs, leftovers, cmd, linked>>

(* Analyzer::AddConstraints, one constraint a turn.  One that cannot be    *)
(* parsed, or is about an unknown function, is told of and left out.       *)
AddConstraint ==
  /\ pc = "constraints"
  /\ \/ ~Given("constraint") /\ GoTo("report") /\ UNCHANGED <<exit, results>>
     \/ Given("constraint") /\ NoProgram /\ Exit("undefined") /\ UNCHANGED results
     \/ /\ Given("constraint") /\ ~NoProgram /\ UNCHANGED exit
        /\ IF Addable(Wanted[at]) THEN AddRule(Wanted[at]) ELSE Complain("constraint", at)
        /\ Step(Len(Wanted), "constraints", "analyze")
  /\ UNCHANGED <<disk, runs, leftovers, cmd, linked>>

(* Analyzer::Analyze, one rule a turn.  No verdict changes the exit status;*)
(* the search of ReachabilitySearch may push frames without end.           *)
RunRule ==
  /\ pc = "analyze"
  /\ LET done == Len(results.checked) IN
       \/ done >= Len(results.rules) /\ GoTo("report") /\ UNCHANGED results
       \/ /\ done < Len(results.rules)
          /\ results' = [results EXCEPT !.checked = Append(@, results.rules[done + 1])]
          /\ UNCHANGED <<pc, at>>
       \/ done < Len(results.rules) /\ GoTo("looping") /\ UNCHANGED results
  /\ UNCHANGED <<disk, runs, leftovers, cmd, exit, linked>>

(* Program::Print, one file of the program a turn.                         *)
WriteReport ==
  /\ pc = "report"
  /\ CASE ~Given("output-dir") -> Exit("0") /\ UNCHANGED results
       [] Given("output-dir") /\ NoProgram -> Exit("undefined") /\ UNCHANGED results
       [] OTHER ->
            /\ results' = [results EXCEPT !.told =
                 @ \o [k \in DOMAIN Definitions(at) |-> <<at, k>>]]
            /\ IF at < Len(Sources)
               THEN at' = at + 1 /\ UNCHANGED <<pc, exit>>
               ELSE Exit("0")
  /\ UNCHANGED <<disk, runs, leftovers, cmd, linked>>

Run ==
  \/ Configure \/ CheckVersion \/ Compile \/ Rename \/ ReadDump \/ LinkUnit
  \/ PrintCfg \/ AddConstraint \/ RunRule \/ WriteReport

(* A signal, the machine going down, or no memory left for a search.       *)
Kill ==
  /\ pc # "idle"
  /\ Exit("killed")
  /\ leftovers' = (leftovers \/ \E b \in Bases, p \in Passes : dumps[<<b, p>>] # NoDump)
  /\ UNCHANGED <<disk, runs, cmd, linked, results>>

Resting == pc = "idle" /\ runs = MaxRuns /\ UNCHANGED vars

Next == Start \/ Run \/ Kill \/ Resting

(* The process is scheduled, and the tools it starts return.               *)
Spec == Init /\ [][Next]_vars /\ WF_vars(Run)

-----------------------------------------------------------------------------
TypeOK ==
  /\ src \in [Files -> Texts]
  /\ dumps \in [Bases \X Passes -> Dumps] /\ normal \in [Bases -> Dumps]
  /\ runs \in 0 .. MaxRuns /\ leftovers \in BOOLEAN /\ cmd \in Commands
  /\ pc \in {"idle", "configure", "version", "compile", "rename", "read", "link",
             "print", "constraints", "analyze", "report", "looping"}
  /\ \/ at = 1
     \/ pc = "constraints" /\ at \in 1 .. Len(Wanted)
     \/ pc # "constraints" /\ at \in 1 .. Len(Sources)
  /\ exit \in {"0", "1", "killed", "undefined"}
  /\ units \in Seq(Dumps)
  /\ \A n \in DOMAIN functions : functions[n] \in UNION {InUnit(u) : u \in DOMAIN units}

(* The functions of a file come from that file as it is, although another  *)
(* file of the command may have the same last component, and dumps of an   *)
(* earlier text may have been left by runs that were killed.               *)
BuiltFromOwnSource ==
  \A u \in DOMAIN units : units[u] # NoDump =>
    units[u] = [file |-> Sources[u], text |-> src[Sources[u]]]

(* A call is resolved exactly if some file of the command defines the      *)
(* function, whichever file comes first, and all calls of a name lead to   *)
(* the function that --cfg and the constraints find under it.              *)
AllCalls == UNION {UNION {Calls(f) : f \in InUnit(u)} : u \in DOMAIN units}
Defined  == UNION {{Name(f) : f \in InUnit(u)} : u \in DOMAIN units}
LinkSeesEveryFile ==
  pc \in {"print", "constraints", "analyze", "report"} =>
    /\ unresolved = {c \in AllCalls : c[2] \notin Defined}
    /\ DOMAIN targets = AllCalls \ unresolved
    /\ \A c \in DOMAIN targets : targets[c] = functions[c[2]] /\ Name(targets[c]) = c[2]

(* A numbered dump is on the disk only while its file is being compiled,   *)
(* or since a run was cut short; a run that was not is never told there    *)
(* are too many.                                                           *)
DumpsCleanedUp ==
  /\ (\E b \in Bases, p \in Passes : dumps[<<b, p>>] # NoDump) => pc = "rename" \/ leftovers
  /\ pc = "rename" /\ ~leftovers => Cardinality(Matches) = 1

(* No compiler older than 4.5.0 is used, a missing field counting as 0.    *)
Field(v, n) == IF n <= Len(v) THEN v[n] ELSE 0
OldCompilerRefused ==
  pc \in {"compile", "rename", "read", "link"} =>
    LET v == Extracted(cmd.compiler.prints) IN
      \/ Field(v, 1) > 4
      \/ Field(v, 1) = 4 /\ Field(v, 2) >= 5

(* A run that says it succeeded has done what it was asked, or complained  *)
(* of what it could not do: each file that parses has its functions in the *)
(* program, the function asked for was printed, each constraint on         *)
(* functions of the program was checked once and in the order given, and   *)
(* the report tells of each function of each file once, in the order of    *)
(* the command; a file with a syntax error, a missing name of the output   *)
(* file and any other constraint were complained of.  So a script that     *)
(* looks only at the exit status may take a run for good that did less.    *)
Checkable(n) == Wanted[n] # NoMatch /\ {Wanted[n][1], Wanted[n][2]} \subseteq Defined
CanPrint == ~(ToFile /\ NoFilename)
Told(what, n) == <<what, n>> \in results.complaints
ReadOrTold(u) ==
  IF src[Sources[u]].parses
  THEN units[u] = [file |-> Sources[u], text |-> src[Sources[u]]]
  ELSE Told("syntax", u)

(* The pairs of s are those of the first n constraints that can be checked.*)
InTheirOrder(s, n) ==
  \E of \in [DOMAIN s -> 1 .. n] :
    /\ \A j, k \in DOMAIN s : j < k => of[j] < of[k]
    /\ {of[k] : k \in DOMAIN s} = {m \in 1 .. n : Checkable(m)}
    /\ \A k \in DOMAIN s : s[k] = <<functions[Wanted[of[k]][1]], functions[Wanted[of[k]][2]]>>

DoneOrComplained ==
  pc = "idle" /\ runs > 0 /\ exit = "0" /\ ~Given("help") /\ DOMAIN Options # {} =>
    /\ \A u \in DOMAIN Sources : ReadOrTold(u)
    /\ Given("cfg") =>
         IF CanPrint THEN results.printed = << functions[Options["cfg"]] >> ELSE Told("filename", 1)
    /\ \A n \in DOMAIN Wanted : Checkable(n) \/ Told("constraint", n)
    /\ InTheirOrder(results.checked, Len(Wanted))
    /\ Given("output-dir") =>
         LET told == results.told IN
           /\ {told[n] : n \in DOMAIN told} = UNION {InUnit(u) : u \in DOMAIN units}
           /\ \A m, n \in DOMAIN told : m < n =>
                \/ told[m][1] < told[n][1]
                \/ told[m][1] = told[n][1] /\ told[m][2] < told[n][2]

(* A run that is started ends, or is caught in a search or the printing of *)
(* a text that does not: nothing else main does goes on for ever.          *)
RunEnds == pc # "idle" ~> pc \in {"idle", "looping"}
=============================================================================
