------------------------------- MODULE Report -------------------------------
(***************************************************************************)
(* Program::Print and TranslationUnit::Print: the HTML report of a parsed  *)
(* program.  A FileTemplate holds a text and a list of edits, which        *)
(* streaming it applies one after the other, each to all the places of the *)
(* text that match by then.  Files and functions add their entries as such *)
(* edits of one index page, and each function has a picture drawn by dot,  *)
(* whose exit status nobody looks at.                                      *)
(*                                                                         *)
(* A page is a sequence of tokens: the marks the edits look for, the file  *)
(* and function entries put in, and "text" for all between.                *)
(***************************************************************************)
EXTENDS Integers, Sequences, FiniteSets

CONSTANTS
  FunctionName  \* what functions may be called

SQ == INSTANCE SequencesExt

VARIABLES
  phase,   \* what Print is doing
  units,   \* m_translation_units: their files and the names of their functions
  unit,    \* the unit being printed
  fn,      \* the function of it to be printed next; 0 is the file's own entry
  page,    \* index_htmlt's text
  edits,   \* its m_filter_list
  picture, \* the function whose picture name.svg is, if there is such a file
  drawn    \* the functions dot has drawn in this report
reportVars == <<phase, units, unit, fn, page, edits, picture, drawn>>

Mark(m)        == <<m, 0, 0>>
FileEntry(u)   == <<"file", u, 0>>
Link(u, n)     == <<"link", u, n>>
Panel(u, n)    == <<"panel", u, n>>
Nowhere        == <<0, 0>>   \* no picture
Earlier        == <<0, 1>>   \* the picture of an earlier report

Marks(ms) == [n \in DOMAIN ms |-> Mark(ms[n])]

(* index.template.html: the regions for development lie in front of the    *)
(* two places the entries go to.                                           *)
Template ==
  Marks(<<"@INDEX_TITLE@", "index.template.css", "text", "@REPORT_HEADER@", "text",
          "REMOVE_START", "sample", "REMOVE_END", "NAV_START", "NAV_END", "text",
          "REMOVE_START", "sample", "REMOVE_END", "TAB_PANEL_LIST_START",
          "TAB_PANEL_LIST_END", "text">>)

Name(u, n) == units[u].functions[n]
Functions(us) == UNION {{u} \X DOMAIN us[u].functions : u \in DOMAIN us}

ReportInit ==
  /\ phase = "idle" /\ units = <<>> /\ unit = 1 /\ fn = 0
  /\ page = <<>> /\ edits = <<>> /\ drawn = {}
  /\ picture = [f \in FunctionName |-> Nowhere]

-----------------------------------------------------------------------------
(* FileTemplate: regex_replace and regex_insert_before differ in what they *)
(* put, the match itself being "$1" of the second.                         *)
Replace(m, put)      == [at |-> Mark(m), put |-> put]

InsertBefore(m, put) == [at |-> Mark(m), put |-> put \o <<Mark(m)>>]

(* "<!-- REMOVE_START.*?REMOVE_END -->" stops at the first end.            *)
Removal == [at |-> Mark("REMOVE_START"), put |-> Marks(<<"removed">>)]

(* Mutant: ".*" instead of ".*?".                                          *)
RemovedGreedily(p, n) ==
  /\ \E m \in 1 .. n : p[m] = Removal.at
  /\ \E k \in n .. Len(p) : p[k] = Mark("REMOVE_END")

Removed(p, n) ==
  \E m \in 1 .. n : p[m] = Removal.at /\ \A k \in m .. n - 1 : p[k] # Mark("REMOVE_END")

Edited(p, e) ==
  SQ!FlattenSeq([n \in DOMAIN p |->
    IF p[n] = e.at THEN e.put
    ELSE IF e = Removal /\ Removed(p, n) THEN <<>>
    ELSE <<p[n]>>])

-----------------------------------------------------------------------------
(* Program::Print: the page and the edits that do not depend on the program.  The   *)
(* output directory may be there, with the pictures of an earlier report.  *)
StartReport(us) ==
  /\ phase = "idle"
  /\ phase' = "units" /\ units' = us
  /\ page' = Template
  /\ edits' = <<Removal,
                Replace("@INDEX_TITLE@", Marks(<<"title">>)),
                Replace("@REPORT_HEADER@", Marks(<<"header">>)),
                Replace("index.template.css", Marks(<<"index.css">>))>>
  /\ picture' \in [FunctionName -> {Nowhere, Earlier}]
  /\ UNCHANGED <<unit, fn, drawn>>

(* TranslationUnit::Print up to its loop: a file entry brings the marks    *)
(* for its functions, which stay in the page as all marks do.              *)
PrintFile ==
  /\ phase = "units" /\ unit \in DOMAIN units /\ fn = 0
  /\ edits' = Append(edits, InsertBefore("NAV_END",
                <<FileEntry(unit), Mark("FUNCTION_START"), Mark("FUNCTION_END")>>))
  /\ fn' = 1
  /\ UNCHANGED <<phase, units, unit, page, picture, drawn>>

(* Mutant: a picture that is there is taken for this function's.           *)
PrintFunctionUnlessThere ==
  /\ phase = "units" /\ unit \in DOMAIN units /\ fn \in DOMAIN units[unit].functions
  /\ edits' = edits \o <<InsertBefore("FUNCTION_END", <<Link(unit, fn)>>),
                         InsertBefore("TAB_PANEL_LIST_END", <<Panel(unit, fn)>>)>>
  /\ drawn' = drawn \cup {<<unit, fn>>}
  /\ picture' = IF picture[Name(unit, fn)] # Nowhere THEN picture
                ELSE [picture EXCEPT ![Name(unit, fn)] = <<unit, fn>>]
  /\ fn' = fn + 1
  /\ UNCHANGED <<phase, units, unit, page>>

(* PrintControlFlowGraphBitmap writes name.dot and has dot write name.svg. *)
DrawPicture(u, n) ==
  /\ picture' = [picture EXCEPT ![Name(u, n)] = <<u, n>>]
  /\ drawn' = drawn \cup {<<u, n>>}

(* If dot fails the file that was there stays; nobody is told.             *)
DotFails == UNCHANGED <<picture, drawn>>

(* One turn of the loop.                                                   *)
PrintFunction ==
  /\ phase = "units" /\ unit \in DOMAIN units /\ fn \in DOMAIN units[unit].functions
  /\ edits' = edits \o <<InsertBefore("FUNCTION_END", <<Link(unit, fn)>>),
                         InsertBefore("TAB_PANEL_LIST_END", <<Panel(unit, fn)>>)>>
  /\ DotFails \/ DrawPicture(unit, fn)
  /\ fn' = fn + 1
  /\ UNCHANGED <<phase, units, unit, page>>

FilePrinted ==
  /\ phase = "units" /\ unit \in DOMAIN units /\ fn > Len(units[unit].functions)
  /\ unit' = unit + 1 /\ fn' = 0
  /\ UNCHANGED <<phase, units, page, edits, picture, drawn>>

(* "index_html_out << index_htmlt".                                        *)
StreamOut ==
  /\ phase = "units" /\ unit \notin DOMAIN units
  /\ phase' = "stream"
  /\ UNCHANGED <<units, unit, fn, page, edits, picture, drawn>>

ApplyEdit ==
  /\ phase = "stream" /\ edits # <<>>
  /\ page' = Edited(page, Head(edits))
  /\ edits' = Tail(edits)
  /\ UNCHANGED <<phase, units, unit, fn, picture, drawn>>

IndexWritten ==
  /\ phase = "stream" /\ edits = <<>>
  /\ phase' = "written"
  /\ UNCHANGED <<units, unit, fn, page, edits, picture, drawn>>

WriteReport ==
  PrintFile \/ PrintFunction \/ FilePrinted \/ StreamOut \/ ApplyEdit \/ IndexWritten

-----------------------------------------------------------------------------
(* All functions of the units from u on, file by file.                     *)
FunctionsFrom(u) ==
  SQ!FlattenSeq([k \in 1 .. Len(units) - u + 1 |->
     [n \in DOMAIN units[u + k - 1].functions |-> <<u + k - 1, n>>]])

Links(fs)  == [k \in DOMAIN fs |-> Link(fs[k][1], fs[k][2])]
Panels(fs) == [k \in DOMAIN fs |-> Panel(fs[k][1], fs[k][2])]

(* The page as a whole: the template with its names filled in, without its *)
(* samples but with everything between and after them.  Before the end of  *)
(* the navigation come the files in the order given, each with links to    *)
(* its own functions in order; every function has one panel.  No function  *)
(* of an earlier file is listed under a file.  Whether all those from some *)
(* later file on follow its own the property leaves open: the marks for    *)
(* them are still there, so the code lists them, while the sample in       *)
(* index.template.html:263-284 shows a file with its own functions only.   *)
OwnFunctions(u) == [n \in DOMAIN units[u].functions |-> <<u, n>>]
FileList(from) ==
  SQ!FlattenSeq([u \in DOMAIN units |->
    <<FileEntry(u), Mark("FUNCTION_START")>>
    \o Links(OwnFunctions(u)) \o Links(FunctionsFrom(from[u])) \o <<Mark("FUNCTION_END")>>])
IndexPageWhole ==
  phase = "written" =>
    \E from \in [DOMAIN units -> 1 .. Len(units) + 1] :
      /\ \A u \in DOMAIN units : from[u] > u
      /\ page = Marks(<<"title", "index.css", "text", "header", "text", "removed", "NAV_START">>)
                \o FileList(from)
                \o Marks(<<"NAV_END", "text", "removed", "TAB_PANEL_LIST_START">>)
                \o Panels(FunctionsFrom(1))
                \o Marks(<<"TAB_PANEL_LIST_END", "text">>)

(* A panel shows name.svg.  That is a picture of a function of the name,   *)
(* the last one dot could draw; one left by an earlier report is shown     *)
(* only if dot drew none of them.                                          *)
Namesakes(f) == {g \in Functions(units) : Name(g[1], g[2]) = f}
NotAfter(g, h) == g[1] < h[1] \/ (g[1] = h[1] /\ g[2] <= h[2])
PicturesAreCurrent ==
  phase = "written" =>
    \A f \in FunctionName :
      LET shown == Namesakes(f) \cap drawn IN
        IF shown = {} THEN picture[f] \in {Nowhere, Earlier}
        ELSE picture[f] \in shown /\ \A g \in shown : NotAfter(g, picture[f])
=============================================================================
