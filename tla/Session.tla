------------------------------ MODULE Session ------------------------------
(***************************************************************************)
(* main for a user who wants a report: the options are collected, the      *)
(* files they name are parsed, and the program is printed.  Everything     *)
(* between, which can end the run earlier, is module Driver's.             *)
(***************************************************************************)
EXTENDS Configuration, Report

CONSTANTS
  Contents  \* the functions each source file defines, in order
ASSUME ContentsAssumption ==
  \A f \in DOMAIN Contents : Contents[f] \in Seq(FunctionName)

VARIABLES outcome  \* "running", or how main ends
vars == <<configVars, reportVars, outcome>>

Init == ConfigInit /\ ReportInit /\ outcome = "running"

Asked(o) == o \in DOMAIN values
Readable == SX!ToSet(values["input-file"]) \subseteq DOMAIN Contents

Configure ==
  /\ outcome = "running"
  /\ ConfigNext
  /\ UNCHANGED <<reportVars, outcome>>

(* The catch of main, or wasHelpOrVersion.                                 *)
NothingToDo ==
  /\ outcome = "running"
  /\ \/ stage = "failed" /\ outcome' = "failure"
     \/ stage = "informed" /\ outcome' = "success"
     \/ /\ stage = "configured" /\ ~Asked("output-dir")
        /\ Asked("input-file") => Readable
        /\ outcome' = "success"
  /\ UNCHANGED <<configVars, reportVars>>

(* A file that is not there: the compiler fails.                           *)
ParseFails ==
  /\ outcome = "running"
  /\ stage = "configured" /\ Asked("input-file")
  /\ ~Readable
  /\ outcome' = "failure"
  /\ UNCHANGED <<configVars, reportVars>>

(* AddSourceFiles and Parse: one translation unit for each file, as often  *)
(* and in the order given.                                                 *)
ParsedUnits(files) ==
  [k \in DOMAIN files |-> [file |-> files[k], functions |-> Contents[files[k]]]]

PrintProgram ==
  /\ outcome = "running"
  /\ stage = "configured" /\ Asked("output-dir") /\ Asked("input-file")
  /\ Readable
  /\ StartReport(ParsedUnits(values["input-file"]))
  /\ UNCHANGED <<configVars, outcome>>

(* the_program is used without having been set.                            *)
PrintNoProgram ==
  /\ outcome = "running"
  /\ stage = "configured" /\ Asked("output-dir") /\ ~Asked("input-file")
  /\ outcome' = "undefined"
  /\ UNCHANGED <<configVars, reportVars>>

ReportStep ==
  /\ outcome = "running"
  /\ WriteReport
  /\ UNCHANGED <<configVars, outcome>>

Return ==
  /\ outcome = "running" /\ phase = "written"
  /\ outcome' = "success"
  /\ UNCHANGED <<configVars, reportVars>>

Run == Configure \/ NothingToDo \/ ParseFails \/ PrintProgram \/ PrintNoProgram \/ ReportStep \/ Return
Next == Run \/ (outcome # "running" /\ UNCHANGED vars)

Spec == Init /\ [][Next]_vars /\ WF_vars(Run)

-----------------------------------------------------------------------------
(* main.cpp:176, RuntimeConfiguration.cpp:184: a report that was written   *)
(* shows the files of the command line or, only if that has none, those of *)
(* the response file, each as often as given and in that order.            *)
FilesOf(occ) == SX!FlattenSeq([n \in DOMAIN occ |->
                  IF occ[n].opt = "input-file" THEN <<occ[n].value>> ELSE <<>>])
FilesAsked == IF FilesOf(FromCommandLine) # <<>> THEN FilesOf(FromCommandLine)
              ELSE FilesOf(Occurrences(Tokens, FALSE))
ReportShowsFilesAsked ==
  (outcome = "success" /\ phase = "written") =>
    LET shown == Only(page, {k \in DOMAIN page : page[k][1] = "file"})
    IN [k \in DOMAIN shown |-> units[shown[k][2]].file] = FilesAsked
=============================================================================
