---------------------------- MODULE Configuration ----------------------------
(***************************************************************************)
(* RuntimeConfiguration: the command line, the configuration file of the   *)
(* user and the response file are read one after the other into one map of *)
(* options, in which the earlier source wins.  ResponseFileParser splits a *)
(* response file into words, character by character.                       *)
(*                                                                         *)
(* A character is a letter, a blank, a quote, "#", "@" or, as one symbol   *)
(* for its spelling, the name of an option: <<"output-dir", "f">> is the   *)
(* word --output-dir=f.  Splitting the command line into words is left to  *)
(* the shell, and an option's value is part of its word.                   *)
(***************************************************************************)
EXTENDS Integers, Sequences, FiniteSets

CONSTANTS
  CommandLines,  \* the argument lists coflo may be started with
  ResponseFiles  \* what the response file may be

SX == INSTANCE SequencesExt

(* The elements of s at the positions in N, in order.                      *)
Only(s, N) == SX!FlattenSeq([n \in DOMAIN s |-> IF n \in N THEN <<s[n]>> ELSE <<>>])

(* Options by how often they may be given and whether they take a value.   *)
Flag   == {"help", "version", "build-info", "cfg-verbose", "cfg-vertex-ids",
           "debug-parse", "debug-link", "debug-cfg"}
Single == {"response-file", "temps-dir", "output-dir", "use-filter", "use-gcc", "use-dot",
           "cfg", "cfg-fmt", "cfg-output-file"}
Multi  == {"define", "include-dir", "constraint", "input-file"}
Option == Flag \cup Single \cup Multi
Unknown == "unknown"

Blank == {" ", "\t", "\r"}
Quote == {"'", "\""}

(* The shell passes no empty word here, and a word is what its first       *)
(* symbol says; an option that takes a value has it.                       *)
IsWord(w) == /\ Len(w) > 0
             /\ w[1] \in Single \cup Multi \cup {"@"} => Len(w) > 1
             /\ w[1] \in Flag => Len(w) = 1
ASSUME CommandLinesAssumption ==
  \A a \in CommandLines : a \in Seq(Seq(STRING)) /\ \A n \in DOMAIN a : IsWord(a[n])
ASSUME ResponseFilesAssumption ==
  \A f \in ResponseFiles : f.there \in BOOLEAN /\ f.lines \in Seq(Seq(STRING))

VARIABLES
  argv,    \* the arguments
  conf,    \* ~/.coflo.conf: "good", "bad" or "absent"
  file,    \* the file the response file option names
  stage,   \* what ParseAllOptionSources is doing
  values,  \* m_vm without the options that only have their default
  lines,   \* response_file_lines
  at,      \* the line being split
  pos,     \* the next character of it
  quoted,  \* bInQuote of the separator
  token,   \* the token so far
  args     \* the words found

given  == <<argv, conf, file>>
reader == <<lines, at, pos, quoted, token, args>>
configVars == <<given, stage, values, reader>>

ConfigInit ==
  /\ argv \in CommandLines /\ file \in ResponseFiles /\ conf \in {"good", "bad", "absent"}
  /\ stage = "command line" /\ values = <<>>
  /\ lines = <<>> /\ at = 1 /\ pos = 1 /\ quoted = FALSE /\ token = <<>> /\ args = <<>>

-----------------------------------------------------------------------------
(* Parsing words into occurrences of options.  Only the command line's     *)
(* parser is given at_option_parser.                                       *)
Occurrence(w, extra) ==
  IF extra /\ w[1] = "@" THEN [opt |-> "response-file", value |-> Tail(w)]
  ELSE IF w[1] \in Option \cup {Unknown} THEN [opt |-> w[1], value |-> Tail(w)]
  ELSE [opt |-> "input-file", value |-> w]

Occurrences(words, extra) == [n \in DOMAIN words |-> Occurrence(words[n], extra)]

(* What store throws for: unknown_option and multiple_occurrences.         *)
Rejected(occ) ==
  \/ \E n \in DOMAIN occ : occ[n].opt = Unknown
  \/ \E m, n \in DOMAIN occ : m # n /\ occ[m].opt = occ[n].opt /\ occ[m].opt \notin Multi

ValuesFor(occ, o) ==
  LET mine == Only(occ, {n \in DOMAIN occ : occ[n].opt = o})
  IN  [n \in DOMAIN mine |-> mine[n].value]
ValuesOf(occ) == [o \in {occ[n].opt : n \in DOMAIN occ} |-> ValuesFor(occ, o)]

(* A store only adds the options that no store before it has set.          *)
Beneath(f, g) == [o \in DOMAIN f \cup DOMAIN g |-> IF o \in DOMAIN f THEN f[o] ELSE g[o]]

FromCommandLine == Occurrences(argv, TRUE)

ReadCommandLine ==
  /\ stage = "command line"
  /\ IF Rejected(FromCommandLine)
     THEN stage' = "failed" /\ UNCHANGED values
     ELSE stage' = "conf" /\ values' = ValuesOf(FromCommandLine)
  /\ UNCHANGED <<given, reader>>

(* stat's result is not looked at: without the file the type tested is     *)
(* whatever was on the stack.  A bad file makes store or notify throw.     *)
ReadConf ==
  /\ stage = "conf"
  /\ \/ conf \in {"bad", "absent"} /\ stage' = "failed"
     \/ conf \in {"good", "absent"} /\ stage' = "response"
  /\ UNCHANGED <<given, values, reader>>

-----------------------------------------------------------------------------
(* ResponseFileParser.                                                     *)

IsBlank(s) == \A n \in DOMAIN s : s[n] \in Blank

FirstNonBlank(s) == SX!SelectInSeq(s, LAMBDA c : c \notin Blank)

(* LoadFileIntoVectorOfStrings leaves out blank lines and comments.        *)
Meaningful(l) == ~IsBlank(l) /\ l[FirstNonBlank(l)] # "#"

Named == "response-file" \in DOMAIN values

NoResponseFile ==
  /\ stage = "response" /\ ~Named
  /\ stage' = "outcome"
  /\ UNCHANGED <<given, values, reader>>

(* A file that cannot be opened is one without words.                      *)
LoadResponseFile ==
  /\ stage = "response" /\ Named
  /\ lines' = IF file.there
               THEN Only(file.lines, {n \in DOMAIN file.lines : Meaningful(file.lines[n])})
               ELSE <<>>
  /\ stage' = "split"
  /\ UNCHANGED <<given, values, at, pos, quoted, token, args>>

InLine    == stage = "split" /\ at <= Len(lines) /\ pos <= Len(lines[at])
Character == lines[at][pos]

(* Mutant: a blank separates words also inside quotes.                     *)
SeparatesAlways(c) == c \in Blank

Separates(c) == c \in Blank /\ ~quoted

(* A token that is all blank, so also "", is skipped: the code's own todo  *)
(* says that it should not be.                                             *)
WithToken == IF IsBlank(token) THEN args ELSE Append(args, token)

(* One turn of the loop in escaped_list_separator.                         *)
ToggleQuote ==
  /\ InLine /\ Character \in Quote
  /\ quoted' = ~quoted
  /\ pos' = pos + 1
  /\ UNCHANGED <<given, stage, values, lines, at, token, args>>

EndToken ==
  /\ InLine /\ Separates(Character)
  /\ args' = WithToken
  /\ token' = <<>>
  /\ pos' = pos + 1
  /\ UNCHANGED <<given, stage, values, lines, at, quoted>>

TakeCharacter ==
  /\ InLine /\ Character \notin Quote /\ ~Separates(Character)
  /\ token' = Append(token, Character)
  /\ pos' = pos + 1
  /\ UNCHANGED <<given, stage, values, lines, at, quoted, args>>

(* The end of a line ends its last token, within quotes or not.            *)
EndLine ==
  /\ stage = "split" /\ at <= Len(lines) /\ pos > Len(lines[at])
  /\ args' = WithToken
  /\ token' = <<>> /\ quoted' = FALSE
  /\ at' = at + 1 /\ pos' = 1
  /\ UNCHANGED <<given, stage, values, lines>>

SplitComplete ==
  /\ stage = "split" /\ at > Len(lines)
  /\ stage' = "store"
  /\ UNCHANGED <<given, values, reader>>

-----------------------------------------------------------------------------
FromResponseFile == Occurrences(args, FALSE)

(* Mutant: what both sources give counts as given twice.                   *)
StoreResponseJointly ==
  /\ stage = "store"
  /\ IF Rejected(FromCommandLine \o FromResponseFile)
     THEN stage' = "failed" /\ UNCHANGED values
     ELSE stage' = "outcome" /\ values' = Beneath(values, ValuesOf(FromResponseFile))
  /\ UNCHANGED <<given, reader>>

(* Mutant: the response file overrides.                                    *)
StoreResponseOver ==
  /\ stage = "store"
  /\ IF Rejected(FromResponseFile)
     THEN stage' = "failed" /\ UNCHANGED values
     ELSE stage' = "outcome" /\ values' = Beneath(ValuesOf(FromResponseFile), values)
  /\ UNCHANGED <<given, reader>>

StoreResponse ==
  /\ stage = "store"
  /\ IF Rejected(FromResponseFile)
     THEN stage' = "failed" /\ UNCHANGED values
     ELSE stage' = "outcome" /\ values' = Beneath(values, ValuesOf(FromResponseFile))
  /\ UNCHANGED <<given, reader>>

(* m_was_help_or_version is set, or main goes on with the options.         *)
TellOutcome ==
  /\ stage = "outcome"
  /\ stage' = IF argv = <<>> \/ {"help", "version", "build-info"} \cap DOMAIN values # {}
              THEN "informed" ELSE "configured"
  /\ UNCHANGED <<given, values, reader>>

ConfigNext ==
  \/ ReadCommandLine \/ ReadConf \/ NoResponseFile \/ LoadResponseFile
  \/ ToggleQuote \/ EndToken \/ TakeCharacter \/ EndLine \/ SplitComplete
  \/ StoreResponse \/ TellOutcome

-----------------------------------------------------------------------------
(* The words of a line as a shell takes them, without reading it from left *)
(* to right.  A word ends at a blank that has an even number of quotes     *)
(* before it, or with the line; it is what lies behind the end before,     *)
(* less the quotes.  So "" is a word, and " " is one.                      *)
QuotesBefore(l, n) == Cardinality({m \in 1 .. n - 1 : l[m] \in Quote})
Ends(l) == {n \in DOMAIN l : l[n] \in Blank /\ QuotesBefore(l, n) % 2 = 0} \cup {Len(l) + 1}
EndBefore(ends, n) == CHOOSE m \in ends \cup {0} : m < n /\ \A k \in ends : k < n => k <= m
Unquoted(s) == Only(s, {n \in DOMAIN s : s[n] \notin Quote})
Stretch(l, n) == SubSeq(l, EndBefore(Ends(l), n) + 1, n - 1)
Part(l, n)    == Unquoted(Stretch(l, n))
WordsOf(l) ==
  SX!FlattenSeq([n \in 1 .. Len(l) + 1 |->
     IF n \in Ends(l) /\ Stretch(l, n) # <<>> THEN <<Part(l, n)>> ELSE <<>>])

(* The words coflo sees: "" and the all blank ones are not among them.     *)
TokensOf(l) ==
  SX!FlattenSeq([n \in 1 .. Len(l) + 1 |->
     IF n \in Ends(l) /\ ~IsBlank(Part(l, n)) THEN <<Part(l, n)>> ELSE <<>>])
HasBlankWord(l) == \E n \in Ends(l) : Stretch(l, n) # <<>> /\ IsBlank(Part(l, n))

WordsOfFile ==
  SX!FlattenSeq([n \in DOMAIN file.lines |->
     IF Meaningful(file.lines[n]) THEN WordsOf(file.lines[n]) ELSE <<>>])
TokensOfFile ==
  SX!FlattenSeq([n \in DOMAIN file.lines |->
     IF Meaningful(file.lines[n]) THEN TokensOf(file.lines[n]) ELSE <<>>])
Words  == IF Named /\ file.there THEN WordsOfFile ELSE <<>>
Tokens == IF Named /\ file.there THEN TokensOfFile ELSE <<>>
NoBlankWord ==
  \A n \in DOMAIN file.lines : Meaningful(file.lines[n]) => ~HasBlankWord(file.lines[n])

(* ResponseFileParser.h:28: a response file holds command line parameters  *)
(* exactly as on the command line.  Each option the command line leaves    *)
(* open has the values it would have if the words of the response file     *)
(* stood there instead of the file's name, in their order, if none of them *)
(* starts with "@" or is empty or all blank.  Of a file with a word of     *)
(* that last kind the property does not speak: the code skips the word,    *)
(* against that line and what ResponseFileParser.cpp:69 says of it.        *)
ResponseActsAsCommandLine ==
  stage \in {"informed", "configured"} =>
    LET own   == ValuesOf(FromCommandLine)
        words == Words
        there == ValuesOf(Occurrences(words, TRUE))
    IN  (NoBlankWord /\ \A n \in DOMAIN words : words[n][1] # "@") =>
           /\ DOMAIN values = DOMAIN own \cup DOMAIN there
           /\ \A o \in DOMAIN values \ DOMAIN own : values[o] = there[o]

(* RuntimeConfiguration.cpp:187: no later source changes what an earlier   *)
(* one has set, neither in part (a file added to the list of files) nor as *)
(* a whole.                                                                *)
CommandLineWins ==
  stage \in {"response", "split", "store", "outcome", "informed", "configured"} =>
    \A o \in DOMAIN ValuesOf(FromCommandLine) :
      o \in DOMAIN values /\ values[o] = ValuesOf(FromCommandLine)[o]

(* The run is refused only for what one source gets wrong by itself: an    *)
(* option may be given once in each.                                       *)
RefusedForCause ==
  stage = "failed" =>
    \/ Rejected(FromCommandLine) \/ conf # "good"
    \/ Rejected(Occurrences(Tokens, FALSE))
=============================================================================
