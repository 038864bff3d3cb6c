----------------------------- MODULE MCSession -----------------------------
(***************************************************************************)
(* Command lines of up to three words, and response files: every line of   *)
(* up to four characters, and lines with options, quotes and comments.     *)
(***************************************************************************)
EXTENDS Session, TLC

UpTo(n, S) == UNION {[1 .. k -> S] : k \in 0 .. n}

F == <<"f">>
G == <<"g">>
Out   == <<"output-dir", "o">>
At    == <<"@", "r">>
Named1 == <<"response-file", "r">>

MCCommandLines ==
  {<<>>, <<At>>, <<Named1, Out>>, <<At, At>>, <<<<"help">>, At>>, <<Out>>, <<<<"unknown">>, F>>,
   <<At, F, Out>>, <<At, <<"define", "x">>, Out>>, <<F, Out, G>>, <<F, Out, F>>, <<Out, <<"e">>, At>>}

Characters == {"f", " ", "\"", "#"}
Shown  == <<"output-dir", "o", " ", "f", " ", "g">>
Spaced == <<"define", "\"", "a", " ", "b", "\"", " ", "define", "c", "\t", "g">>
Apart  == <<"'", "include-dir", "a", "\t", "b", "'", " ", "f">>
Twice  == <<"use-gcc", "a", " ", "use-gcc", "b">>
Once   == <<"\r", "use-gcc", "a", "\"", " ", "\"", " ", "e">>
Odd    == <<"unknown", " ", "f">>
Aside  == <<"\t", "#", " ", "unknown">>
Nested == <<"@", "r", " ", "f">>
Inform == <<"version">>
Lines  == {Shown, Spaced, Apart, Twice, Once, Odd, Aside, Nested, Inform}

MCResponseFiles ==
  [there : {FALSE}, lines : {<<Shown>>}]
  \cup [there : {TRUE}, lines : {<<l>> : l \in UpTo(4, Characters)} \cup UpTo(2, Lines)]

MCContents == F :> <<"main", "h">> @@ G :> <<"h">> @@ <<"e">> :> <<>>
=============================================================================
