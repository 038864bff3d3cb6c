------------------------------ MODULE MCDriver ------------------------------
(***************************************************************************)
(* Runs over two files whose paths end in the same component, with         *)
(* compilers that are too old or whose passes are numbered differently.    *)
(***************************************************************************)
EXTENDS Driver, TLC

Paths      == {"a/x.c", "b/x.c"}
Components == [f \in Paths |-> "x.c"]

Def(n, cs) == [name |-> n, calls |-> cs]
Good(defs) == [compiles |-> TRUE, parses |-> TRUE, defs |-> defs]
Contents ==
  { Good(<<Def("main", {"get"})>>),
    Good(<<Def("get", {"hop"}), Def("main", {"get", "main"})>>),
    [compiles |-> TRUE, parses |-> FALSE, defs |-> <<>>],
    [compiles |-> FALSE, parses |-> FALSE, defs |-> <<>>] }

Tools ==
  { [prints |-> << <<4, 5, 2>> >>, pass |-> "004"], [prints |-> << <<>>, <<4, 6, 1>> >>, pass |-> "003"],
    [prints |-> << <<4, 5>> >>, pass |-> "004"], [prints |-> << <<4, 4, 7>> >>, pass |-> "004"],
    [prints |-> << <<12>> >>, pass |-> "003"], [prints |-> << <<4>> >>, pass |-> "003"],
    [prints |-> << <<>> >>, pass |-> "004"] }

Cmd(line, response, conf, c) ==
  [line |-> line, response |-> response, conf |-> conf, compiler |-> c]
Usual == [prints |-> << <<4, 5, 2>> >>, pass |-> "004"]
Current == {c \in Tools : Len(Extracted(c.prints)) = 3 /\ Extracted(c.prints)[2] >= 5}
OneFile == "input-file" :> <<"a/x.c">>
TwoFiles == "input-file" :> <<"a/x.c", "b/x.c">>
Asked == "cfg" :> "get" @@ "constraint" :> << <<"main", "get">>, <<"get", "key">> >>
Twice == "constraint" :> << <<"main", "get">>, NoMatch, <<"get", "main">> >>
Drawn(fmt, name) == "cfg" :> "main" @@ "cfg-fmt" :> fmt @@ "cfg-output-file" :> name
Lines ==
  {Cmd(TwoFiles @@ Twice, "output-dir" :> "out" @@ OneFile, "good", c) : c \in Current}
  \cup {Cmd(OneFile, Asked, "absent", c) : c \in Tools}
  \cup {Cmd(OneFile, Drawn(fmt, name), "good", Usual) : fmt \in {"img", "dot"}, name \in {"", "out.png"}}
  \cup {Cmd(o, <<>>, "good", Usual)
          : o \in {<<>>, "help" :> TRUE, Asked, "constraint" :> << <<"get", "get">> >>,
                   "output-dir" :> "out"}}
  \cup {Cmd(OneFile, <<>>, "bad", Usual)}
=============================================================================
