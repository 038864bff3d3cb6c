---------------------------- MODULE DriverProofs ----------------------------
(***************************************************************************)
(* Proofs that a run builds on the files it was given as they are, that    *)
(* dumps are left only by runs cut short, and that calls are linked to the *)
(* functions of all files, for any number of files, paths with the same    *)
(* last component, compilers, commands and runs.                           *)
(***************************************************************************)
EXTENDS Driver, FiniteSetTheorems, SequenceTheorems, WellFoundedInduction, TLAPS

-----------------------------------------------------------------------------
(* The inductive invariant.  The property about functions needs that the   *)
(* file read is the one just written, hence that the one match is that of  *)
(* the compiler just run; the one about leftovers needs that without one   *)
(* no other dump, of whatever file, is on the disk.                        *)

Pass == cmd.compiler.pass

Reading ==
  /\ pc \in {"version", "compile", "rename", "read"} => Given("input-file")
  /\ pc \in {"compile", "rename", "read"} => at \in 1 .. Len(Sources)

Shape ==
  /\ cmd \in Commands
  /\ DOMAIN dumps = Bases \X Passes /\ DOMAIN normal = Bases

JustWritten ==
  /\ pc = "rename" => dumps[<<Base, Pass>>] = Dump
  /\ pc = "read" => normal[Base] = Dump

OnlyOwnDump ==
  leftovers \/ \A x \in Bases \X Passes :
    dumps[x] # NoDump => pc = "rename" /\ x = <<Base, Pass>>

DriverInv ==
  Shape /\ Reading /\ JustWritten /\ OnlyOwnDump /\ BuiltFromOwnSource

-----------------------------------------------------------------------------
(* A source file of the command is a file, with a base of its own.         *)
LEMMA SourceKnown ==
  ASSUME cmd \in Commands, Given("input-file"), NEW n \in 1 .. Len(Sources)
  PROVE  /\ Sources \in Seq(Files) /\ Sources[n] \in Files
         /\ BaseOf[Sources[n]] \in Bases
<1>1. Sources \in Seq(Files) \ {<<>>}
  BY CommandsAssumption DEF Given, Options, Sources
<1>2. Sources[n] \in Files
  BY <1>1
<1> QED
  BY <1>1, <1>2 DEF Bases

LEMMA SomeSource ==
  ASSUME cmd \in Commands, Given("input-file")
  PROVE  Len(Sources) \in Nat /\ 1 \in 1 .. Len(Sources)
<1>1. Sources \in Seq(Files) \ {<<>>}
  BY CommandsAssumption DEF Given, Options, Sources
<1> QED
  BY <1>1

LEMMA SomeWanted ==
  ASSUME cmd \in Commands
  PROVE  /\ Wanted \in Seq(Constraints) /\ Len(Wanted) \in Nat
         /\ Given("constraint") => 1 \in 1 .. Len(Wanted)
<1>1. CASE Given("constraint")
  <2>1. Wanted \in Seq(Constraints) \ {<<>>}
    BY <1>1, CommandsAssumption DEF Given, Options, Wanted
  <2> QED
    BY <2>1
<1>2. CASE ~Given("constraint")
  <2>1. Wanted = <<>>
    BY <1>2 DEF Wanted
  <2> QED
    BY <1>2, <2>1
<1> QED
  BY <1>1, <1>2

LEMMA PassKnown == cmd \in Commands => Pass \in Passes
  BY CommandsAssumption DEF Pass, Passes

(* A dump of a file is not the absence of one.                             *)
LEMMA DumpIsADump ==
  ASSUME cmd \in Commands, Given("input-file"), at \in 1 .. Len(Sources)
  PROVE  Dump # NoDump
<1>1. Dump.file # NoDump.file
  BY SourceKnown, BasesAssumption DEF Dump, NoDump
<1> QED
  BY <1>1

(* While the dump just written is on the disk it is a match.               *)
LEMMA OwnMatch ==
  ASSUME Shape, Reading, JustWritten, pc = "rename"
  PROVE  Pass \in Matches /\ IsFiniteSet(Matches)
<1>1. dumps[<<Base, Pass>>] # NoDump
  BY DumpIsADump DEF Shape, Reading, JustWritten
<1>2. Pass \in Matches
  BY <1>1, PassKnown DEF Matches, Shape
<1>3. IsFiniteSet(Passes)
  <2> DEFINE passOf == [c \in Compilers |-> c.pass]
  <2>1. passOf \in Surjection(Compilers, Passes)
    BY DEF Surjection, Passes
  <2> QED
    BY <2>1, CompilersAssumption, FS_Surjection
<1>4. Matches \subseteq Passes
  BY DEF Matches
<1> QED
  BY <1>2, <1>3, <1>4, FS_Subset

(* Without leftovers it is the only one.                                   *)
LEMMA OneMatch ==
  ASSUME Shape, Reading, JustWritten, OnlyOwnDump, pc = "rename", ~leftovers
  PROVE  Cardinality(Matches) = 1
<1>1. ASSUME NEW p \in Matches PROVE p = Pass
  <2>1. Base \in Bases
    BY SourceKnown DEF Shape, Reading, Base
  <2>2. <<Base, p>> \in Bases \X Passes /\ dumps[<<Base, p>>] # NoDump
    BY <1>1, <2>1 DEF Matches
  <2>3. <<Base, p>> = <<Base, Pass>>
    BY <2>2 DEF OnlyOwnDump
  <2> QED
    BY <2>3
<1>2. Matches = {Pass}
  BY <1>1, OwnMatch
<1> QED
  BY <1>2, FS_Singleton

-----------------------------------------------------------------------------
(* What is read off the command and the sources stays while they do.       *)
LEMMA SameCommand ==
  ASSUME cmd' = cmd
  PROVE  /\ Sources' = Sources /\ Pass' = Pass /\ (Given("input-file"))' = Given("input-file")
         /\ Wanted' = Wanted
  BY DEF Sources, Pass, Given, Options, Wanted

LEMMA SameFile ==
  ASSUME cmd' = cmd, src' = src, at' = at
  PROVE  Base' = Base /\ Dump' = Dump
  BY SameCommand DEF Base, Dump

LEMMA SameUnits ==
  ASSUME BuiltFromOwnSource, cmd' = cmd, src' = src, units' = units
  PROVE  BuiltFromOwnSource'
  BY SameCommand DEF BuiltFromOwnSource

LEMMA InitGood == Init => DriverInv
<1> SUFFICES ASSUME Init PROVE DriverInv
  OBVIOUS
<1>1. \A x \in Bases \X Passes : dumps[x] = NoDump
  BY DEF Init
<1> QED
  BY <1>1 DEF Init, DriverInv, Shape, Reading, JustWritten, OnlyOwnDump, BuiltFromOwnSource

-----------------------------------------------------------------------------
(* The steps that leave the disk and the units alone and go where no file  *)
(* is compiled or read.                                                    *)
Elsewhere ==
  /\ UNCHANGED <<disk, leftovers, cmd, units>>
  /\ pc # "rename" /\ pc' \notin {"compile", "rename", "read"}
  /\ pc' = "version" => Given("input-file")

LEMMA ElsewhereGood == DriverInv /\ Elsewhere => DriverInv'
<1> SUFFICES ASSUME DriverInv, Elsewhere PROVE DriverInv'
  OBVIOUS
<1> USE DEF Elsewhere, disk, DriverInv
<1>1. Shape'
  BY DEF Shape
<1>2. Reading' /\ JustWritten'
  BY SameCommand DEF Reading, JustWritten
<1>3. OnlyOwnDump'
  BY DEF OnlyOwnDump
<1> QED
  BY <1>1, <1>2, <1>3, SameUnits

LEMMA ElsewhereSteps ==
  ASSUME Configure \/ LinkUnit \/ PrintCfg \/ AddConstraint \/ RunRule \/ WriteReport
  PROVE  Elsewhere
<1> USE DEF Elsewhere, GoTo, Exit, disk, linked
<1>1. CASE Configure
  BY <1>1 DEF Configure
<1>2. CASE LinkUnit
  BY <1>2 DEF LinkUnit, Step
<1>3. CASE PrintCfg
  BY <1>3 DEF PrintCfg, PrintKnown
<1>4. CASE AddConstraint
  BY <1>4 DEF AddConstraint, Step
<1>5. CASE RunRule
  BY <1>5 DEF RunRule
<1>6. CASE WriteReport
  BY <1>6 DEF WriteReport
<1> QED
  BY <1>1, <1>2, <1>3, <1>4, <1>5, <1>6

LEMMA StartGood == DriverInv /\ Start => DriverInv'
<1> SUFFICES ASSUME DriverInv, Start PROVE DriverInv'
  OBVIOUS
<1> USE DEF DriverInv, Start, GoTo
<1>1. Shape' /\ Reading' /\ JustWritten'
  BY DEF Shape, Reading, JustWritten
<1>2. OnlyOwnDump'
  BY DEF OnlyOwnDump
<1>3. BuiltFromOwnSource'
  BY DEF BuiltFromOwnSource
<1> QED
  BY <1>1, <1>2, <1>3

LEMMA KillGood == DriverInv /\ Kill => DriverInv'
<1> SUFFICES ASSUME DriverInv, Kill PROVE DriverInv'
  OBVIOUS
<1> USE DEF DriverInv, Kill, Exit, disk, linked
<1>1. Shape' /\ Reading' /\ JustWritten'
  BY DEF Shape, Reading, JustWritten
<1>2. OnlyOwnDump'
  <2>1. ASSUME NEW x \in Bases \X Passes, (~leftovers') PROVE dumps[x] = NoDump
    <3>1. PICK b \in Bases, p \in Passes : x = <<b, p>>
      BY <2>1
    <3>2. dumps[<<b, p>>] = NoDump
      BY <2>1
    <3> QED
      BY <3>1, <3>2
  <2> QED
    BY <2>1 DEF OnlyOwnDump
<1> QED
  BY <1>1, <1>2, SameUnits

LEMMA CheckVersionGood == DriverInv /\ CheckVersion => DriverInv'
<1> SUFFICES ASSUME DriverInv, CheckVersion PROVE DriverInv'
  OBVIOUS
<1> USE DEF DriverInv, CheckVersion, Exit, GoTo, disk
<1>1. cmd' = cmd /\ cmd \in Commands /\ Given("input-file")
  BY DEF Shape, Reading
<1>2. Shape'
  BY DEF Shape
<1>3. Reading' /\ JustWritten'
  BY <1>1, SomeSource, SameCommand DEF Reading, JustWritten
<1>4. OnlyOwnDump'
  BY DEF OnlyOwnDump
<1>5. BuiltFromOwnSource'
  <2>1. CASE units' = units
    BY <1>1, <2>1, SameUnits
  <2>2. CASE units' = [u \in DOMAIN Sources |-> NoDump]
    BY <2>2 DEF BuiltFromOwnSource
  <2> QED
    BY <2>1, <2>2
<1> QED
  BY <1>2, <1>3, <1>4, <1>5

LEMMA CompileGood == DriverInv /\ Compile => DriverInv'
<1> SUFFICES ASSUME DriverInv, Compile PROVE DriverInv'
  OBVIOUS
<1> DEFINE written == [dumps EXCEPT ![<<Base, cmd.compiler.pass>>] = Dump]
<1>1. /\ src' = src /\ normal' = normal /\ cmd' = cmd /\ units' = units /\ pc = "compile"
      /\ \/ pc' = "rename" /\ at' = at /\ leftovers' = leftovers /\ dumps' = written
         \/ pc' = "idle" /\ dumps' = dumps /\ leftovers' = leftovers
         \/ pc' = "idle" /\ dumps' = written /\ leftovers' = TRUE
  BY DEF Compile, Exit, linked
<1>2. cmd \in Commands /\ Given("input-file") /\ at \in 1 .. Len(Sources)
  BY <1>1 DEF DriverInv, Shape, Reading
<1>3. <<Base, Pass>> \in DOMAIN dumps
  BY <1>2, SourceKnown, PassKnown DEF DriverInv, Shape, Base
<1>4. /\ DOMAIN written = DOMAIN dumps /\ written[<<Base, Pass>>] = Dump
      /\ \A x \in DOMAIN dumps : x # <<Base, Pass>> => written[x] = dumps[x]
  BY <1>3 DEF Pass
<1> HIDE DEF written
<1>5. Shape'
  BY <1>1, <1>4 DEF DriverInv, Shape
<1>6. Reading'
  BY <1>1, <1>2, SameCommand DEF Reading
<1>7. JustWritten'
  BY <1>1, <1>4, SameCommand, SameFile DEF JustWritten
<1>8. OnlyOwnDump'
  BY <1>1, <1>4, SameCommand, SameFile DEF DriverInv, Shape, OnlyOwnDump
<1> QED
  BY <1>1, <1>5, <1>6, <1>7, <1>8, SameUnits DEF DriverInv

LEMMA RenameGood == DriverInv /\ Rename => DriverInv'
<1> SUFFICES ASSUME DriverInv, Rename PROVE DriverInv'
  OBVIOUS
<1>1. /\ src' = src /\ cmd' = cmd /\ units' = units /\ leftovers' = leftovers /\ pc = "rename"
  BY DEF Rename, linked
<1>2. Shape /\ Reading /\ JustWritten /\ OnlyOwnDump
  BY DEF DriverInv
<1>3. cmd \in Commands /\ Given("input-file") /\ at \in 1 .. Len(Sources)
  BY <1>1, <1>2 DEF Shape, Reading
<1>4. Base \in Bases /\ Pass \in Passes
  BY <1>3, SourceKnown, PassKnown DEF Base
<1>5. CASE Cardinality(Matches) = 1
  <2>1. Matches = {Pass}
    <3>1. PICK p : Matches = {p}
      BY <1>1, <1>2, <1>5, OwnMatch, FS_Singleton
    <3> QED
      BY <1>1, <1>2, <3>1, OwnMatch
  <2>2. /\ normal' = [normal EXCEPT ![Base] = dumps[<<Base, Pass>>]]
        /\ dumps' = [dumps EXCEPT ![<<Base, Pass>>] = NoDump]
        /\ pc' = "read" /\ at' = at
    BY <1>5, <2>1 DEF Rename
  <2>3. /\ DOMAIN normal' = DOMAIN normal /\ normal'[Base] = Dump
        /\ DOMAIN dumps' = DOMAIN dumps /\ dumps'[<<Base, Pass>>] = NoDump
        /\ \A x \in DOMAIN dumps : x # <<Base, Pass>> => dumps'[x] = dumps[x]
    BY <1>1, <1>2, <1>4, <2>2 DEF Shape, JustWritten
  <2>4. Shape'
    BY <1>1, <1>2, <2>3 DEF Shape
  <2>5. Reading'
    BY <1>1, <1>3, <2>2, SameCommand DEF Reading
  <2>6. JustWritten'
    BY <1>1, <2>2, <2>3, SameFile DEF JustWritten
  <2>7. OnlyOwnDump'
    BY <1>1, <1>2, <2>3 DEF Shape, OnlyOwnDump
  <2> QED
    BY <1>1, <2>4, <2>5, <2>6, <2>7, SameUnits DEF DriverInv
<1>6. CASE Cardinality(Matches) # 1
  <2>1. leftovers
    BY <1>1, <1>2, <1>6, OneMatch
  <2>2. pc' = "idle" /\ normal' = normal /\ dumps' = dumps
    BY <1>6 DEF Rename, Exit
  <2>3. Shape' /\ Reading' /\ JustWritten' /\ OnlyOwnDump'
    BY <1>1, <1>2, <2>1, <2>2 DEF Shape, Reading, JustWritten, OnlyOwnDump
  <2> QED
    BY <1>1, <2>3, SameUnits DEF DriverInv
<1> QED
  BY <1>5, <1>6

LEMMA ReadDumpGood == DriverInv /\ ReadDump => DriverInv'
<1> SUFFICES ASSUME DriverInv, ReadDump PROVE DriverInv'
  OBVIOUS
<1>1. /\ UNCHANGED <<src, dumps, normal, cmd, leftovers>> /\ pc = "read"
  BY DEF ReadDump, disk
<1>2. cmd \in Commands /\ Given("input-file") /\ at \in 1 .. Len(Sources)
  BY <1>1 DEF DriverInv, Shape, Reading
<1>3. /\ units' = units \/ units' = [units EXCEPT ![at] = normal[Base]]
      /\ \/ pc' = "idle"
         \/ pc' = "compile" /\ at' = at + 1 /\ at < Len(Sources)
         \/ pc' = "link"
  BY DEF ReadDump, Exit, Step, GoTo, linked
<1>4. Shape'
  BY <1>1 DEF DriverInv, Shape
<1>5. Reading'
  BY <1>1, <1>2, <1>3, SameCommand, SomeSource DEF Reading
<1>6. JustWritten' /\ OnlyOwnDump'
  BY <1>1, <1>3 DEF DriverInv, JustWritten, OnlyOwnDump
<1>7. BuiltFromOwnSource'
  <2>1. CASE units' = units
    BY <1>1, <2>1, SameUnits DEF DriverInv
  <2>2. CASE units' = [units EXCEPT ![at] = normal[Base]]
    <3>1. normal[Base] = [file |-> Sources[at], text |-> src[Sources[at]]]
      BY <1>1 DEF DriverInv, JustWritten, Dump
    <3>2. ASSUME NEW u \in DOMAIN units', units'[u] # NoDump
          PROVE  units'[u] = [file |-> Sources[u], text |-> src[Sources[u]]]
      <4>1. u \in DOMAIN units
        BY <2>2, <3>2
      <4>2. CASE u = at
        BY <2>2, <3>1, <4>1, <4>2
      <4>3. CASE u # at
        BY <2>2, <3>2, <4>1, <4>3 DEF DriverInv, BuiltFromOwnSource
      <4> QED
        BY <4>2, <4>3
    <3> QED
      BY <1>1, <3>2, SameCommand DEF BuiltFromOwnSource
  <2> QED
    BY <1>3, <2>1, <2>2
<1> QED
  BY <1>4, <1>5, <1>6, <1>7 DEF DriverInv

LEMMA StutterGood == DriverInv /\ UNCHANGED vars => DriverInv'
<1> SUFFICES ASSUME DriverInv, UNCHANGED vars PROVE DriverInv'
  OBVIOUS
<1>1. UNCHANGED <<src, dumps, normal, leftovers, cmd, pc, at, units>>
  BY DEF vars, disk, linked
<1>2. Base' = Base /\ Dump' = Dump
  BY <1>1, SameFile
<1>3. Shape' /\ Reading' /\ JustWritten' /\ OnlyOwnDump'
  BY <1>1, <1>2, SameCommand DEF DriverInv, Shape, Reading, JustWritten, OnlyOwnDump
<1> QED
  BY <1>1, <1>3, SameUnits DEF DriverInv

-----------------------------------------------------------------------------
(* The invariant holds at all times.                                       *)
THEOREM DriverInvariant == Spec => []DriverInv
<1>1. DriverInv /\ [Next]_vars => DriverInv'
  <2> SUFFICES ASSUME DriverInv, [Next]_vars PROVE DriverInv'
    OBVIOUS
  <2>1. CASE Configure \/ LinkUnit \/ PrintCfg \/ AddConstraint \/ RunRule \/ WriteReport
    BY <2>1, ElsewhereSteps, ElsewhereGood
  <2>2. CASE CheckVersion
    BY <2>2, CheckVersionGood
  <2>3. CASE Compile
    BY <2>3, CompileGood
  <2>4. CASE Rename
    BY <2>4, RenameGood
  <2>5. CASE ReadDump
    BY <2>5, ReadDumpGood
  <2>6. CASE Start
    BY <2>6, StartGood
  <2>7. CASE Kill
    BY <2>7, KillGood
  <2>8. CASE UNCHANGED vars
    BY <2>8, StutterGood
  <2> QED
    BY <2>1, <2>2, <2>3, <2>4, <2>5, <2>6, <2>7, <2>8 DEF Next, Run, Resting
<1> QED
  BY <1>1, InitGood, PTL DEF Spec

(* A run never builds a file's functions from anything but that file as it *)
(* is, whatever dumps earlier runs have left.                              *)
THEOREM AlwaysOwnSource == Spec => []BuiltFromOwnSource
<1>1. DriverInv => BuiltFromOwnSource
  BY DEF DriverInv
<1> QED
  BY <1>1, DriverInvariant, PTL

(* A dump survives only a run that was cut short, and only then is a run   *)
(* told that there are too many.                                           *)
THEOREM AlwaysCleanedUp == Spec => []DumpsCleanedUp
<1>1. DriverInv => DumpsCleanedUp
  <2> SUFFICES ASSUME DriverInv PROVE DumpsCleanedUp
    OBVIOUS
  <2>1. ASSUME NEW b \in Bases, NEW p \in Passes, dumps[<<b, p>>] # NoDump
        PROVE  pc = "rename" \/ leftovers
    <3>1. <<b, p>> \in Bases \X Passes
      OBVIOUS
    <3> QED
      BY <2>1, <3>1 DEF DriverInv, OnlyOwnDump
  <2>2. pc = "rename" /\ ~leftovers => Cardinality(Matches) = 1
    BY OneMatch DEF DriverInv
  <2> QED
    BY <2>1, <2>2 DEF DumpsCleanedUp
<1> QED
  BY <1>1, DriverInvariant, PTL

-----------------------------------------------------------------------------
(* Versions.                                                               *)
LEMMA LeastNatural ==
  ASSUME NEW S \in SUBSET Nat, S # {}
  PROVE  \E n \in S : \A m \in S : n <= m
<1>1. PICK n \in S : \A m \in S : ~(<<m, n>> \in OpToRel(<, Nat))
  BY NatLessThanWellFounded, WFMin
<1>2. ASSUME NEW m \in S PROVE n <= m
  <2>1. ~(m < n)
    BY <1>1 DEF OpToRel
  <2> QED
    BY <2>1
<1> QED
  BY <1>2

LEMMA ExtractedVersion ==
  ASSUME NEW lines \in Seq(Version)
  PROVE  Extracted(lines) \in Version
<1> DEFINE matching == {n \in DOMAIN lines : lines[n] # <<>>}
<1>1. CASE matching = {}
  BY <1>1 DEF Extracted, Version
<1>2. CASE matching # {}
  <2>1. matching \in SUBSET Nat
    OBVIOUS
  <2>2. \E n \in matching : \A m \in matching : n <= m
    BY <2>1, <1>2, LeastNatural
  <2>3. PICK n \in matching : Extracted(lines) = lines[n]
    BY <2>2, <1>2 DEF Extracted
  <2> QED
    BY <2>3
<1> QED
  BY <1>1, <1>2

(* What it takes for a version not to be less than 4.5.0.                  *)
LEMMA NotLess ==
  ASSUME NEW d \in Seq(Nat), ~Less(d, <<4, 5, 0>>)
  PROVE  /\ Len(d) # 0
         /\ ~(d[1] < 4)
         /\ ~(Len(d) >= 2 /\ d[1] = 4 /\ d[2] < 5)
<1>1. ASSUME NEW n \in 1 .. 3, Len(d) >= n, d[n] < <<4, 5, 0>>[n],
             \A m \in 1 .. n - 1 : d[m] = <<4, 5, 0>>[m]
      PROVE  FALSE
  BY <1>1 DEF Less
<1>2. Len(d) # 0
  BY DEF Less
<1>3. ~(d[1] < 4)
  BY <1>1, <1>2
<1>4. ~(Len(d) >= 2 /\ d[1] = 4 /\ d[2] < 5)
  BY <1>1
<1> QED
  BY <1>2, <1>3, <1>4

LEMMA Doubled ==
  ASSUME NEW v \in Seq(Nat)
  PROVE  /\ v \o v \in Seq(Nat) /\ Len(v \o v) = Len(v) + Len(v)
         /\ \A n \in 1 .. Len(v) : (v \o v)[n] = v[n] /\ v[n] \in Nat
         /\ Len(v) = 1 => (v \o v)[2] = v[1]
<1>1. v \o v \in Seq(Nat) /\ Len(v \o v) = Len(v) + Len(v)
  OBVIOUS
<1>2. ASSUME NEW n \in 1 .. Len(v) PROVE (v \o v)[n] = v[n] /\ v[n] \in Nat
  OBVIOUS
<1>3. ASSUME Len(v) = 1 PROVE (v \o v)[2] = v[1]
  BY <1>1, <1>3, ConcatProperties
<1> QED
  BY <1>1, <1>2, <1>3

(* Comparing a version with itself appended to itself is as good as        *)
(* comparing the version: what is found not to be less than 4.5.0 has the  *)
(* first two fields in order.                                              *)
LEMMA NotLessMeansNew ==
  ASSUME NEW v \in Version, ~Less(v \o v, <<4, 5, 0>>)
  PROVE  Field(v, 1) > 4 \/ (Field(v, 1) = 4 /\ Field(v, 2) >= 5)
<1>1. v \in Seq(Nat) /\ v \o v \in Seq(Nat) /\ Len(v) \in Nat
  BY Doubled DEF Version
<1>2. /\ Len(v \o v) # 0 /\ ~((v \o v)[1] < 4)
      /\ ~(Len(v \o v) >= 2 /\ (v \o v)[1] = 4 /\ (v \o v)[2] < 5)
  BY <1>1, NotLess, Zenon
<1>3. Len(v) # 0 /\ (v \o v)[1] = v[1] /\ v[1] \in Nat
  BY <1>1, <1>2, Doubled
<1>4. Field(v, 1) = v[1]
  BY <1>1, <1>3 DEF Field
<1>5. CASE v[1] > 4
  BY <1>4, <1>5
<1>6. CASE v[1] = 4
  <2>1. Len(v) # 1
    BY <1>1, <1>2, <1>3, <1>6, Doubled
  <2>2. 2 <= Len(v) /\ 2 \in 1 .. Len(v)
    <3>1. ASSUME NEW n \in Nat, n # 0, n # 1 PROVE 2 <= n /\ 2 \in 1 .. n
      BY <3>1
    <3> QED
      BY <1>1, <1>3, <2>1, <3>1, Zenon
  <2>3. (v \o v)[2] = v[2] /\ v[2] \in Nat
    BY <1>1, <2>2, Doubled
  <2>4. ~(v[2] < 5)
    BY <1>1, <1>2, <1>3, <1>6, <2>1, <2>3, Doubled
  <2>5. Field(v, 2) = v[2]
    BY <2>2 DEF Field
  <2> QED
    BY <1>4, <1>6, <2>3, <2>4, <2>5
<1> QED
  BY <1>2, <1>3, <1>5, <1>6

(* What main has found out before it goes on.                              *)
NewEnough ==
  pc \in {"compile", "rename", "read", "link"} => ~Less(Reported(cmd.compiler), <<4, 5, 0>>)

LEMMA ReportedTwice ==
  ASSUME NEW c \in Compilers
  PROVE  /\ Extracted(c.prints) \in Version
         /\ Reported(c) = Extracted(c.prints) \o Extracted(c.prints)
<1>1. Extracted(c.prints) \in Version
  BY CompilersAssumption, ExtractedVersion
<1> QED
  BY <1>1 DEF Reported, GetVersion, Set, Version

(* No compiler older than 4.5.0 is ever used, whatever tool is named and   *)
(* whatever it prints, although its version is appended to itself before   *)
(* it is compared.                                                         *)
THEOREM OldCompilersRefused == Spec => []OldCompilerRefused
<1>1. Init => NewEnough
  BY DEF Init, NewEnough
<1>2. DriverInv /\ NewEnough /\ [Next]_vars => NewEnough'
  <2> SUFFICES ASSUME NewEnough, [Next]_vars PROVE NewEnough'
    OBVIOUS
  <2> USE DEF NewEnough, GoTo, Exit, Step
  <2>1. CASE CheckVersion
    BY <2>1 DEF CheckVersion
  <2>2. CASE Compile \/ Rename
    BY <2>2 DEF Compile, Rename
  <2>3. CASE ReadDump \/ LinkUnit
    BY <2>3 DEF ReadDump, LinkUnit
  <2>4. CASE Configure \/ PrintCfg
    BY <2>4 DEF Configure, PrintCfg, PrintKnown
  <2>5. CASE AddConstraint \/ RunRule \/ WriteReport
    BY <2>5 DEF AddConstraint, RunRule, WriteReport
  <2>6. CASE Start \/ Kill
    BY <2>6 DEF Start, Kill
  <2>7. CASE UNCHANGED vars
    BY <2>7 DEF vars
  <2> QED
    BY <2>1, <2>2, <2>3, <2>4, <2>5, <2>6, <2>7 DEF Next, Run, Resting
<1>3. DriverInv /\ NewEnough => OldCompilerRefused
  <2> SUFFICES ASSUME DriverInv, NewEnough, pc \in {"compile", "rename", "read", "link"}
               PROVE  LET v == Extracted(cmd.compiler.prints) IN
                        Field(v, 1) > 4 \/ (Field(v, 1) = 4 /\ Field(v, 2) >= 5)
    BY DEF OldCompilerRefused
  <2>1. cmd.compiler \in Compilers
    BY CommandsAssumption DEF DriverInv, Shape
  <2> QED
    BY <2>1, ReportedTwice, NotLessMeansNew DEF NewEnough
<1> QED
  BY <1>1, <1>2, <1>3, DriverInvariant, PTL DEF Spec

-----------------------------------------------------------------------------
(* The program a run builds.  The function map knows every function of the *)
(* units read so far under its name, and what has been linked are the      *)
(* calls of the units passed since all of them were read.                  *)

CallsOf(U) == UNION {UNION {Calls(f) : f \in InUnit(u)} : u \in U}
LinkedOf(U) ==
  /\ unresolved = {c \in CallsOf(U) : c[2] \notin DOMAIN functions}
  /\ DOMAIN targets = {c \in CallsOf(U) : c[2] \in DOMAIN functions}
  /\ \A c \in DOMAIN targets : targets[c] = functions[c[2]]

MapOK ==
  /\ DOMAIN functions = Defined
  /\ \A n \in DOMAIN functions :
       functions[n] \in UNION {InUnit(u) : u \in DOMAIN units} /\ Name(functions[n]) = n

Values ==
  /\ src \in [Files -> Texts]
  /\ dumps \in [Bases \X Passes -> Dumps] /\ normal \in [Bases -> Dumps]
  /\ runs \in 0 .. MaxRuns /\ leftovers \in BOOLEAN
  /\ exit \in {"0", "1", "killed", "undefined"}
  /\ units \in Seq(Dumps)

Position ==
  /\ pc \in {"idle", "configure", "version", "compile", "rename", "read", "link",
             "print", "constraints", "analyze", "report", "looping"}
  /\ \/ at = 1
     \/ pc = "constraints" /\ at \in 1 .. Len(Wanted)
     \/ pc # "constraints" /\ at \in 1 .. Len(Sources)
  /\ pc = "link" => Given("input-file")

Progress ==
  /\ pc \in {"configure", "version"} => units = <<>>
  /\ pc \in {"compile", "rename", "read", "link"} => Len(units) = Len(Sources)
  /\ pc \in {"compile", "rename", "read"} => \A u \in at .. Len(units) : units[u] = NoDump
  /\ pc \in {"configure", "version", "compile", "rename", "read"} => LinkedOf({})
  /\ pc = "link" => LinkedOf(1 .. at - 1)
  /\ pc \in {"print", "constraints", "analyze", "report"} => LinkedOf(DOMAIN units)

ProgramInv == Values /\ Position /\ MapOK /\ Progress

(* Sets of sets of functions, one element at a time.                       *)
LEMMA CalledBy ==
  ASSUME NEW U, NEW c
  PROVE  c \in CallsOf(U) <=>
           \E u \in U : \E k \in 1 .. Len(Definitions(u)) :
             \E n \in Definitions(u)[k].calls : c = << <<u, k>>, n>>
<1>1. c \in CallsOf(U) <=> \E u \in U : \E f \in InUnit(u) : c \in Calls(f)
  BY DEF CallsOf
<1>2. ASSUME NEW u
      PROVE  (\E f \in InUnit(u) : c \in Calls(f)) <=>
                \E k \in 1 .. Len(Definitions(u)) :
                  \E n \in Definitions(u)[k].calls : c = << <<u, k>>, n>>
  BY DEF InUnit, Calls
<1> QED
  BY <1>1, <1>2

LEMMA FunctionPlaced ==
  ASSUME NEW f, f \in UNION {InUnit(u) : u \in DOMAIN units}
  PROVE  \E u \in DOMAIN units : \E k \in 1 .. Len(Definitions(u)) : f = <<u, k>>
  BY DEF InUnit

LEMMA DefinedBy ==
  ASSUME NEW n
  PROVE  n \in Defined <=>
           \E u \in DOMAIN units : \E k \in 1 .. Len(Definitions(u)) :
             n = Definitions(u)[k].name
<1>1. n \in Defined <=> \E u \in DOMAIN units : \E f \in InUnit(u) : n = Name(f)
  BY DEF Defined
<1>2. ASSUME NEW u
      PROVE  (\E f \in InUnit(u) : n = Name(f)) <=>
                \E k \in 1 .. Len(Definitions(u)) : n = Definitions(u)[k].name
  <2>1. \A k : Name(<<u, k>>) = Definitions(u)[k].name
    BY DEF Name
  <2>2. \A f : f \in InUnit(u) <=> \E k \in 1 .. Len(Definitions(u)) : f = <<u, k>>
    BY DEF InUnit
  <2> DEFINE names == \E k \in 1 .. Len(Definitions(u)) : n = Definitions(u)[k].name
  <2>3. ASSUME NEW f \in InUnit(u), n = Name(f)
        PROVE  names
    <3>1. PICK k \in 1 .. Len(Definitions(u)) : f = <<u, k>>
      BY <2>2
    <3> QED
      BY <2>1, <2>3, <3>1
  <2>4. ASSUME NEW k \in 1 .. Len(Definitions(u)), n = Definitions(u)[k].name
        PROVE  \E f \in InUnit(u) : n = Name(f)
    <3>1. <<u, k>> \in InUnit(u) /\ n = Name(<<u, k>>)
      BY <2>1, <2>2, <2>4
    <3> QED
      BY <3>1
  <2> QED
    BY <2>3, <2>4
<1> QED
  BY <1>1, <1>2

LEMMA NothingLinked == LinkedOf({}) <=> unresolved = {} /\ DOMAIN targets = {}
<1>1. CallsOf({}) = {}
  BY CalledBy
<1> QED
  BY <1>1 DEF LinkedOf

(* Both as state formulas, so that they can be read in the next state.     *)
DefinedTold ==
  \A n : n \in Defined <=>
    \E u \in DOMAIN units : \E k \in 1 .. Len(Definitions(u)) : n = Definitions(u)[k].name

CallsTold ==
  \A U : \A c : c \in CallsOf(U) <=>
    \E u \in U : \E k \in 1 .. Len(Definitions(u)) :
      \E n \in Definitions(u)[k].calls : c = << <<u, k>>, n>>

LEMMA AllTold == DefinedTold /\ CallsTold
  BY DefinedBy, CalledBy DEF DefinedTold, CallsTold

LEMMA AllToldNext == DefinedTold' /\ CallsTold'
  BY AllTold, PTL

(* Functions, calls and map stay while the units do.                       *)
LEMMA SameProgram ==
  ASSUME units' = units, functions' = functions
  PROVE  /\ MapOK => MapOK'
         /\ \A U : targets' = targets /\ unresolved' = unresolved /\ LinkedOf(U) => LinkedOf(U)'
<1>1. \A u : Definitions(u)' = Definitions(u)
  BY DEF Definitions
<1>2. \A f : Name(f)' = Name(f)
  BY DEF Name, Definitions
<1>3. Defined' = Defined
  <2>1. \A n : n \in Defined' <=> n \in Defined
    BY <1>1, AllTold, AllToldNext DEF DefinedTold
  <2> QED
    BY <2>1 DEF Defined
<1>4. \A U : CallsOf(U)' = CallsOf(U)
  <2> SUFFICES ASSUME NEW U PROVE CallsOf(U)' = CallsOf(U)
    OBVIOUS
  <2>1. \A c : c \in CallsOf(U)' <=> c \in CallsOf(U)
    BY <1>1, AllTold, AllToldNext DEF CallsTold
  <2> QED
    BY <2>1 DEF CallsOf
<1>5. (UNION {InUnit(u) : u \in DOMAIN units})' = UNION {InUnit(u) : u \in DOMAIN units}
  BY DEF InUnit, Definitions
<1>6. MapOK => MapOK'
  BY <1>2, <1>3, <1>5 DEF MapOK
<1>7. ASSUME NEW U, targets' = targets, unresolved' = unresolved, LinkedOf(U)
      PROVE  LinkedOf(U)'
  BY <1>4, <1>7 DEF LinkedOf
<1> QED
  BY <1>6, <1>7

LEMMA InitProgram == Init => ProgramInv
<1> SUFFICES ASSUME Init PROVE ProgramInv
  OBVIOUS
<1> USE DEF Init
<1>1. Values
  <2>1. NoDump \in Dumps
    BY DEF Dumps
  <2>2. units \in Seq(Dumps) /\ 0 \in 0 .. MaxRuns
    BY BoundAssumption
  <2> QED
    BY <2>1, <2>2 DEF Values
<1>2. Position
  BY DEF Position
<1>3. DOMAIN units = {} /\ DOMAIN functions = {}
  OBVIOUS
<1>4. MapOK
  <2>1. Defined = {}
    BY <1>3, DefinedBy
  <2> QED
    BY <1>3, <2>1 DEF MapOK
<1>5. Progress
  BY DEF Progress
<1> QED
  BY <1>1, <1>2, <1>4, <1>5 DEF ProgramInv

LEMMA StartProgram == ProgramInv /\ Start => ProgramInv'
<1> SUFFICES ASSUME ProgramInv, Start PROVE ProgramInv'
  OBVIOUS
<1>1. /\ units' = <<>> /\ functions' = <<>> /\ targets' = <<>> /\ unresolved' = {}
      /\ pc' = "configure" /\ at' = 1 /\ runs' = runs + 1 /\ runs < MaxRuns
      /\ UNCHANGED <<dumps, normal, leftovers, exit>>
      /\ \E f \in Files, t \in Texts : src' = [src EXCEPT ![f] = t]
  BY DEF Start, GoTo
<1>2. DOMAIN units' = {} /\ DOMAIN functions' = {} /\ DOMAIN targets' = {}
  BY <1>1
<1>3. Values'
  <2>1. src' \in [Files -> Texts] /\ runs' \in 0 .. MaxRuns
    BY <1>1, BoundAssumption DEF ProgramInv, Values
  <2>2. units' \in Seq(Dumps)
    BY <1>1
  <2> QED
    BY <1>1, <2>1, <2>2 DEF ProgramInv, Values
<1>4. Position'
  BY <1>1 DEF Position
<1>5. MapOK'
  <2>1. Defined' = {}
    BY <1>2 DEF Defined
  <2> QED
    BY <1>2, <2>1 DEF MapOK
<1>6. Progress'
  <2>1. LinkedOf({})'
    BY <1>1, <1>2 DEF LinkedOf, CallsOf
  <2> QED
    BY <1>1, <2>1 DEF Progress
<1> QED
  BY <1>3, <1>4, <1>5, <1>6 DEF ProgramInv

(* The steps that leave files and program alone and only go on.            *)
GoesOn ==
  /\ UNCHANGED <<src, dumps, normal, runs, cmd, units, functions, targets, unresolved>>
  /\ leftovers' \in BOOLEAN /\ exit' \in {"0", "1", "killed", "undefined"}
  /\ \/ pc' \in {"idle", "looping"} /\ at' = 1
     \/ pc = "configure" /\ pc' = "version" /\ at' = 1 /\ Given("input-file")
     \/ pc = "configure" /\ pc' = "print" /\ at' = 1
     \/ pc \in {"print", "constraints", "analyze"} /\ at' = 1
        /\ pc' \in {"constraints", "analyze", "report"}
     \/ pc = "analyze" /\ pc' = "analyze" /\ at' = at
     \/ pc = "constraints" /\ pc' = "constraints" /\ at' = at + 1 /\ at < Len(Wanted)
     \/ pc = "report" /\ pc' = "report" /\ at' = at + 1 /\ at < Len(Sources)

LEMMA GoesOnProgram == Shape /\ ProgramInv /\ GoesOn => ProgramInv'
<1> SUFFICES ASSUME Shape, ProgramInv, GoesOn PROVE ProgramInv'
  OBVIOUS
<1>1. Values'
  BY DEF GoesOn, ProgramInv, Values
<1>2. Position'
  <2>1. Sources' = Sources
    BY SameCommand DEF GoesOn
  <2>2. CASE at' = 1
    BY <2>1, <2>2 DEF GoesOn, Position
  <2>3. CASE pc = "report" /\ pc' = "report" /\ at' = at + 1 /\ at < Len(Sources)
    <3>1. Len(Sources) \in Nat
      <4>1. CASE Given("input-file")
        BY <4>1, SomeSource DEF Shape
      <4>2. CASE ~Given("input-file")
        BY <4>2 DEF Sources
      <4> QED
        BY <4>1, <4>2
    <3>2. at' \in 1 .. Len(Sources)
      BY <2>3, <3>1 DEF ProgramInv, Position
    <3> QED
      BY <2>1, <2>3, <3>2 DEF Position
  <2>4. CASE pc = "constraints" /\ pc' = "constraints" /\ at' = at + 1 /\ at < Len(Wanted)
    <3>1. Len(Wanted) \in Nat
      BY SomeWanted DEF Shape
    <3>2. at' \in 1 .. Len(Wanted)
      BY <2>4, <3>1 DEF ProgramInv, Position
    <3>3. Wanted' = Wanted
      BY SameCommand DEF GoesOn
    <3> QED
      BY <2>4, <3>2, <3>3 DEF Position
  <2>5. CASE pc = "analyze" /\ pc' = "analyze" /\ at' = at
    BY <2>1, <2>5 DEF ProgramInv, Position
  <2> QED
    BY <2>2, <2>3, <2>4, <2>5 DEF GoesOn
<1>3. MapOK'
  BY SameProgram DEF GoesOn, ProgramInv
<1>4. Progress'
  <2>1. CASE pc' \in {"idle", "looping"}
    BY <2>1 DEF Progress
  <2>2. CASE pc = "configure" /\ pc' = "version"
    BY <2>2, SameProgram DEF GoesOn, ProgramInv, Progress
  <2>3. CASE pc = "configure" /\ pc' = "print"
    <3>1. units' = <<>> /\ LinkedOf({})'
      BY <2>3, SameProgram DEF GoesOn, ProgramInv, Progress
    <3>2. DOMAIN units' = {}
      BY <3>1
    <3>3. LinkedOf(DOMAIN units)'
      BY <3>1, <3>2
    <3> QED
      BY <2>3, <3>3 DEF Progress
  <2>4. CASE /\ pc \in {"print", "constraints", "analyze", "report"}
             /\ pc' \in {"constraints", "analyze", "report"}
    <3>1. LinkedOf(DOMAIN units) /\ DOMAIN units' = DOMAIN units
      BY <2>4 DEF GoesOn, ProgramInv, Progress
    <3>2. LinkedOf(DOMAIN units)'
      BY <3>1, SameProgram DEF GoesOn
    <3> QED
      BY <2>4, <3>2 DEF Progress
  <2> QED
    BY <2>1, <2>2, <2>3, <2>4 DEF GoesOn
<1> QED
  BY <1>1, <1>2, <1>3, <1>4 DEF ProgramInv

LEMMA GoingOnSteps ==
  ASSUME ProgramInv,
         Configure \/ PrintCfg \/ AddConstraint \/ RunRule \/ WriteReport \/ Kill
  PROVE  GoesOn
<1> USE DEF GoesOn, GoTo, Exit, disk, linked
<1>1. leftovers \in BOOLEAN /\ exit \in {"0", "1", "killed", "undefined"}
  BY DEF ProgramInv, Values
<1>2. CASE Configure
  BY <1>1, <1>2 DEF Configure
<1>3. CASE PrintCfg
  BY <1>1, <1>3 DEF PrintCfg, PrintKnown
<1>4. CASE AddConstraint
  BY <1>1, <1>4 DEF AddConstraint, Step
<1>5. CASE RunRule
  BY <1>1, <1>5 DEF RunRule
<1>6. CASE WriteReport
  BY <1>1, <1>6 DEF WriteReport
<1>7. CASE Kill
  BY <1>1, <1>7 DEF Kill
<1> QED
  BY <1>2, <1>3, <1>4, <1>5, <1>6, <1>7

(* A unit for each file, with nothing in it yet.                           *)
LEMMA CheckVersionProgram == DriverInv /\ ProgramInv /\ CheckVersion => ProgramInv'
<1> SUFFICES ASSUME DriverInv, ProgramInv, CheckVersion PROVE ProgramInv'
  OBVIOUS
<1>1. /\ pc = "version" /\ at' = 1 /\ UNCHANGED <<src, dumps, normal, runs, leftovers, cmd>>
      /\ UNCHANGED <<functions, targets, unresolved>>
      /\ \/ pc' = "idle" /\ exit' = "1" /\ units' = units
         \/ pc' = "compile" /\ exit' = exit /\ units' = [u \in DOMAIN Sources |-> NoDump]
  BY DEF CheckVersion, Exit, GoTo, disk
<1>2. cmd \in Commands /\ Given("input-file")
  BY <1>1 DEF DriverInv, Shape, Reading
<1>3. CASE pc' = "idle"
  <2>1. GoesOn
    BY <1>1, <1>3 DEF GoesOn, ProgramInv, Values
  <2> QED
    BY <2>1, GoesOnProgram DEF DriverInv
<1>4. CASE pc' = "compile"
  <2>1. /\ Sources' = Sources /\ Len(Sources) \in Nat /\ 1 \in 1 .. Len(Sources)
        /\ DOMAIN Sources = 1 .. Len(Sources)
    <3>1. Sources \in Seq(Files)
      BY <1>2, SomeSource, SourceKnown
    <3> QED
      BY <1>1, <1>2, <3>1, SomeSource, SameCommand, LenProperties
  <2>2. units' = [u \in 1 .. Len(Sources) |-> NoDump]
    BY <1>1, <1>4, <2>1
  <2>3. units' \in Seq(Dumps)
    <3>1. units' \in [1 .. Len(Sources) -> Dumps]
      BY <2>2 DEF Dumps
    <3> QED
      BY <2>1, <3>1, SeqDef
  <2>4. Len(units') = Len(Sources) /\ \A u \in DOMAIN units' : units'[u] = NoDump
    <3>1. Len(units') \in Nat /\ DOMAIN units' = 1 .. Len(units')
      BY <2>3, LenProperties
    <3>2. DOMAIN units' = 1 .. Len(Sources)
      BY <2>2
    <3> QED
      BY <2>1, <2>2, <3>1, <3>2
  <2>5. Values' /\ Position'
    BY <1>1, <1>4, <2>3 DEF ProgramInv, Values, Position
  <2>6. MapOK'
    <3>1. \A u \in DOMAIN units' : InUnit(u)' = {}
      <4> TAKE u \in DOMAIN units'
      <4>1. units'[u].text.defs = <<>>
        <5>1. units'[u] = NoDump
          BY <2>4
        <5>2. NoDump.text.defs = <<>>
          BY DEF NoDump
        <5> QED
          BY <5>1, <5>2
      <4>2. Len(units'[u].text.defs) = 0
        BY <4>1
      <4> QED
        BY <4>2 DEF InUnit, Definitions
    <3>2. Defined' = {}
      BY <3>1 DEF Defined
    <3>3. Defined = {}
      <4>1. units = <<>>
        BY <1>1 DEF ProgramInv, Progress
      <4>2. DOMAIN units = {}
        BY <4>1
      <4> QED
        BY <4>2, DefinedBy
    <3>4. DOMAIN functions' = {}
      BY <1>1, <3>3 DEF ProgramInv, MapOK
    <3> QED
      BY <3>2, <3>4 DEF MapOK
  <2>7. LinkedOf({})'
    <3>1. unresolved = {} /\ DOMAIN targets = {}
      BY <1>1, NothingLinked DEF ProgramInv, Progress
    <3> QED
      BY <1>1, <3>1 DEF LinkedOf, CallsOf
  <2>8. Progress'
    <3>1. \A u \in at' .. Len(units') : units'[u] = NoDump
      <4>1. DOMAIN units' = 1 .. Len(units')
        BY <2>3, LenProperties
      <4> QED
        BY <1>1, <2>4, <4>1
    <3> QED
      BY <1>4, <2>1, <2>4, <2>7, <3>1 DEF Progress
  <2> QED
    BY <2>5, <2>6, <2>8 DEF ProgramInv
<1> QED
  BY <1>1, <1>3, <1>4

LEMMA CompileProgram == DriverInv /\ ProgramInv /\ Compile => ProgramInv'
<1> SUFFICES ASSUME DriverInv, ProgramInv, Compile PROVE ProgramInv'
  OBVIOUS
<1> DEFINE written == [dumps EXCEPT ![<<Base, cmd.compiler.pass>>] = Dump]
<1>1. /\ UNCHANGED <<src, normal, runs, cmd, units, functions, targets, unresolved>>
      /\ pc = "compile"
      /\ \/ pc' = "rename" /\ at' = at /\ leftovers' = leftovers /\ exit' = exit
         \/ pc' = "idle" /\ at' = 1 /\ leftovers' = leftovers /\ exit' = "1"
         \/ pc' = "idle" /\ at' = 1 /\ leftovers' = TRUE /\ exit' = "1"
      /\ dumps' = dumps \/ dumps' = written
  BY DEF Compile, Exit, linked
<1>2. cmd \in Commands /\ Given("input-file") /\ at \in 1 .. Len(Sources)
  BY <1>1 DEF DriverInv, Shape, Reading
<1>3. dumps' \in [Bases \X Passes -> Dumps]
  <2>1. Dump \in Dumps
    <3>1. Sources[at] \in Files
      BY <1>2, SourceKnown
    <3>2. src[Sources[at]] \in Texts
      BY <3>1 DEF ProgramInv, Values
    <3> QED
      BY <3>1, <3>2 DEF Dump, Dumps
  <2> HIDE DEF Dump
  <2>2. dumps \in [Bases \X Passes -> Dumps]
    BY DEF ProgramInv, Values
  <2> QED
    BY <1>1, <2>1, <2>2
<1>4. Values'
  BY <1>1, <1>3 DEF ProgramInv, Values
<1>5. Position'
  BY <1>1, SameCommand DEF ProgramInv, Position
<1>6. MapOK'
  BY <1>1, SameProgram DEF ProgramInv
<1>7. Progress'
  <2>1. LinkedOf({})'
    BY <1>1, SameProgram DEF ProgramInv, Progress
  <2> QED
    BY <1>1, <2>1, SameCommand DEF ProgramInv, Progress
<1> QED
  BY <1>4, <1>5, <1>6, <1>7 DEF ProgramInv

LEMMA RenameProgram == DriverInv /\ ProgramInv /\ Rename => ProgramInv'
<1> SUFFICES ASSUME DriverInv, ProgramInv, Rename PROVE ProgramInv'
  OBVIOUS
<1>1. /\ UNCHANGED <<src, runs, leftovers, cmd, units, functions, targets, unresolved>>
      /\ pc = "rename"
      /\ \/ /\ pc' = "read" /\ at' = at /\ exit' = exit
            /\ \E p \in Matches : /\ normal' = [normal EXCEPT ![Base] = dumps[<<Base, p>>]]
                                  /\ dumps' = [dumps EXCEPT ![<<Base, p>>] = NoDump]
         \/ pc' = "idle" /\ at' = 1 /\ exit' = "1" /\ normal' = normal /\ dumps' = dumps
  BY DEF Rename, Exit, linked
<1>2. cmd \in Commands /\ Given("input-file") /\ at \in 1 .. Len(Sources)
  BY <1>1 DEF DriverInv, Shape, Reading
<1>3. dumps' \in [Bases \X Passes -> Dumps] /\ normal' \in [Bases -> Dumps]
  <2>1. NoDump \in Dumps
    BY DEF Dumps
  <2>2. Base \in Bases
    BY <1>2, SourceKnown DEF Base
  <2>3. dumps \in [Bases \X Passes -> Dumps] /\ normal \in [Bases -> Dumps]
    BY DEF ProgramInv, Values
  <2>4. \A p \in Matches : p \in Passes
    BY DEF Matches
  <2>5. ASSUME NEW p \in Matches
        PROVE  /\ [normal EXCEPT ![Base] = dumps[<<Base, p>>]] \in [Bases -> Dumps]
               /\ [dumps EXCEPT ![<<Base, p>>] = NoDump] \in [Bases \X Passes -> Dumps]
    <3>1. <<Base, p>> \in Bases \X Passes
      BY <2>2, <2>4
    <3>2. dumps[<<Base, p>>] \in Dumps
      BY <2>3, <3>1
    <3> QED
      BY <2>1, <2>2, <2>3, <3>1, <3>2
  <2> QED
    BY <1>1, <2>3, <2>5
<1>4. Values'
  BY <1>1, <1>3 DEF ProgramInv, Values
<1>5. Position'
  BY <1>1, SameCommand DEF ProgramInv, Position
<1>6. MapOK'
  BY <1>1, SameProgram DEF ProgramInv
<1>7. Progress'
  <2>1. LinkedOf({})'
    BY <1>1, SameProgram DEF ProgramInv, Progress
  <2> QED
    BY <1>1, <2>1, SameCommand DEF ProgramInv, Progress
<1> QED
  BY <1>4, <1>5, <1>6, <1>7 DEF ProgramInv

-----------------------------------------------------------------------------
(* A bounded set of numbers has a last one.                                *)
LEMMA GreatestNatural ==
  ASSUME NEW N \in Nat, NEW S \in SUBSET (1 .. N), S # {}
  PROVE  \E k \in S : \A m \in S : m <= k
<1> DEFINE T == {N - k : k \in S}
<1>1. T \in SUBSET Nat /\ T # {}
  <2>1. \A k \in S : N - k \in Nat
    OBVIOUS
  <2> QED
    BY <2>1
<1>2. PICK t \in T : \A m \in T : t <= m
  <2> HIDE DEF T
  <2> QED BY <1>1, LeastNatural
<1>3. PICK k \in S : t = N - k
  BY <1>2
<1>4. \A m \in S : m <= k
  <2> TAKE m \in S
  <2>1. N - m \in T
    OBVIOUS
  <2>2. N - k <= N - m
    BY <1>2, <1>3, <2>1
  <2> QED
    BY <2>2
<1> QED
  BY <1>4

(* Reading a unit adds its functions, the last of each name, to the map.   *)
NamesIn(text) == {text.defs[k].name : k \in DOMAIN text.defs}
Adds(map, u, text) ==
  /\ DOMAIN map = NamesIn(text) \cup DOMAIN functions
  /\ \A n \in NamesIn(text) : \E k \in 1 .. Len(text.defs) :
       map[n] = <<u, k>> /\ text.defs[k].name = n
  /\ \A n \in DOMAIN functions : n \notin NamesIn(text) => map[n] = functions[n]

LEMMA WithUnitFacts ==
  ASSUME NEW u, NEW text \in Texts
  PROVE  Adds(WithUnit(u, text), u, text)
<1> DEFINE defs == text.defs
           names == {text.defs[k].name : k \in DOMAIN text.defs}
           Last(n, k) == /\ defs[k].name = n
                         /\ \A m \in DOMAIN defs : defs[m].name = n => m <= k
           new == [n \in names |-> <<u, CHOOSE k \in DOMAIN defs : Last(n, k)>>]
<1>1. WithUnit(u, text) = Over(new, functions)
  BY DEF WithUnit
<1>2. defs \in Seq([name : STRING, calls : SUBSET STRING])
  BY TextsAssumption
<1>3. Len(defs) \in Nat /\ DOMAIN defs = 1 .. Len(defs)
  BY <1>2, LenProperties
<1>4. ASSUME NEW n \in names
      PROVE  \E k \in DOMAIN defs : Last(n, k)
  <2> DEFINE S == {k \in DOMAIN defs : defs[k].name = n}
  <2>1. S \in SUBSET (1 .. Len(defs)) /\ S # {}
    BY <1>3
  <2>2. PICK k \in S : \A m \in S : m <= k
    <3> HIDE DEF S, defs
    <3> QED BY <1>3, <2>1, GreatestNatural
  <2> QED
    BY <2>2
<1>5. ASSUME NEW n \in names
      PROVE  \E k \in DOMAIN defs : new[n] = <<u, k>> /\ defs[k].name = n
  <2> DEFINE k == CHOOSE k \in DOMAIN defs : Last(n, k)
  <2>1. k \in DOMAIN defs /\ Last(n, k)
    <3> HIDE DEF Last, defs
    <3> QED BY <1>4
  <2>2. new[n] = <<u, k>>
    OBVIOUS
  <2> HIDE DEF k
  <2> QED
    BY <2>1, <2>2
<1>6. DOMAIN new = names
  OBVIOUS
<1> HIDE DEF new
<1>7. /\ DOMAIN Over(new, functions) = names \cup DOMAIN functions
      /\ \A n \in names : Over(new, functions)[n] = new[n]
      /\ \A n \in DOMAIN functions : n \notin names => Over(new, functions)[n] = functions[n]
  BY <1>6 DEF Over
<1>8. NamesIn(text) = names
  BY DEF NamesIn
<1> QED
  BY <1>1, <1>3, <1>5, <1>7, <1>8 DEF Adds

LEMMA UnitAdded ==
  ASSUME ProgramInv, NEW a \in 1 .. Len(units), units[a] = NoDump,
         NEW d \in [file : Files, text : Texts],
         units' = [units EXCEPT ![a] = d], functions' = WithUnit(a, d.text)
  PROVE  MapOK' /\ units' \in Seq(Dumps) /\ Len(units') = Len(units)
<1> DEFINE defs  == d.text.defs
           names == {defs[k].name : k \in DOMAIN defs}
<1>1. units \in Seq(Dumps) /\ d \in Dumps /\ d.text \in Texts
  BY DEF ProgramInv, Values, Dumps
<1>2. Len(units) \in Nat /\ DOMAIN units = 1 .. Len(units)
  BY <1>1, LenProperties
<1>3. /\ DOMAIN units' = DOMAIN units /\ units'[a] = d
      /\ \A u \in DOMAIN units : u # a => units'[u] = units[u]
  BY <1>2
<1>4. units' \in Seq(Dumps) /\ Len(units') = Len(units)
  <2>1. \A u \in 1 .. Len(units) : units[u] \in Dumps
    BY <1>1, ElementOfSeq
  <2>2. units' \in [1 .. Len(units) -> Dumps]
    BY <1>1, <1>2, <2>1
  <2>3. units' \in Seq(Dumps)
    <3>1. \A S, n, s : n \in Nat /\ s \in [1 .. n -> S] => s \in Seq(S)
      BY SeqDef
    <3> QED
      BY <1>2, <2>2, <3>1, Zenon
  <2>4. Len(units') \in Nat /\ DOMAIN units' = 1 .. Len(units')
    BY <2>3, LenProperties
  <2> QED
    BY <1>2, <1>3, <2>3, <2>4
<1>5. defs \in Seq([name : STRING, calls : SUBSET STRING])
  BY <1>1, TextsAssumption
<1>6. Len(defs) \in Nat /\ DOMAIN defs = 1 .. Len(defs)
  BY <1>5, LenProperties
<1>7. /\ DOMAIN functions' = names \cup DOMAIN functions
      /\ \A n \in names : \E k \in 1 .. Len(defs) : functions'[n] = <<a, k>> /\ defs[k].name = n
      /\ \A n \in DOMAIN functions : n \notin names => functions'[n] = functions[n]
  <2>1. names = NamesIn(d.text)
    BY DEF NamesIn
  <2> HIDE DEF names
  <2>2. Adds(functions', a, d.text)
    BY <1>1, WithUnitFacts
  <2> QED
    BY <2>1, <2>2 DEF Adds
<1>8. /\ Definitions(a)' = defs
      /\ \A u \in DOMAIN units : u # a => Definitions(u)' = Definitions(u)
  BY <1>3 DEF Definitions
<1>9. \A k : k \notin 1 .. Len(Definitions(a))
  <2>1. NoDump.text.defs = <<>>
    BY DEF NoDump
  <2>2. Len(Definitions(a)) = 0
    BY <2>1 DEF Definitions
  <2> QED
    BY <2>2
<1>10. \A n : n \in Defined' <=> n \in names \/ n \in Defined
  <2> TAKE n
  <2>1. n \in Defined' <=> \E u \in DOMAIN units' : \E k \in 1 .. Len(Definitions(u)') :
                             n = Definitions(u)'[k].name
    BY AllToldNext DEF DefinedTold
  <2>2. n \in Defined <=> \E u \in DOMAIN units : \E k \in 1 .. Len(Definitions(u)) :
                            n = Definitions(u)[k].name
    BY AllTold DEF DefinedTold
  <2>3. n \in names <=> \E k \in 1 .. Len(defs) : n = defs[k].name
    BY <1>6
  <2> HIDE DEF defs, names
  <2>4. ASSUME NEW u \in DOMAIN units', NEW k \in 1 .. Len(Definitions(u)'),
               n = Definitions(u)'[k].name
        PROVE  n \in names \/ n \in Defined
    <3>1. CASE u = a
      BY <1>8, <2>3, <2>4, <3>1
    <3>2. CASE u # a
      BY <1>3, <1>8, <2>2, <2>4, <3>2
    <3> QED
      BY <3>1, <3>2
  <2>5. n \in names => n \in Defined'
    BY <1>2, <1>3, <1>8, <2>1, <2>3
  <2>6. ASSUME NEW u \in DOMAIN units, NEW k \in 1 .. Len(Definitions(u)),
               n = Definitions(u)[k].name
        PROVE  n \in Defined'
    <3>1. u # a
      BY <1>9
    <3> QED
      BY <1>3, <1>8, <2>1, <2>6, <3>1
  <2> QED
    BY <2>1, <2>2, <2>4, <2>5, <2>6
<1>11. DOMAIN functions' = Defined'
  <2>1. DOMAIN functions = Defined
    BY DEF ProgramInv, MapOK
  <2> QED
    BY <1>7, <1>10, <2>1
<1>12. ASSUME NEW n \in DOMAIN functions', NEW f, f = functions'[n]
       PROVE  f \in (UNION {InUnit(u) : u \in DOMAIN units})' /\ Name(f)' = n
  <2>1. \A u \in DOMAIN units' : \A k \in 1 .. Len(Definitions(u)') :
          <<u, k>> \in (UNION {InUnit(v) : v \in DOMAIN units})' /\ Name(<<u, k>>)' = Definitions(u)'[k].name
    BY DEF InUnit, Name, Definitions
  <2> HIDE DEF defs, names
  <2>2. CASE n \in names
    <3>1. PICK k \in 1 .. Len(defs) : functions'[n] = <<a, k>> /\ defs[k].name = n
      BY <1>7, <2>2
    <3>2. a \in DOMAIN units' /\ k \in 1 .. Len(Definitions(a)') /\ Definitions(a)'[k].name = n
      BY <1>2, <1>3, <1>8, <3>1
    <3> QED
      BY <1>12, <2>1, <3>1, <3>2
  <2>3. CASE n \notin names
    <3>1. n \in DOMAIN functions /\ functions'[n] = functions[n]
      BY <1>7, <2>3
    <3>2. functions[n] \in UNION {InUnit(u) : u \in DOMAIN units} /\ Name(functions[n]) = n
      BY <3>1 DEF ProgramInv, MapOK
    <3>3. PICK u \in DOMAIN units : \E k \in 1 .. Len(Definitions(u)) : functions[n] = <<u, k>>
      <4> DEFINE place == functions[n]
      <4>1. place \in UNION {InUnit(u) : u \in DOMAIN units}
        BY <3>2
      <4> HIDE DEF place
      <4>2. \E u \in DOMAIN units : \E k \in 1 .. Len(Definitions(u)) : place = <<u, k>>
        BY <4>1, FunctionPlaced
      <4> QED
        BY <4>2 DEF place
    <3>4. PICK k \in 1 .. Len(Definitions(u)) : functions[n] = <<u, k>>
      BY <3>3
    <3>5. u # a
      BY <1>9
    <3>6. Definitions(u)[k].name = n
      BY <3>2, <3>4 DEF Name
    <3>7. u \in DOMAIN units' /\ k \in 1 .. Len(Definitions(u)') /\ Definitions(u)'[k].name = n
      BY <1>3, <1>8, <3>5, <3>6
    <3> QED
      BY <1>12, <2>1, <3>1, <3>4, <3>7
  <2> QED
    BY <2>2, <2>3
<1> QED
  BY <1>4, <1>11, <1>12 DEF MapOK

LEMMA ReadDumpProgram == DriverInv /\ ProgramInv /\ ReadDump => ProgramInv'
<1> SUFFICES ASSUME DriverInv, ProgramInv, ReadDump PROVE ProgramInv'
  OBVIOUS
<1>1. UNCHANGED <<src, dumps, normal, runs, leftovers, cmd>> /\ pc = "read"
  BY DEF ReadDump, disk
<1>2. cmd \in Commands /\ Given("input-file") /\ at \in 1 .. Len(Sources)
      /\ normal[Base] = Dump
  BY <1>1 DEF DriverInv, Shape, Reading, JustWritten
<1>3. Dump # NoDump
  BY <1>2, DumpIsADump
<1>4. /\ UNCHANGED <<targets, unresolved, exit>>
      /\ \/ UNCHANGED <<units, functions>>
         \/ units' = [units EXCEPT ![at] = Dump] /\ functions' = WithUnit(at, Dump.text)
      /\ \/ pc' = "compile" /\ at' = at + 1 /\ at < Len(Sources)
         \/ pc' = "link" /\ at' = 1
  BY <1>2, <1>3 DEF ReadDump, Step, GoTo
<1>5. /\ units \in Seq(Dumps) /\ Len(units) = Len(Sources) /\ Len(Sources) \in Nat
      /\ \A u \in at .. Len(units) : units[u] = NoDump
      /\ LinkedOf({}) /\ MapOK
  BY <1>1, <1>2, SomeSource DEF ProgramInv, Values, Progress
<1>6. Dump \in [file : Files, text : Texts]
  <2>1. Sources[at] \in Files
    BY <1>2, SourceKnown
  <2>2. src[Sources[at]] \in Texts
    BY <2>1 DEF ProgramInv, Values
  <2> QED
    BY <2>1, <2>2 DEF Dump
<1>7. /\ MapOK' /\ units' \in Seq(Dumps) /\ Len(units') = Len(units)
      /\ \A u \in at + 1 .. Len(units) : units'[u] = NoDump
  <2>1. CASE UNCHANGED <<units, functions>>
    BY <1>2, <1>5, <2>1, SameProgram
  <2>2. CASE units' = [units EXCEPT ![at] = Dump] /\ functions' = WithUnit(at, Dump.text)
    <3>1. at \in 1 .. Len(units) /\ units[at] = NoDump
      BY <1>2, <1>5
    <3>2. MapOK' /\ units' \in Seq(Dumps) /\ Len(units') = Len(units)
      <4> HIDE DEF Dump
      <4> QED BY <1>6, <2>2, <3>1, UnitAdded
    <3>3. \A u \in at + 1 .. Len(units) : units'[u] = units[u]
      <4>1. DOMAIN units = 1 .. Len(units)
        BY <1>5, LenProperties
      <4> QED
        BY <2>2, <3>1, <4>1
    <3> QED
      BY <1>5, <3>1, <3>2, <3>3
  <2> QED
    BY <1>4, <2>1, <2>2
<1>8. Values'
  BY <1>1, <1>4, <1>7 DEF ProgramInv, Values
<1>9. Sources' = Sources /\ (Given("input-file"))'
  BY <1>1, <1>2, SameCommand
<1>10. Position'
  BY <1>2, <1>4, <1>5, <1>9 DEF Position
<1>11. LinkedOf({})'
  <2>1. unresolved = {} /\ DOMAIN targets = {}
    BY <1>5, NothingLinked
  <2> QED
    BY <1>4, <2>1 DEF LinkedOf, CallsOf
<1>12. Progress'
  <2>1. CASE pc' = "compile" /\ at' = at + 1
    BY <1>5, <1>7, <1>9, <1>11, <2>1 DEF Progress
  <2>2. CASE pc' = "link" /\ at' = 1
    <3>1. 1 .. at' - 1 = {}
      BY <2>2
    <3>2. LinkedOf(1 .. at - 1)'
      BY <1>11, <3>1
    <3> QED
      BY <1>5, <1>7, <1>9, <2>2, <3>2 DEF Progress
  <2> QED
    BY <1>4, <2>1, <2>2
<1> QED
  BY <1>7, <1>8, <1>10, <1>12 DEF ProgramInv

-----------------------------------------------------------------------------
(* Linking one more unit.                                                  *)
LEMMA OneMoreLinked ==
  ASSUME NEW U, NEW m, LinkedOf(U), units' = units, functions' = functions,
         NEW calls, calls = UNION {Calls(f) : f \in InUnit(m)},
         targets' = Over([c \in {d \in calls : d[2] \in DOMAIN functions} |-> functions[c[2]]],
                         targets),
         unresolved' = unresolved \cup {c \in calls : c[2] \notin DOMAIN functions}
  PROVE  LinkedOf(U \cup {m})'
<1> DEFINE new == [c \in {d \in calls : d[2] \in DOMAIN functions} |-> functions[c[2]]]
<1>1. \A c : c \in CallsOf(U \cup {m}) <=> c \in CallsOf(U) \/ c \in calls
  <2>1. \A c : c \in calls <=> \E f \in InUnit(m) : c \in Calls(f)
    OBVIOUS
  <2>2. \A V : \A c : c \in CallsOf(V) <=> \E u \in V : \E f \in InUnit(u) : c \in Calls(f)
    BY DEF CallsOf
  <2> QED
    BY <2>1, <2>2
<1>2. CallsOf(U \cup {m})' = CallsOf(U \cup {m})
  <2>1. \A c : c \in CallsOf(U \cup {m})' <=> c \in CallsOf(U \cup {m})
    <3>1. \A u : Definitions(u)' = Definitions(u)
      BY DEF Definitions
    <3> QED
      BY <3>1, AllTold, AllToldNext DEF CallsTold
  <2> QED
    BY <2>1 DEF CallsOf
<1>3. /\ unresolved = {c \in CallsOf(U) : c[2] \notin DOMAIN functions}
      /\ DOMAIN targets = {c \in CallsOf(U) : c[2] \in DOMAIN functions}
      /\ \A c \in DOMAIN targets : targets[c] = functions[c[2]]
  BY DEF LinkedOf
<1>4. /\ DOMAIN new = {c \in calls : c[2] \in DOMAIN functions}
      /\ \A c \in DOMAIN new : new[c] = functions[c[2]]
  OBVIOUS
<1>5. targets' = Over(new, targets)
  OBVIOUS
<1> HIDE DEF new
<1>6. /\ DOMAIN targets' = DOMAIN new \cup DOMAIN targets
      /\ \A c \in DOMAIN targets' : targets'[c] = IF c \in DOMAIN new THEN new[c] ELSE targets[c]
  BY <1>5 DEF Over
<1>7. unresolved' = {c \in CallsOf(U \cup {m}) : c[2] \notin DOMAIN functions}
  BY <1>1, <1>3
<1>8. DOMAIN targets' = {c \in CallsOf(U \cup {m}) : c[2] \in DOMAIN functions}
  BY <1>1, <1>3, <1>4, <1>6
<1>9. \A c \in DOMAIN targets' : targets'[c] = functions[c[2]]
  BY <1>3, <1>4, <1>6
<1> QED
  <2>1. PICK K : K = CallsOf(U \cup {m}) /\ K = CallsOf(U \cup {m})'
    BY <1>2
  <2>2. unresolved' = {c \in K : c[2] \notin DOMAIN functions'}
    BY <1>7, <2>1
  <2>3. DOMAIN targets' = {c \in K : c[2] \in DOMAIN functions'}
    BY <1>8, <2>1
  <2>4. \A c \in DOMAIN targets' : targets'[c] = functions'[c[2]]
    BY <1>9
  <2> QED
    BY <2>1, <2>2, <2>3, <2>4, Zenon DEF LinkedOf

LEMMA LinkUnitProgram == DriverInv /\ ProgramInv /\ LinkUnit => ProgramInv'
<1> SUFFICES ASSUME DriverInv, ProgramInv, LinkUnit PROVE ProgramInv'
  OBVIOUS
<1>1. /\ UNCHANGED <<src, dumps, normal, runs, leftovers, cmd, exit, units, functions>>
      /\ pc = "link"
      /\ \/ at < Len(Sources) /\ pc' = "link" /\ at' = at + 1
         \/ ~(at < Len(Sources)) /\ pc' = "print" /\ at' = 1
  BY DEF LinkUnit, Step, GoTo, disk
<1>2. /\ cmd \in Commands /\ Given("input-file")
      /\ Len(units) = Len(Sources) /\ LinkedOf(1 .. at - 1)
  BY <1>1 DEF DriverInv, Shape, ProgramInv, Position, Progress
<1>3. Len(Sources) \in Nat /\ at \in 1 .. Len(Sources)
  BY <1>1, <1>2, SomeSource DEF ProgramInv, Position
<1>4. PICK m : m = at
  OBVIOUS
<1>5. LinkedOf(1 .. m)'
  <2> DEFINE calls == UNION {Calls(f) : f \in InUnit(m)}
  <2>1. /\ targets' = Over([c \in {d \in calls : d[2] \in DOMAIN functions} |-> functions[c[2]]],
                           targets)
        /\ unresolved' = unresolved \cup {c \in calls : c[2] \notin DOMAIN functions}
    BY <1>4 DEF LinkUnit
  <2>2. LinkedOf((1 .. m - 1) \cup {m})'
    <3>1. LinkedOf(1 .. m - 1)
      BY <1>2, <1>4
    <3>2. calls = UNION {Calls(f) : f \in InUnit(m)}
      OBVIOUS
    <3> HIDE DEF calls
    <3> QED
      BY <1>1, <2>1, <3>1, <3>2, OneMoreLinked
  <2>3. (1 .. m - 1) \cup {m} = 1 .. m
    BY <1>3, <1>4
  <2> QED
    BY <2>2, <2>3
<1>6. Values'
  BY <1>1 DEF ProgramInv, Values
<1>7. Sources' = Sources /\ (Given("input-file"))'
  BY <1>1, <1>2, SameCommand
<1>8. Position'
  BY <1>1, <1>3, <1>7 DEF Position
<1>9. MapOK'
  BY <1>1, SameProgram DEF ProgramInv
<1>10. Progress'
  <2>1. CASE pc' = "link" /\ at' = at + 1
    <3>1. at' - 1 = m
      BY <1>3, <1>4, <2>1
    <3>2. LinkedOf(1 .. at - 1)'
      BY <1>5, <3>1
    <3> QED
      BY <1>1, <1>2, <1>7, <2>1, <3>2 DEF Progress
  <2>2. CASE ~(at < Len(Sources)) /\ pc' = "print"
    <3>1. m = Len(units')
      BY <1>1, <1>2, <1>3, <1>4, <2>2
    <3>2. DOMAIN units' = 1 .. m
      BY <1>6, <3>1, LenProperties DEF Values
    <3>3. LinkedOf(DOMAIN units)'
      BY <1>5, <3>2
    <3> QED
      BY <2>2, <3>3 DEF Progress
  <2> QED
    BY <1>1, <2>1, <2>2
<1> QED
  BY <1>6, <1>8, <1>9, <1>10 DEF ProgramInv

LEMMA StutterProgram == ProgramInv /\ UNCHANGED vars => ProgramInv'
<1> SUFFICES ASSUME ProgramInv, UNCHANGED vars PROVE ProgramInv'
  OBVIOUS
<1>1. UNCHANGED <<src, dumps, normal, runs, leftovers, cmd, pc, at, exit, units, functions,
                  targets, unresolved>>
  BY DEF vars, disk, linked
<1>2. Values' /\ Position'
  BY <1>1, SameCommand DEF ProgramInv, Values, Position
<1>3. MapOK' /\ \A U : LinkedOf(U) => LinkedOf(U)'
  BY <1>1, SameProgram DEF ProgramInv
<1>4. /\ LinkedOf({}) => LinkedOf({})'
      /\ LinkedOf(1 .. at - 1) => LinkedOf(1 .. at - 1)'
      /\ LinkedOf(DOMAIN units) => LinkedOf(DOMAIN units)'
  BY <1>1, <1>3
<1>5. Progress'
  BY <1>1, <1>4, SameCommand DEF ProgramInv, Progress
<1> QED
  BY <1>2, <1>3, <1>5 DEF ProgramInv

THEOREM ProgramInvariant == Spec => []ProgramInv
<1>1. DriverInv /\ ProgramInv /\ [Next]_vars => ProgramInv'
  <2> SUFFICES ASSUME DriverInv, ProgramInv, [Next]_vars PROVE ProgramInv'
    OBVIOUS
  <2>1. CASE Configure \/ PrintCfg \/ AddConstraint \/ RunRule \/ WriteReport \/ Kill
    BY <2>1, GoingOnSteps, GoesOnProgram DEF DriverInv
  <2>2. CASE CheckVersion
    BY <2>2, CheckVersionProgram
  <2>3. CASE Compile
    BY <2>3, CompileProgram
  <2>4. CASE Rename
    BY <2>4, RenameProgram
  <2>5. CASE ReadDump
    BY <2>5, ReadDumpProgram
  <2>6. CASE LinkUnit
    BY <2>6, LinkUnitProgram
  <2>7. CASE Start
    BY <2>7, StartProgram
  <2>8. CASE UNCHANGED vars
    BY <2>8, StutterProgram
  <2> QED
    BY <2>1, <2>2, <2>3, <2>4, <2>5, <2>6, <2>7, <2>8 DEF Next, Run, Resting
<1> QED
  BY <1>1, InitProgram, DriverInvariant, PTL DEF Spec

(* Every variable of the driver is what it is meant to be in every phase   *)
(* of every run, also after runs that were killed; in particular the map   *)
(* only names functions of units that were read.                           *)
THEOREM DriverTypeCorrect == Spec => []TypeOK
<1>1. DriverInv /\ ProgramInv => TypeOK
  <2> SUFFICES ASSUME DriverInv, ProgramInv PROVE TypeOK
    OBVIOUS
  <2> QED
    BY DEF DriverInv, Shape, ProgramInv, Values, Position, MapOK, TypeOK
<1> QED
  BY <1>1, DriverInvariant, ProgramInvariant, PTL

(* Whatever files a command names and in whatever order, when a run prints *)
(* or checks: a call is unresolved exactly if no file of the command       *)
(* defines the function, and otherwise leads to the function that --cfg    *)
(* and the constraints find under its name.                                *)
THEOREM AlwaysLinkedToAll == Spec => []LinkSeesEveryFile
<1>1. ProgramInv => LinkSeesEveryFile
  <2> SUFFICES ASSUME ProgramInv, pc \in {"print", "constraints", "analyze", "report"}
               PROVE  /\ unresolved = {c \in AllCalls : c[2] \notin Defined}
                      /\ DOMAIN targets = AllCalls \ unresolved
                      /\ \A c \in DOMAIN targets :
                           targets[c] = functions[c[2]] /\ Name(targets[c]) = c[2]
    BY DEF LinkSeesEveryFile
  <2>1. /\ unresolved = {c \in CallsOf(DOMAIN units) : c[2] \notin DOMAIN functions}
        /\ DOMAIN targets = {c \in CallsOf(DOMAIN units) : c[2] \in DOMAIN functions}
        /\ \A c \in DOMAIN targets : targets[c] = functions[c[2]]
    BY DEF ProgramInv, Progress, LinkedOf
  <2>2. AllCalls = CallsOf(DOMAIN units)
    BY DEF AllCalls, CallsOf
  <2>3. /\ DOMAIN functions = Defined
        /\ \A n \in DOMAIN functions : Name(functions[n]) = n
    BY DEF ProgramInv, MapOK
  <2> QED
    BY <2>1, <2>2, <2>3
<1> QED
  BY <1>1, ProgramInvariant, PTL

-----------------------------------------------------------------------------
(* What a run leaves behind.  What has been read, printed, added, checked  *)
(* and told of when a phase begins is all that the phases before it had to *)
(* do, or was complained of.                                               *)

Place == Nat \X Nat
Pairs == Place \X Place
Causes == {"syntax", "filename", "constraint"}
Outcome ==
  [printed : Seq(Place), rules : Seq(Pairs), checked : Seq(Pairs), told : Seq(Place),
   complaints : SUBSET (Causes \X Nat)]

Before(f, g) == f[1] < g[1] \/ (f[1] = g[1] /\ f[2] < g[2])
Ordered(s)   == \A m, n \in DOMAIN s : m < n => Before(s[m], s[n])

NothingDone ==
  /\ results.printed = <<>> /\ results.rules = <<>>
  /\ results.checked = <<>> /\ results.told = <<>>
PrintedAll ==
  Given("cfg") =>
    IF CanPrint THEN results.printed = << functions[Options["cfg"]] >> ELSE Told("filename", 1)
AddedTo(k) ==
  /\ InTheirOrder(results.rules, k)
  /\ \A n \in 1 .. k : Checkable(n) \/ Told("constraint", n)
RunSoFar ==
  /\ Len(results.checked) <= Len(results.rules)
  /\ \A n \in 1 .. Len(results.checked) : results.checked[n] = results.rules[n]
AreOf(s, k) == {s[n] : n \in DOMAIN s} = UNION {InUnit(u) : u \in 1 .. k}
ToldTo(k) == AreOf(results.told, k) /\ Ordered(results.told)

ReadInv ==
  /\ pc \in {"compile", "rename", "read"} => \A u \in 1 .. at - 1 : ReadOrTold(u)
  /\ pc \in {"link", "print", "constraints", "analyze", "report"} =>
       \A u \in DOMAIN Sources : ReadOrTold(u)

ResultsInv ==
  /\ pc \in {"configure", "version", "compile", "rename", "read", "link", "print"} => NothingDone
  /\ pc \in {"print", "constraints", "analyze", "report"} /\ Given("input-file") =>
       Len(units) = Len(Sources)
  /\ pc \in {"constraints", "analyze", "report"} => PrintedAll
  /\ pc = "constraints" => AddedTo(at - 1) /\ results.checked = <<>> /\ results.told = <<>>
  /\ pc = "analyze" => AddedTo(Len(Wanted)) /\ RunSoFar /\ results.told = <<>>
  /\ pc = "report" =>
       AddedTo(Len(Wanted)) /\ results.checked = results.rules /\ ToldTo(at - 1)
  /\ DoneOrComplained

LEMMA NothingYet == /\ NoResults \in Outcome
                    /\ NoResults.printed = <<>> /\ NoResults.rules = <<>>
                    /\ NoResults.checked = <<>> /\ NoResults.told = <<>>
  BY DEF NoResults, Outcome

(* The functions of a unit, and all there are, are known by two numbers.   *)
LEMMA UnitsHavePlaces ==
  ASSUME ProgramInv
  PROVE  /\ \A u \in DOMAIN units : /\ u \in Nat /\ Len(Definitions(u)) \in Nat
                                    /\ DOMAIN Definitions(u) = 1 .. Len(Definitions(u))
         /\ \A n \in DOMAIN functions : functions[n] \in Place
<1>1. ASSUME NEW u \in DOMAIN units
      PROVE  /\ u \in Nat /\ Len(Definitions(u)) \in Nat
             /\ DOMAIN Definitions(u) = 1 .. Len(Definitions(u))
  <2>1. units \in Seq(Dumps)
    BY DEF ProgramInv, Values
  <2>2. u \in Nat /\ units[u] \in Dumps
    BY <2>1
  <2>3. units[u].text.defs \in Seq([name : STRING, calls : SUBSET STRING])
    <3>1. CASE units[u] = NoDump
      <4>1. NoDump.text.defs = <<>>
        BY DEF NoDump
      <4> QED
        BY <3>1, <4>1
    <3>2. CASE units[u] \in [file : Files, text : Texts]
      BY <3>2, TextsAssumption
    <3> QED
      BY <2>2, <3>1, <3>2 DEF Dumps
  <2> QED
    BY <2>2, <2>3, LenProperties DEF Definitions
<1>2. ASSUME NEW n \in DOMAIN functions
      PROVE  functions[n] \in Place
  <2>1. functions[n] \in UNION {InUnit(u) : u \in DOMAIN units}
    BY DEF ProgramInv, MapOK
  <2>2. PICK u \in DOMAIN units : \E k \in 1 .. Len(Definitions(u)) : functions[n] = <<u, k>>
    <3> DEFINE f == functions[n]
    <3>1. f \in UNION {InUnit(u) : u \in DOMAIN units}
      BY <2>1
    <3> HIDE DEF f
    <3>2. \E u \in DOMAIN units : \E k \in 1 .. Len(Definitions(u)) : f = <<u, k>>
      BY <3>1, FunctionPlaced
    <3> QED
      BY <3>2 DEF f
  <2>3. PICK k \in 1 .. Len(Definitions(u)) : functions[n] = <<u, k>>
    BY <2>2
  <2> QED
    BY <1>1, <2>3 DEF Place
<1> QED
  BY <1>1, <1>2

(* A constraint can be checked if AddConstraints adds it.                  *)
LEMMA CheckableKnown ==
  ASSUME ProgramInv, NEW n
  PROVE  Checkable(n) <=> Addable(Wanted[n])
  BY DEF ProgramInv, MapOK, Checkable, Addable, Known

LEMMA SourcesCounted ==
  ASSUME cmd \in Commands
  PROVE  Len(Sources) \in Nat /\ DOMAIN Sources = 1 .. Len(Sources)
<1>1. CASE Given("input-file")
  <2>1. Sources \in Seq(Files)
    BY <1>1, CommandsAssumption DEF Given, Options, Sources
  <2> QED
    BY <2>1, LenProperties
<1>2. CASE ~Given("input-file")
  <2>1. Sources = <<>>
    BY <1>2 DEF Sources
  <2> QED
    BY <2>1
<1> QED
  BY <1>1, <1>2

LEMMA AtCounts ==
  ASSUME DriverInv, ProgramInv
  PROVE  at \in Nat /\ at >= 1
<1>1. Len(Sources) \in Nat /\ Len(Wanted) \in Nat
  BY SourcesCounted, SomeWanted DEF DriverInv, Shape
<1> QED
  BY <1>1 DEF ProgramInv, Position

(* What was asked and what the program has do not change, and what was     *)
(* complained of is not forgotten.                                         *)
Remembers == results.complaints \subseteq results'.complaints

LEMMA SameRead ==
  ASSUME cmd' = cmd, src' = src, Remembers, NEW u, units'[u] = units[u]
  PROVE  ReadOrTold(u) => ReadOrTold(u)'
<1>1. Sources' = Sources
  BY SameCommand
<1> QED
  BY <1>1 DEF ReadOrTold, Told, Remembers

LEMMA SameAsked ==
  ASSUME cmd' = cmd, units' = units, functions' = functions
  PROVE  /\ Options' = Options /\ Sources' = Sources /\ Wanted' = Wanted
         /\ \A o : (Given(o))' = Given(o)
         /\ \A n : (Checkable(n))' = Checkable(n)
         /\ \A u : InUnit(u)' = InUnit(u)
         /\ CanPrint' = CanPrint
<1>1. Options' = Options /\ Sources' = Sources /\ Wanted' = Wanted /\ \A o : (Given(o))' = Given(o)
  BY DEF Options, Sources, Wanted, Given
<1>2. \A n : (Checkable(n))' = Checkable(n)
  BY <1>1 DEF Checkable, Defined, InUnit, Name, Definitions
<1>3. \A u : InUnit(u)' = InUnit(u)
  BY DEF InUnit, Definitions
<1>4. CanPrint' = CanPrint
  BY <1>1 DEF CanPrint, ToFile, NoFilename
<1> QED
  BY <1>1, <1>2, <1>3, <1>4

LEMMA SameDone ==
  ASSUME cmd' = cmd, units' = units, functions' = functions, Remembers
  PROVE  /\ PrintedAll /\ results'.printed = results.printed => PrintedAll'
         /\ \A k : results'.rules = results.rules /\ AddedTo(k) => AddedTo(k)'
         /\ \A k : results'.told = results.told /\ ToldTo(k) => ToldTo(k)'
<1>1. PrintedAll /\ results'.printed = results.printed => PrintedAll'
  BY SameAsked DEF PrintedAll, Told, Remembers
<1>2. ASSUME NEW k, results'.rules = results.rules, AddedTo(k)
      PROVE  AddedTo(k)'
  <2>1. InTheirOrder(results.rules, k)'
    BY <1>2, SameAsked DEF AddedTo, InTheirOrder
  <2>2. \A n \in 1 .. k : Checkable(n)' \/ Told("constraint", n)'
    BY <1>2, SameAsked DEF AddedTo, Told, Remembers
  <2> QED
    BY <2>1, <2>2 DEF AddedTo
<1>3. \A k : results'.told = results.told /\ ToldTo(k) => ToldTo(k)'
  BY SameAsked DEF ToldTo, AreOf, Ordered, Before
<1> QED
  BY <1>1, <1>2, <1>3

-----------------------------------------------------------------------------
(* Each step adds to one field of the results at most.                     *)
LEMMA ComplainFacts ==
  ASSUME results \in Outcome, NEW what \in Causes, NEW n \in Nat, Complain(what, n)
  PROVE  /\ results' \in Outcome /\ Remembers /\ <<what, n>> \in results'.complaints
         /\ results'.printed = results.printed /\ results'.rules = results.rules
         /\ results'.checked = results.checked /\ results'.told = results.told
<1> DEFINE more == results.complaints \cup {<<what, n>>}
<1>1. results' = [results EXCEPT !.complaints = more]
  BY DEF Complain
<1>2. more \in SUBSET (Causes \X Nat) /\ results.complaints \subseteq more /\ <<what, n>> \in more
  BY DEF Outcome
<1> HIDE DEF more
<1> QED
  BY <1>1, <1>2 DEF Outcome, Remembers

LEMMA PrintedFacts ==
  ASSUME results \in Outcome, NEW f \in Place,
         results' = [results EXCEPT !.printed = Append(@, f)]
  PROVE  /\ results' \in Outcome /\ Remembers
         /\ results'.printed = Append(results.printed, f) /\ results'.rules = results.rules
         /\ results'.checked = results.checked /\ results'.told = results.told
<1> DEFINE more == Append(results.printed, f)
<1>1. results' = [results EXCEPT !.printed = more]
  OBVIOUS
<1>2. more \in Seq(Place)
  BY DEF Outcome
<1> HIDE DEF more
<1> USE <1>1, <1>2
<1>3. /\ results' \in Outcome /\ Remembers
      /\ results'.printed = more /\ results'.rules = results.rules
      /\ results'.checked = results.checked /\ results'.told = results.told
  BY DEF Outcome, Remembers
<1> QED
  BY <1>3 DEF more

LEMMA AddRuleFacts ==
  ASSUME ProgramInv, results \in Outcome, NEW c, Addable(c), AddRule(c),
         NEW pair, pair = <<functions[c[1]], functions[c[2]]>>
  PROVE  /\ results' \in Outcome /\ Remembers /\ pair \in Pairs
         /\ results'.rules = Append(results.rules, pair) /\ results'.printed = results.printed
         /\ results'.checked = results.checked /\ results'.told = results.told
<1> DEFINE more == Append(results.rules, pair)
<1>1. results' = [results EXCEPT !.rules = more]
  BY DEF AddRule
<1>2. pair \in Pairs
  BY UnitsHavePlaces DEF Addable, Known, Pairs
<1>3. more \in Seq(Pairs)
  BY <1>2 DEF Outcome
<1> HIDE DEF more
<1>4. /\ results' \in Outcome /\ Remembers
      /\ results'.rules = more /\ results'.printed = results.printed
      /\ results'.checked = results.checked /\ results'.told = results.told
  BY <1>1, <1>3 DEF Outcome, Remembers
<1> QED
  BY <1>2, <1>4 DEF more

LEMMA CheckedFacts ==
  ASSUME results \in Outcome, NEW p \in Pairs,
         results' = [results EXCEPT !.checked = Append(@, p)]
  PROVE  /\ results' \in Outcome /\ Remembers
         /\ results'.checked = Append(results.checked, p) /\ results'.printed = results.printed
         /\ results'.rules = results.rules /\ results'.told = results.told
<1> DEFINE more == Append(results.checked, p)
<1>1. results' = [results EXCEPT !.checked = more]
  OBVIOUS
<1>2. more \in Seq(Pairs)
  BY DEF Outcome
<1> HIDE DEF more
<1>3. /\ results' \in Outcome /\ Remembers
      /\ results'.checked = more /\ results'.printed = results.printed
      /\ results'.rules = results.rules /\ results'.told = results.told
  BY <1>1, <1>2 DEF Outcome, Remembers
<1> QED
  BY <1>3 DEF more

(* The steps before the linking, and what they do to the results.          *)
LEMMA ReadDumpFacts ==
  ASSUME DriverInv, ProgramInv, results \in Outcome, ReadDump
  PROVE  /\ UNCHANGED <<src, cmd>> /\ pc = "read" /\ at \in 1 .. Len(Sources)
         /\ results' \in Outcome /\ Remembers
         /\ results'.printed = results.printed /\ results'.rules = results.rules
         /\ results'.checked = results.checked /\ results'.told = results.told
         /\ \A u \in 1 .. Len(Sources) : u # at => units'[u] = units[u]
         /\ \A u : u = at => ReadOrTold(u)'
         /\ \/ pc' = "compile" /\ at' = at + 1
            \/ pc' = "link" /\ at = Len(Sources)
<1>1. UNCHANGED <<src, cmd>> /\ pc = "read"
  BY DEF ReadDump, disk
<1>2. /\ cmd \in Commands /\ Given("input-file") /\ at \in 1 .. Len(Sources)
      /\ normal[Base] = Dump
  BY <1>1 DEF DriverInv, Shape, Reading, JustWritten
<1>3. Dump # NoDump
  BY <1>2, DumpIsADump
<1>4. /\ \/ /\ Dump.text.parses /\ results' = results
            /\ units' = [units EXCEPT ![at] = Dump]
         \/ ~Dump.text.parses /\ Complain("syntax", at) /\ units' = units
      /\ \/ pc' = "compile" /\ at' = at + 1
         \/ pc' = "link" /\ ~(at < Len(Sources))
  BY <1>2, <1>3 DEF ReadDump, Step, GoTo
<1>5. DOMAIN units = 1 .. Len(Sources) /\ Len(Sources) \in Nat
  BY <1>1, <1>2, SomeSource, LenProperties DEF ProgramInv, Values, Progress
<1>6. /\ results' \in Outcome /\ Remembers
      /\ results'.printed = results.printed /\ results'.rules = results.rules
      /\ results'.checked = results.checked /\ results'.told = results.told
      /\ ~Dump.text.parses => <<"syntax", at>> \in results'.complaints
  <2>1. CASE Dump.text.parses /\ results' = results
    BY <2>1 DEF Remembers
  <2>2. CASE ~Dump.text.parses /\ Complain("syntax", at)
    <3>1. PICK what, n : what = "syntax" /\ n = at
      OBVIOUS
    <3>2. what \in Causes /\ n \in Nat
      BY <3>1, AtCounts DEF Causes
    <3>3. Complain(what, n)
      BY <2>2, <3>1
    <3> QED
      BY <3>1, <3>2, <3>3, ComplainFacts
  <2> QED
    BY <1>4, <2>1, <2>2
<1>7. \A u \in 1 .. Len(Sources) : u # at => units'[u] = units[u]
  BY <1>4, <1>5
<1>8. ASSUME NEW a, a = at PROVE ReadOrTold(a)'
  <2>2. Dump.text = src[Sources[a]] /\ Dump = [file |-> Sources[a], text |-> src[Sources[a]]]
    BY <1>8 DEF Dump
  <2>3. Sources' = Sources
    BY <1>1, SameCommand
  <2>4. IF src'[Sources'[a]].parses
        THEN units'[a] = [file |-> Sources'[a], text |-> src'[Sources'[a]]]
        ELSE <<"syntax", a>> \in results'.complaints
    <3>1. CASE Dump.text.parses /\ units' = [units EXCEPT ![at] = Dump]
      <4>1. units'[a] = Dump
        BY <1>2, <1>5, <1>8, <3>1
      <4> QED
        BY <1>1, <2>2, <2>3, <3>1, <4>1
    <3>2. CASE ~Dump.text.parses
      BY <1>1, <1>6, <1>8, <2>2, <2>3, <3>2
    <3> QED
      BY <1>4, <3>1, <3>2
  <2> QED
    BY <2>4 DEF ReadOrTold, Told
<1> QED
  BY <1>1, <1>2, <1>4, <1>5, <1>6, <1>7, <1>8

(* The steps after the reading.                                            *)
LEMMA PrintFacts ==
  ASSUME ProgramInv, results \in Outcome, NothingDone, PrintCfg
  PROVE  /\ UNCHANGED <<src, cmd, units, functions>> /\ pc = "print"
         /\ results' \in Outcome /\ Remembers
         /\ results'.rules = <<>> /\ results'.checked = <<>> /\ results'.told = <<>>
         /\ \/ pc' = "idle" /\ exit' # "0"
            \/ pc' = "looping"
            \/ pc' = "constraints" /\ at' = 1 /\ PrintedAll'
<1>1. UNCHANGED <<src, cmd, units, functions>> /\ pc = "print"
  BY DEF PrintCfg, disk, linked
<1>2. CASE /\ \/ pc' = "idle" /\ exit' # "0"
              \/ pc' = "looping"
           /\ results' = results
  BY <1>1, <1>2 DEF NothingDone, Remembers
<1>3. CASE ~Given("cfg") /\ pc' = "constraints" /\ at' = 1 /\ results' = results
  <2>1. PrintedAll'
    BY <1>1, <1>3, SameAsked DEF PrintedAll
  <2> QED
    BY <1>1, <1>3, <2>1 DEF NothingDone, Remembers
<1>4. CASE ~CanPrint /\ pc' = "constraints" /\ at' = 1 /\ Complain("filename", 1)
  <2>1. /\ results' \in Outcome /\ Remembers /\ <<"filename", 1>> \in results'.complaints
        /\ results'.printed = results.printed /\ results'.rules = results.rules
        /\ results'.checked = results.checked /\ results'.told = results.told
    <3>1. PICK what, n : what = "filename" /\ n = 1
      OBVIOUS
    <3>2. what \in Causes /\ n \in Nat
      BY <3>1 DEF Causes
    <3>3. Complain(what, n)
      BY <1>4, <3>1
    <3> QED
      BY <3>1, <3>2, <3>3, ComplainFacts
  <2>2. PrintedAll'
    BY <1>1, <1>4, <2>1, SameAsked DEF PrintedAll, Told
  <2> QED
    BY <1>1, <1>4, <2>1, <2>2 DEF NothingDone
<1>5. CASE /\ CanPrint /\ pc' = "constraints" /\ at' = 1 /\ Known(Options["cfg"])
           /\ results' = [results EXCEPT !.printed = Append(@, functions[Options["cfg"]])]
  <2> DEFINE f == functions[Options["cfg"]]
  <2>1. f \in Place
    BY <1>5, UnitsHavePlaces DEF Known
  <2>2. results' = [results EXCEPT !.printed = Append(@, f)]
    BY <1>5
  <2> HIDE DEF f
  <2>3. /\ results' \in Outcome /\ Remembers
        /\ results'.printed = Append(results.printed, f) /\ results'.rules = results.rules
        /\ results'.checked = results.checked /\ results'.told = results.told
    BY <2>1, <2>2, PrintedFacts
  <2>4. results'.printed = <<f>>
    BY <2>3 DEF NothingDone
  <2>5. Options' = Options /\ functions' = functions /\ CanPrint'
    BY <1>1, <1>5, SameAsked
  <2>6. PrintedAll'
    BY <2>4, <2>5 DEF PrintedAll, f
  <2> QED
    BY <1>1, <1>5, <2>3, <2>6 DEF NothingDone
<1>6. \/ pc' = "idle" /\ exit' # "0" /\ results' = results
      \/ pc' = "looping" /\ results' = results
      \/ ~Given("cfg") /\ pc' = "constraints" /\ at' = 1 /\ results' = results
      \/ ~CanPrint /\ pc' = "constraints" /\ at' = 1 /\ Complain("filename", 1)
      \/ /\ CanPrint /\ pc' = "constraints" /\ at' = 1 /\ Known(Options["cfg"])
         /\ results' = [results EXCEPT !.printed = Append(@, functions[Options["cfg"]])]
  <2> HIDE DEF Complain
  <2>1. CASE /\ Given("cfg") /\ ~NoProgram /\ Known(Options["cfg"])
             /\ PrintKnown(functions[Options["cfg"]])
    BY <2>1 DEF PrintKnown, CanPrint, Exit, GoTo
  <2>2. CASE ~Given("cfg") /\ GoTo("constraints") /\ UNCHANGED <<exit, results>>
    BY <2>2 DEF GoTo
  <2>3. CASE (Exit("undefined") \/ Exit("1")) /\ UNCHANGED results
    BY <2>3 DEF Exit
  <2> QED
    BY <2>1, <2>2, <2>3 DEF PrintCfg
<1> QED
  BY <1>2, <1>3, <1>4, <1>5, <1>6

(* The constraints that can be checked keep their order when one is added. *)
LEMMA OneMoreInOrder ==
  ASSUME NEW s \in Seq(Pairs), NEW k \in Nat, k >= 1, InTheirOrder(s, k - 1), Checkable(k),
         NEW pair \in Pairs, pair = <<functions[Wanted[k][1]], functions[Wanted[k][2]]>>
  PROVE  InTheirOrder(Append(s, pair), k)
<1>1. PICK of \in [DOMAIN s -> 1 .. k - 1] :
        /\ \A j, l \in DOMAIN s : j < l => of[j] < of[l]
        /\ {of[l] : l \in DOMAIN s} = {m \in 1 .. k - 1 : Checkable(m)}
        /\ \A l \in DOMAIN s :
             s[l] = <<functions[Wanted[of[l]][1]], functions[Wanted[of[l]][2]]>>
  BY DEF InTheirOrder
<1>2. PICK c : c = Len(s)
  OBVIOUS
<1>3. PICK more : more = Append(s, pair)
  OBVIOUS
<1>4. /\ c \in Nat /\ DOMAIN s = 1 .. c /\ DOMAIN more = 1 .. c + 1 /\ more[c + 1] = pair
      /\ \A l \in 1 .. c : more[l] = s[l]
  BY <1>2, <1>3
<1> DEFINE ofMore == [l \in 1 .. c + 1 |-> IF l <= c THEN of[l] ELSE k]
<1>5. /\ ofMore \in [1 .. c + 1 -> 1 .. k] /\ ofMore[c + 1] = k
      /\ \A l \in 1 .. c : ofMore[l] = of[l]
  BY <1>1, <1>4
<1> HIDE DEF ofMore
<1>6. \A l \in 1 .. c + 1 : l \in 1 .. c \/ l = c + 1
  BY <1>4
<1>7. \A j, l \in 1 .. c + 1 : j < l => ofMore[j] < ofMore[l]
  <2> TAKE j, l \in 1 .. c + 1
  <2> HAVE j < l
  <2>1. j \in 1 .. c
    BY <1>4
  <2>2. CASE l \in 1 .. c
    BY <1>1, <1>4, <1>5, <2>1, <2>2
  <2>3. CASE l = c + 1
    BY <1>1, <1>4, <1>5, <2>1, <2>3
  <2> QED
    BY <1>6, <2>2, <2>3
<1>8. {ofMore[l] : l \in 1 .. c + 1} = {m \in 1 .. k : Checkable(m)}
  <2>1. ASSUME NEW l \in 1 .. c + 1 PROVE ofMore[l] \in {m \in 1 .. k : Checkable(m)}
    <3>1. CASE l \in 1 .. c
      <4>1. of[l] \in {m \in 1 .. k - 1 : Checkable(m)}
        BY <1>1, <1>4, <3>1
      <4> QED
        BY <1>5, <3>1, <4>1
    <3>2. CASE l = c + 1
      BY <1>5, <3>2
    <3> QED
      BY <1>6, <3>1, <3>2
  <2>2. ASSUME NEW m \in 1 .. k, Checkable(m) PROVE \E l \in 1 .. c + 1 : m = ofMore[l]
    <3>1. CASE m = k
      <4>1. c + 1 \in 1 .. c + 1
        BY <1>4
      <4> QED
        BY <1>5, <3>1, <4>1
    <3>2. CASE m # k
      <4>1. m \in {n \in 1 .. k - 1 : Checkable(n)}
        BY <2>2, <3>2
      <4>2. m \in {of[l] : l \in DOMAIN s}
        BY <1>1, <4>1
      <4>3. PICK l \in 1 .. c : m = of[l]
        BY <1>4, <4>2
      <4>4. l \in 1 .. c + 1 /\ m = ofMore[l]
        BY <1>4, <1>5, <4>3
      <4> QED
        BY <4>4
    <3> QED
      BY <3>1, <3>2
  <2> QED
    BY <2>1, <2>2
<1>9. \A l \in 1 .. c + 1 :
        more[l] = <<functions[Wanted[ofMore[l]][1]], functions[Wanted[ofMore[l]][2]]>>
  <2> TAKE l \in 1 .. c + 1
  <2>1. CASE l \in 1 .. c
    BY <1>1, <1>4, <1>5, <2>1
  <2>2. CASE l = c + 1
    BY <1>4, <1>5, <2>2
  <2> QED
    BY <1>6, <2>1, <2>2
<1>10. InTheirOrder(more, k)
  <2>1. DOMAIN more = 1 .. c + 1
    BY <1>4
  <2>2. ofMore \in [DOMAIN more -> 1 .. k]
    BY <1>5, <2>1
  <2>3. /\ \A j, l \in DOMAIN more : j < l => ofMore[j] < ofMore[l]
        /\ {ofMore[l] : l \in DOMAIN more} = {m \in 1 .. k : Checkable(m)}
        /\ \A l \in DOMAIN more :
             more[l] = <<functions[Wanted[ofMore[l]][1]], functions[Wanted[ofMore[l]][2]]>>
    BY <1>7, <1>8, <1>9, <2>1
  <2> QED
    BY <2>2, <2>3 DEF InTheirOrder
<1> QED
  BY <1>3, <1>10

LEMMA NoMoreInOrder ==
  ASSUME NEW s, NEW k \in Nat, k >= 1, InTheirOrder(s, k - 1), ~Checkable(k)
  PROVE  InTheirOrder(s, k)
<1>1. PICK of \in [DOMAIN s -> 1 .. k - 1] :
        /\ \A j, l \in DOMAIN s : j < l => of[j] < of[l]
        /\ {of[l] : l \in DOMAIN s} = {m \in 1 .. k - 1 : Checkable(m)}
        /\ \A l \in DOMAIN s :
             s[l] = <<functions[Wanted[of[l]][1]], functions[Wanted[of[l]][2]]>>
  BY DEF InTheirOrder
<1>2. of \in [DOMAIN s -> 1 .. k]
  BY <1>1
<1>3. {m \in 1 .. k - 1 : Checkable(m)} = {m \in 1 .. k : Checkable(m)}
  OBVIOUS
<1> QED
  BY <1>1, <1>2, <1>3 DEF InTheirOrder

LEMMA NoneInOrder == InTheirOrder(<<>>, 0)
<1>1. DOMAIN <<>> = {} /\ 1 .. 0 = {}
  OBVIOUS
<1>2. PICK of : of = [k \in {} |-> k]
  OBVIOUS
<1>3. of \in [{} -> {}]
  BY <1>2
<1> QED
  BY <1>1, <1>3 DEF InTheirOrder

-----------------------------------------------------------------------------
LEMMA AddFacts ==
  ASSUME DriverInv, ProgramInv, results \in Outcome, AddConstraint, AddedTo(at - 1)
  PROVE  /\ UNCHANGED <<src, cmd, units, functions>> /\ pc = "constraints"
         /\ results' \in Outcome /\ Remembers
         /\ results'.printed = results.printed
         /\ results'.checked = results.checked /\ results'.told = results.told
         /\ \/ pc' = "idle" /\ exit' # "0"
            \/ pc' = "constraints" /\ AddedTo(at - 1)'
            \/ pc' = "analyze" /\ AddedTo(Len(Wanted))'
            \/ /\ pc' = "report" /\ at' = 1 /\ AddedTo(Len(Wanted))'
               /\ results' = results /\ ~Given("constraint")
<1>1. UNCHANGED <<src, cmd, units, functions>> /\ pc = "constraints"
  BY DEF AddConstraint, disk, linked
<1>2. at \in Nat /\ at >= 1 /\ Len(Wanted) \in Nat
  BY AtCounts, SomeWanted DEF DriverInv, Shape
<1>3. CASE pc' = "idle" /\ exit' # "0" /\ results' = results
  BY <1>1, <1>3 DEF Remembers
<1>4. CASE ~Given("constraint") /\ pc' = "report" /\ at' = 1 /\ results' = results
  <2>1. Len(Wanted) = 0 /\ at - 1 = 0
    <3>1. Wanted = <<>>
      BY <1>4 DEF Wanted
    <3>2. Len(Wanted) = 0
      BY <3>1
    <3> QED
      BY <1>1, <1>2, <3>2 DEF ProgramInv, Position
  <2>2. Wanted' = Wanted /\ Remembers
    BY <1>1, <1>4, SameAsked DEF Remembers
  <2>3. PICK k : k = 0
    OBVIOUS
  <2>4. AddedTo(k)'
    BY <1>1, <1>4, <2>1, <2>2, <2>3, SameDone
  <2>5. AddedTo(Len(Wanted))'
    BY <2>1, <2>2, <2>3, <2>4
  <2> QED
    BY <1>1, <1>4, <2>2, <2>5
<1>5. CASE /\ Given("constraint")
           /\ IF Addable(Wanted[at]) THEN AddRule(Wanted[at]) ELSE Complain("constraint", at)
           /\ \/ at < Len(Wanted) /\ pc' = "constraints" /\ at' = at + 1
              \/ ~(at < Len(Wanted)) /\ pc' = "analyze"
  <2>1. PICK a : a = at
    OBVIOUS
  <2>2. a \in Nat /\ a >= 1 /\ a <= Len(Wanted)
    BY <1>1, <1>2, <1>5, <2>1, SomeWanted DEF DriverInv, Shape, ProgramInv, Position
  <2>3. /\ InTheirOrder(results.rules, a - 1)
        /\ \A n \in 1 .. a - 1 : Checkable(n) \/ Told("constraint", n)
    BY <2>1 DEF AddedTo
  <2>4. /\ results' \in Outcome /\ Remembers
        /\ results'.printed = results.printed
        /\ results'.checked = results.checked /\ results'.told = results.told
        /\ Checkable(a) \/ <<"constraint", a>> \in results'.complaints
        /\ \E s \in Seq(Pairs) : results'.rules = s /\ InTheirOrder(s, a)
    <3>1. results.rules \in Seq(Pairs)
      BY DEF Outcome
    <3>2. CASE Addable(Wanted[a])
      <4> DEFINE pair == <<functions[Wanted[a][1]], functions[Wanted[a][2]]>>
      <4>1. PICK c : c = Wanted[a]
        OBVIOUS
      <4>2. Addable(c) /\ AddRule(c) /\ pair = <<functions[c[1]], functions[c[2]]>>
        BY <1>5, <2>1, <3>2, <4>1
      <4>3. PICK p : p = pair
        OBVIOUS
      <4>4. /\ results' \in Outcome /\ Remembers /\ p \in Pairs
            /\ results'.rules = Append(results.rules, p) /\ results'.printed = results.printed
            /\ results'.checked = results.checked /\ results'.told = results.told
        <5> HIDE DEF pair
        <5>1. p = <<functions[c[1]], functions[c[2]]>>
          BY <4>2, <4>3
        <5> QED
          BY <4>2, <5>1, AddRuleFacts
      <4>5. Checkable(a)
        BY <3>2, CheckableKnown
      <4>6. InTheirOrder(Append(results.rules, p), a) /\ Append(results.rules, p) \in Seq(Pairs)
        <5>1. p = <<functions[Wanted[a][1]], functions[Wanted[a][2]]>>
          BY <4>3
        <5> HIDE DEF pair
        <5>2. Append(results.rules, p) \in Seq(Pairs)
          BY <3>1, <4>4
        <5>3. PICK s : s = results.rules
          OBVIOUS
        <5>4. InTheirOrder(Append(s, p), a)
          BY <2>2, <2>3, <3>1, <4>4, <4>5, <5>1, <5>3, OneMoreInOrder
        <5> QED
          BY <5>2, <5>3, <5>4
      <4> HIDE DEF pair
      <4> QED
        BY <4>4, <4>5, <4>6
    <3>3. CASE ~Addable(Wanted[a])
      <4>1. PICK what : what = "constraint"
        OBVIOUS
      <4>2. Complain(what, a) /\ what \in Causes
        BY <1>5, <2>1, <3>3, <4>1 DEF Causes
      <4>3. /\ results' \in Outcome /\ Remembers /\ <<what, a>> \in results'.complaints
            /\ results'.printed = results.printed /\ results'.rules = results.rules
            /\ results'.checked = results.checked /\ results'.told = results.told
        BY <2>2, <4>2, ComplainFacts
      <4>4. ~Checkable(a)
        BY <3>3, CheckableKnown
      <4>5. InTheirOrder(results.rules, a)
        <5>1. PICK s : s = results.rules
          OBVIOUS
        <5>2. InTheirOrder(s, a)
          BY <2>2, <2>3, <4>4, <5>1, NoMoreInOrder
        <5> QED
          BY <5>1, <5>2
      <4> QED
        BY <3>1, <4>1, <4>3, <4>5
    <3> QED
      BY <3>2, <3>3
  <2>5. PICK s \in Seq(Pairs) : results'.rules = s /\ InTheirOrder(s, a)
    BY <2>4
  <2>6. /\ Wanted' = Wanted /\ functions' = functions
        /\ \A n : Checkable(n)' = Checkable(n)
    BY <1>1, SameAsked
  <2>7. AddedTo(a)'
    <3>1. InTheirOrder(s, a)'
      BY <2>5, <2>6 DEF InTheirOrder
    <3>2. InTheirOrder(results.rules, a)'
      BY <2>5, <3>1 DEF InTheirOrder
    <3>3. ASSUME NEW n \in 1 .. a PROVE Checkable(n)' \/ Told("constraint", n)'
      <4>1. CASE n = a
        BY <2>4, <2>6, <4>1 DEF Told
      <4>2. CASE n # a
        <5>1. n \in 1 .. a - 1
          BY <2>2, <4>2
        <5> QED
          BY <2>3, <2>4, <2>6, <5>1 DEF Told, Remembers
      <4> QED
        BY <4>1, <4>2
    <3> QED
      BY <3>2, <3>3 DEF AddedTo
  <2>8. CASE at < Len(Wanted) /\ pc' = "constraints" /\ at' = at + 1
    <3>1. at' - 1 = a
      BY <2>1, <2>2, <2>8
    <3>2. AddedTo(at - 1)'
      BY <2>7, <3>1
    <3> QED
      BY <1>1, <2>4, <2>8, <3>2
  <2>9. CASE ~(at < Len(Wanted)) /\ pc' = "analyze"
    <3>1. Len(Wanted') = a
      BY <1>2, <2>1, <2>2, <2>6, <2>9
    <3>2. AddedTo(Len(Wanted))'
      BY <2>7, <3>1
    <3> QED
      BY <1>1, <2>4, <2>9, <3>2
  <2> QED
    BY <1>5, <2>8, <2>9
<1> QED
  BY <1>3, <1>4, <1>5 DEF AddConstraint, Exit, GoTo, Step

LEMMA RunRuleFacts ==
  ASSUME results \in Outcome, RunRule, RunSoFar
  PROVE  /\ UNCHANGED <<src, cmd, units, functions>> /\ pc = "analyze"
         /\ results' \in Outcome /\ Remembers
         /\ results'.printed = results.printed
         /\ results'.rules = results.rules /\ results'.told = results.told
         /\ \/ pc' = "looping"
            \/ pc' = "analyze" /\ RunSoFar'
            \/ pc' = "report" /\ at' = 1 /\ results'.checked = results'.rules
<1>1. UNCHANGED <<src, cmd, units, functions>> /\ pc = "analyze"
  BY DEF RunRule, disk, linked
<1>2. PICK done : done = Len(results.checked)
  OBVIOUS
<1>3. /\ results.checked \in Seq(Pairs) /\ results.rules \in Seq(Pairs)
      /\ done \in Nat /\ Len(results.rules) \in Nat
      /\ done <= Len(results.rules)
      /\ \A n \in 1 .. done : results.checked[n] = results.rules[n]
  BY <1>2 DEF Outcome, RunSoFar
<1>4. \/ pc' = "looping" /\ results' = results
      \/ done >= Len(results.rules) /\ pc' = "report" /\ at' = 1 /\ results' = results
      \/ /\ done < Len(results.rules) /\ pc' = "analyze"
         /\ results' = [results EXCEPT !.checked = Append(@, results.rules[done + 1])]
  BY <1>1, <1>2 DEF RunRule, GoTo
<1>5. CASE pc' = "looping" /\ results' = results
  BY <1>1, <1>5 DEF Remembers
<1>6. CASE done >= Len(results.rules) /\ pc' = "report" /\ at' = 1 /\ results' = results
  <2>1. Len(results.checked) = Len(results.rules)
    BY <1>2, <1>3, <1>6
  <2>2. results.checked = results.rules
    BY <1>2, <1>3, <2>1
  <2> QED
    BY <1>1, <1>6, <2>2 DEF Remembers
<1>7. CASE /\ done < Len(results.rules) /\ pc' = "analyze"
           /\ results' = [results EXCEPT !.checked = Append(@, results.rules[done + 1])]
  <2>1. PICK p : p = results.rules[done + 1]
    OBVIOUS
  <2>2. p \in Pairs /\ done + 1 \in 1 .. Len(results.rules)
    <3>1. done + 1 \in 1 .. Len(results.rules)
      BY <1>3, <1>7
    <3> QED
      BY <1>3, <2>1, <3>1, ElementOfSeq
  <2>3. results' = [results EXCEPT !.checked = Append(@, p)]
    BY <1>7, <2>1
  <2>4. /\ results' \in Outcome /\ Remembers
        /\ results'.checked = Append(results.checked, p) /\ results'.printed = results.printed
        /\ results'.rules = results.rules /\ results'.told = results.told
    BY <2>2, <2>3, CheckedFacts
  <2>5. /\ Len(Append(results.checked, p)) = done + 1
        /\ Append(results.checked, p)[done + 1] = p
        /\ \A n \in 1 .. done : Append(results.checked, p)[n] = results.checked[n]
    BY <1>2, <1>3, <2>2
  <2>6. Len(results'.checked) = done + 1
    BY <2>4, <2>5
  <2>7. ASSUME NEW n \in 1 .. done + 1 PROVE results'.checked[n] = results'.rules[n]
    <3>1. CASE n = done + 1
      BY <2>1, <2>4, <2>5, <3>1
    <3>2. CASE n # done + 1
      <4>1. n \in 1 .. done
        BY <1>3, <3>2
      <4> QED
        BY <1>3, <2>4, <2>5, <4>1
    <3> QED
      BY <3>1, <3>2
  <2>8. RunSoFar'
    BY <1>3, <1>7, <2>4, <2>6, <2>7 DEF RunSoFar
  <2> QED
    BY <1>1, <1>7, <2>4, <2>8
<1> QED
  BY <1>4, <1>5, <1>6, <1>7

(* The functions of one more file are put behind those of the files before.*)
LEMMA OneMoreTold ==
  ASSUME NEW told \in Seq(Place), NEW a \in Nat, a >= 1,
         NEW N \in Nat,
         AreOf(told, a - 1), Ordered(told), N = Len(Definitions(a)),
         NEW new, new = [k \in 1 .. N |-> <<a, k>>]
  PROVE  told \o new \in Seq(Place) /\ AreOf(told \o new, a) /\ Ordered(told \o new)
<1> DEFINE all == told \o new
           c == Len(told)
<1>1. new \in Seq(Place) /\ Len(new) = N
  <2>1. new \in [1 .. N -> Place]
    BY DEF Place
  <2> QED
    BY <2>1
<1>2. c \in Nat /\ DOMAIN told = 1 .. c
  OBVIOUS
<1>3. /\ all \in Seq(Place) /\ DOMAIN all = 1 .. c + N
      /\ \A n \in 1 .. c : all[n] = told[n]
      /\ \A k \in 1 .. N : all[c + k] = <<a, k>>
  <2>1. /\ all \in Seq(Place) /\ Len(all) = c + N
        /\ \A n \in 1 .. c + N : all[n] = IF n <= c THEN told[n] ELSE new[n - c]
    BY <1>1, ConcatProperties
  <2>2. DOMAIN all = 1 .. c + N
    BY <2>1
  <2> HIDE DEF all
  <2>3. ASSUME NEW k \in 1 .. N PROVE all[c + k] = <<a, k>>
    <3>1. c + k \in 1 .. c + N /\ ~(c + k <= c) /\ (c + k) - c = k
      BY <1>2
    <3> QED
      BY <2>1, <3>1
  <2>4. ASSUME NEW n \in 1 .. c PROVE all[n] = told[n]
    BY <1>2, <2>1
  <2> QED
    BY <2>1, <2>2, <2>3, <2>4
<1>4. ASSUME NEW n \in 1 .. c + N
      PROVE  n \in 1 .. c \/ \E k \in 1 .. N : n = c + k
  <2>1. n \in 1 .. c \/ n - c \in 1 .. N
    BY <1>2
  <2>2. n = c + (n - c)
    BY <1>2
  <2> QED
    BY <2>1, <2>2
<1>5. ASSUME NEW f
      PROVE  f \in {told[n] : n \in DOMAIN told} <=> \E u \in 1 .. a - 1 : f \in InUnit(u)
  BY DEF AreOf
<1>6. {all[n] : n \in DOMAIN all} = UNION {InUnit(u) : u \in 1 .. a}
  <2>1. ASSUME NEW n \in 1 .. c + N
        PROVE  all[n] \in UNION {InUnit(u) : u \in 1 .. a}
    <3>1. CASE n \in 1 .. c
      <4>1. all[n] \in {told[m] : m \in DOMAIN told}
        BY <1>2, <1>3, <3>1
      <4>2. PICK u \in 1 .. a - 1 : all[n] \in InUnit(u)
        BY <1>5, <4>1
      <4>3. u \in 1 .. a
        OBVIOUS
      <4> QED
        BY <4>2, <4>3
    <3>2. CASE \E k \in 1 .. N : n = c + k
      <4>1. PICK k \in 1 .. N : n = c + k
        BY <3>2
      <4>2. all[n] = <<a, k>> /\ a \in 1 .. a
        BY <1>3, <4>1
      <4>3. all[n] \in InUnit(a)
        BY <4>1, <4>2 DEF InUnit
      <4> HIDE DEF all
      <4> QED
        BY <4>2, <4>3
    <3> QED
      BY <1>4, <3>1, <3>2
  <2>2. ASSUME NEW u \in 1 .. a, NEW f \in InUnit(u)
        PROVE  \E n \in 1 .. c + N : f = all[n]
    <3>1. CASE u = a
      <4>1. PICK k \in 1 .. N : f = <<a, k>>
        BY <2>2, <3>1 DEF InUnit
      <4>2. c + k \in 1 .. c + N /\ all[c + k] = f
        BY <1>2, <1>3, <4>1
      <4> HIDE DEF all
      <4> QED
        BY <4>2
    <3>2. CASE u # a
      <4>1. u \in 1 .. a - 1
        BY <3>2
      <4>2. f \in {told[m] : m \in DOMAIN told}
        BY <1>5, <4>1
      <4>3. PICK m \in 1 .. c : f = told[m]
        BY <1>2, <4>2
      <4>4. m \in 1 .. c + N
        BY <1>2
      <4> HIDE DEF all
      <4> QED
        BY <1>3, <4>3, <4>4
    <3> QED
      BY <3>1, <3>2
  <2>3. DOMAIN all = 1 .. c + N
    BY <1>3
  <2> HIDE DEF all
  <2>4. ASSUME NEW f
        PROVE  f \in UNION {InUnit(u) : u \in 1 .. a} <=> \E n \in 1 .. c + N : f = all[n]
    BY <2>1, <2>2
  <2> QED
    BY <2>3, <2>4
<1>7. Ordered(all)
  <2> SUFFICES ASSUME NEW m \in 1 .. c + N, NEW n \in 1 .. c + N, m < n
               PROVE  Before(all[m], all[n])
    BY <1>3 DEF Ordered
  <2>1. ASSUME NEW l \in 1 .. c PROVE told[l][1] < a
    <3>1. told[l] \in {told[x] : x \in DOMAIN told}
      BY <1>2
    <3>2. PICK u \in 1 .. a - 1 : told[l] \in InUnit(u)
      BY <1>5, <3>1
    <3>3. told[l][1] = u
      BY <3>2 DEF InUnit
    <3> QED
      BY <3>3
  <2>2. CASE n \in 1 .. c
    <3>1. m \in 1 .. c
      BY <1>2, <2>2
    <3>2. Before(told[m], told[n])
      BY <1>2, <2>2, <3>1 DEF Ordered
    <3> HIDE DEF all
    <3> QED
      BY <1>3, <2>2, <3>1, <3>2
  <2>3. CASE \E k \in 1 .. N : n = c + k
    <3>1. PICK k \in 1 .. N : n = c + k
      BY <2>3
    <3>2. all[n] = <<a, k>>
      BY <1>3, <3>1
    <3>3. CASE m \in 1 .. c
      <4>1. all[m][1] < a
        BY <1>3, <2>1, <3>3
      <4> HIDE DEF all
      <4> QED
        BY <3>2, <4>1 DEF Before
    <3>4. CASE \E j \in 1 .. N : m = c + j
      <4>1. PICK j \in 1 .. N : m = c + j
        BY <3>4
      <4>2. all[m] = <<a, j>> /\ j < k
        BY <1>2, <1>3, <3>1, <4>1
      <4> HIDE DEF all
      <4> QED
        BY <3>2, <4>2 DEF Before
    <3> QED
      BY <1>4, <3>3, <3>4
  <2> QED
    BY <1>4, <2>2, <2>3
<1> QED
  BY <1>3, <1>6, <1>7 DEF AreOf

(* The functions of one more file are told of.                             *)
LEMMA ReportFacts ==
  ASSUME DriverInv, ProgramInv, results \in Outcome, ToldTo(at - 1), WriteReport,
         Given("input-file") => Len(units) = Len(Sources)
  PROVE  /\ UNCHANGED <<src, cmd, units, functions, runs>> /\ pc = "report"
         /\ results' \in Outcome /\ Remembers
         /\ results'.printed = results.printed /\ results'.rules = results.rules
         /\ results'.checked = results.checked
         /\ \/ pc' = "idle" /\ exit' # "0"
            \/ pc' = "idle" /\ ~Given("output-dir")
            \/ /\ pc' = "idle"
               /\ {results'.told[n] : n \in DOMAIN results'.told} =
                    UNION {InUnit(u) : u \in DOMAIN units}
               /\ Ordered(results'.told)
            \/ pc' = "report" /\ ToldTo(at - 1)'
<1>1. UNCHANGED <<src, cmd, units, functions, runs>> /\ pc = "report"
  BY DEF WriteReport, disk, linked
<1>2. \/ ~Given("output-dir") /\ pc' = "idle" /\ results' = results
      \/ pc' = "idle" /\ exit' # "0" /\ results' = results
      \/ /\ Given("output-dir") /\ Given("input-file")
         /\ results' = [results EXCEPT !.told = @ \o [k \in DOMAIN Definitions(at) |-> <<at, k>>]]
         /\ \/ at < Len(Sources) /\ at' = at + 1 /\ pc' = "report"
            \/ ~(at < Len(Sources)) /\ pc' = "idle"
  BY <1>1 DEF WriteReport, Exit, NoProgram
<1>3. CASE pc' = "idle" /\ (exit' # "0" \/ ~Given("output-dir")) /\ results' = results
  BY <1>1, <1>3 DEF Remembers
<1>4. CASE /\ Given("output-dir") /\ Given("input-file")
           /\ results' = [results EXCEPT !.told = @ \o [k \in DOMAIN Definitions(at) |-> <<at, k>>]]
           /\ \/ at < Len(Sources) /\ at' = at + 1 /\ pc' = "report"
              \/ ~(at < Len(Sources)) /\ pc' = "idle"
  <2>1. Len(Sources) \in Nat /\ at \in 1 .. Len(Sources)
    BY <1>1, <1>4, SomeSource DEF DriverInv, Shape, ProgramInv, Position
  <2>2. DOMAIN units = 1 .. Len(Sources)
    BY <1>1, <1>4, LenProperties DEF ProgramInv, Values
  <2>3. Len(Definitions(at)) \in Nat /\ DOMAIN Definitions(at) = 1 .. Len(Definitions(at))
    BY <2>1, <2>2, UnitsHavePlaces
  <2>4. PICK a, N : a = at /\ N = Len(Definitions(a))
    OBVIOUS
  <2>5. PICK new : new = [k \in 1 .. N |-> <<a, k>>]
    OBVIOUS
  <2>6. PICK more : more = results.told \o new
    OBVIOUS
  <2>7. results' = [results EXCEPT !.told = more]
    BY <1>4, <2>3, <2>4, <2>5, <2>6
  <2>8. more \in Seq(Place) /\ AreOf(more, a) /\ Ordered(more)
    <3>1. results.told \in Seq(Place) /\ a \in Nat /\ a >= 1 /\ N \in Nat
      BY <2>1, <2>3, <2>4 DEF Outcome
    <3>2. AreOf(results.told, a - 1) /\ Ordered(results.told)
      BY <2>4 DEF ToldTo
    <3>3. PICK told : told = results.told
      OBVIOUS
    <3>4. told \o new \in Seq(Place) /\ AreOf(told \o new, a) /\ Ordered(told \o new)
      BY <2>4, <2>5, <3>1, <3>2, <3>3, OneMoreTold
    <3> QED
      BY <2>6, <3>3, <3>4
  <2>9. /\ results' \in Outcome /\ Remembers /\ results'.told = more
        /\ results'.printed = results.printed /\ results'.rules = results.rules
        /\ results'.checked = results.checked
    BY <2>7, <2>8 DEF Outcome, Remembers
  <2>10. CASE at < Len(Sources) /\ at' = at + 1 /\ pc' = "report"
    <3>1. at' - 1 = a
      BY <2>1, <2>4, <2>10
    <3>2. \A u : InUnit(u)' = InUnit(u)
      BY <1>1, SameAsked
    <3>3. ToldTo(at - 1)'
      BY <2>8, <2>9, <3>1, <3>2 DEF ToldTo, AreOf, Ordered, Before
    <3> QED
      BY <1>1, <2>9, <2>10, <3>3
  <2>11. CASE ~(at < Len(Sources)) /\ pc' = "idle"
    <3>1. DOMAIN units = 1 .. a
      BY <2>1, <2>2, <2>4, <2>11
    <3>2. {more[n] : n \in DOMAIN more} = UNION {InUnit(u) : u \in DOMAIN units}
      BY <2>8, <3>1 DEF AreOf
    <3> QED
      BY <1>1, <2>8, <2>9, <2>11, <3>2
  <2> QED
    BY <1>4, <2>10, <2>11
<1> QED
  BY <1>2, <1>3, <1>4

-----------------------------------------------------------------------------
(* The results keep their form, and each step says what it did to them.    *)
Preparing == {"configure", "version", "compile", "rename", "read", "link"}

LEMMA PreparingFacts ==
  ASSUME DriverInv, ProgramInv, Configure \/ CheckVersion \/ Compile \/ Rename \/ LinkUnit
  PROVE  /\ UNCHANGED <<src, cmd, results>> /\ pc \in Preparing
         /\ \/ pc' \in Preparing \ {"link"}
            \/ pc = "link" /\ pc' = "link"
            \/ pc = "link" /\ pc' = "print" /\ Len(units') = Len(Sources)
            \/ pc = "configure" /\ pc' = "print" /\ ~Given("input-file")
            \/ pc' = "idle" /\ (exit' # "0" \/ Given("help") \/ DOMAIN Options = {})
         /\ pc' \in {"compile", "rename", "read"} =>
              at' = 1 \/ (pc \in {"compile", "rename"} /\ at' = at /\ units' = units)
         /\ pc = "link" => units' = units
<1> USE DEF Preparing, Exit, GoTo, Step, disk, linked
<1>1. CASE Configure
  BY <1>1 DEF Configure
<1>2. CASE CheckVersion
  BY <1>2 DEF CheckVersion
<1>3. CASE Compile
  BY <1>3 DEF Compile
<1>4. CASE Rename
  BY <1>4 DEF Rename
<1>5. CASE LinkUnit
  <2>1. pc = "link" /\ units' = units
    BY <1>5 DEF LinkUnit
  <2>2. Len(units) = Len(Sources)
    BY <2>1 DEF ProgramInv, Progress
  <2> QED
    BY <1>5, <2>1, <2>2 DEF LinkUnit
<1> QED
  BY <1>1, <1>2, <1>3, <1>4, <1>5

AllInv == results \in Outcome /\ ReadInv /\ ResultsInv

LEMMA PreparingResults ==
  ASSUME DriverInv, ProgramInv, AllInv,
         Configure \/ CheckVersion \/ Compile \/ Rename \/ LinkUnit
  PROVE  AllInv'
<1>1. /\ UNCHANGED <<src, cmd, results>> /\ pc \in Preparing
      /\ \/ pc' \in Preparing \ {"link"}
         \/ pc = "link" /\ pc' = "link"
         \/ pc = "link" /\ pc' = "print" /\ Len(units') = Len(Sources)
         \/ pc = "configure" /\ pc' = "print" /\ ~Given("input-file")
         \/ pc' = "idle" /\ (exit' # "0" \/ Given("help") \/ DOMAIN Options = {})
      /\ pc' \in {"compile", "rename", "read"} =>
           at' = 1 \/ (pc \in {"compile", "rename"} /\ at' = at /\ units' = units)
      /\ pc = "link" => units' = units
  BY PreparingFacts
<1>2. Options' = Options /\ Sources' = Sources /\ \A o : (Given(o))' = Given(o)
  BY <1>1 DEF Options, Sources, Given
<1>3. Remembers
  BY <1>1 DEF Remembers
<1>4. ReadInv'
  <2>1. CASE pc' \in {"compile", "rename", "read"}
    <3>1. CASE at' = 1
      BY <2>1, <3>1 DEF ReadInv
    <3>2. CASE pc \in {"compile", "rename"} /\ at' = at /\ units' = units
      <4>1. \A u \in 1 .. at - 1 : ReadOrTold(u)
        BY <3>2 DEF AllInv, ReadInv
      <4>2. \A u \in 1 .. at' - 1 : ReadOrTold(u)'
        BY <1>1, <1>3, <3>2, <4>1, SameRead
      <4> QED
        BY <2>1, <4>2 DEF ReadInv
    <3> QED
      BY <1>1, <2>1, <3>1, <3>2
  <2>2. CASE pc = "link" /\ pc' \in {"link", "print"}
    <3>1. \A u \in DOMAIN Sources : ReadOrTold(u)
      BY <2>2 DEF AllInv, ReadInv
    <3>2. \A u \in DOMAIN Sources' : ReadOrTold(u)'
      BY <1>1, <1>2, <1>3, <2>2, <3>1, SameRead
    <3> QED
      BY <2>2, <3>2 DEF ReadInv
  <2>3. CASE pc' = "print" /\ ~Given("input-file")
    <3>1. Sources' = <<>>
      BY <1>2, <2>3 DEF Sources
    <3>2. DOMAIN Sources' = {}
      BY <3>1
    <3> QED
      BY <2>3, <3>2 DEF ReadInv
  <2>4. CASE pc' \in {"idle", "configure", "version"}
    BY <2>4 DEF ReadInv
  <2> QED
    BY <1>1, <2>1, <2>2, <2>3, <2>4 DEF Preparing
<1>5. NothingDone'
  BY <1>1 DEF AllInv, ResultsInv, Preparing, NothingDone
<1>6. DoneOrComplained'
  BY <1>1, <1>2 DEF DoneOrComplained, Preparing
<1>7. ResultsInv'
  BY <1>1, <1>2, <1>5, <1>6 DEF ResultsInv, Preparing
<1> QED
  BY <1>1, <1>4, <1>7 DEF AllInv

LEMMA ReadDumpResults ==
  ASSUME DriverInv, ProgramInv, AllInv, ReadDump
  PROVE  AllInv'
<1>1. /\ UNCHANGED <<src, cmd>> /\ pc = "read" /\ at \in 1 .. Len(Sources)
      /\ results' \in Outcome /\ Remembers
      /\ results'.printed = results.printed /\ results'.rules = results.rules
      /\ results'.checked = results.checked /\ results'.told = results.told
      /\ \A u \in 1 .. Len(Sources) : u # at => units'[u] = units[u]
      /\ \A u : u = at => ReadOrTold(u)'
      /\ \/ pc' = "compile" /\ at' = at + 1
         \/ pc' = "link" /\ at = Len(Sources)
  BY ReadDumpFacts DEF AllInv
<1>2. /\ Sources' = Sources /\ Len(Sources) \in Nat
      /\ DOMAIN Sources = 1 .. Len(Sources)
  BY <1>1, SameCommand, SourcesCounted DEF DriverInv, Shape
<1>3. ASSUME NEW u \in 1 .. at PROVE ReadOrTold(u)'
  <2>1. CASE u = at
    BY <1>1, <2>1
  <2>2. CASE u # at
    <3>1. u \in 1 .. at - 1 /\ u \in 1 .. Len(Sources)
      <4>1. at \in 1 .. Len(Sources) /\ Len(Sources) \in Nat
        BY <1>1, <1>2
      <4> QED
        BY <1>3, <2>2, <4>1
    <3>2. ReadOrTold(u) /\ units'[u] = units[u]
      BY <1>1, <2>2, <3>1 DEF AllInv, ReadInv
    <3> QED
      BY <1>1, <3>2, SameRead
  <2> QED
    BY <2>1, <2>2
<1>4. ReadInv'
  <2>1. CASE pc' = "compile" /\ at' = at + 1
    <3>1. 1 .. at' - 1 = 1 .. at
      BY <1>1, <1>2, <2>1
    <3> QED
      BY <1>3, <2>1, <3>1 DEF ReadInv
  <2>2. CASE pc' = "link" /\ at = Len(Sources)
    <3>1. DOMAIN Sources' = 1 .. at
      BY <1>2, <2>2
    <3> QED
      BY <1>3, <2>2, <3>1 DEF ReadInv
  <2> QED
    BY <1>1, <2>1, <2>2
<1>5. NothingDone'
  BY <1>1 DEF AllInv, ResultsInv, NothingDone
<1>6. DoneOrComplained'
  BY <1>1 DEF DoneOrComplained
<1>7. ResultsInv'
  BY <1>1, <1>5, <1>6 DEF ResultsInv
<1> QED
  BY <1>1, <1>4, <1>7 DEF AllInv

(* After the reading the files stay read.                                  *)
LEMMA StaysRead ==
  ASSUME ReadInv, UNCHANGED <<src, cmd, units>>, Remembers,
         pc \in {"print", "constraints", "analyze", "report"},
         pc' \in {"idle", "looping", "constraints", "analyze", "report"}
  PROVE  ReadInv' /\ \A u \in DOMAIN Sources' : ReadOrTold(u)'
<1>1. Sources' = Sources
  BY SameCommand
<1>2. \A u \in DOMAIN Sources : ReadOrTold(u)
  BY DEF ReadInv
<1>3. \A u \in DOMAIN Sources' : ReadOrTold(u)'
  BY <1>1, <1>2, SameRead
<1> QED
  BY <1>3 DEF ReadInv

LEMMA PrintResults ==
  ASSUME DriverInv, ProgramInv, AllInv, PrintCfg
  PROVE  AllInv'
<1>1. /\ results \in Outcome /\ ReadInv /\ pc = "print" /\ NothingDone
      /\ Given("input-file") => Len(units) = Len(Sources)
  BY DEF AllInv, ResultsInv, PrintCfg
<1>2. /\ UNCHANGED <<src, cmd, units, functions>>
      /\ results' \in Outcome /\ Remembers
      /\ results'.rules = <<>> /\ results'.checked = <<>> /\ results'.told = <<>>
      /\ \/ pc' = "idle" /\ exit' # "0"
         \/ pc' = "looping"
         \/ pc' = "constraints" /\ at' = 1 /\ PrintedAll'
  BY <1>1, PrintFacts
<1>3. ReadInv'
  BY <1>1, <1>2, StaysRead
<1>4. DoneOrComplained'
  BY <1>2 DEF DoneOrComplained
<1>5. pc' = "constraints" => AddedTo(at - 1)'
  <2> SUFFICES ASSUME pc' = "constraints" PROVE AddedTo(at - 1)'
    OBVIOUS
  <2>1. at' - 1 = 0
    BY <1>2
  <2>2. PICK k, s : k = 0 /\ s = <<>>
    OBVIOUS
  <2>3. InTheirOrder(s, k)
    BY <2>2, NoneInOrder
  <2>4. /\ Wanted' = Wanted /\ functions' = functions
        /\ \A n : Checkable(n)' = Checkable(n)
    BY <1>2, SameAsked
  <2>5. InTheirOrder(s, k)'
    BY <2>3, <2>4 DEF InTheirOrder
  <2>6. InTheirOrder(results.rules, k)'
    <3>1. results'.rules = s
      BY <1>2, <2>2
    <3> QED
      BY <2>5, <3>1 DEF InTheirOrder
  <2>7. 1 .. k = {}
    BY <2>2
  <2>8. AddedTo(k)'
    BY <2>6, <2>7 DEF AddedTo
  <2> QED
    BY <2>1, <2>2, <2>8
<1>6. Sources' = Sources /\ (Given("input-file"))' = Given("input-file")
  BY <1>2, SameCommand
<1>7. ResultsInv'
  BY <1>1, <1>2, <1>4, <1>5, <1>6 DEF ResultsInv
<1> QED
  BY <1>2, <1>3, <1>7 DEF AllInv

(* Before the first file nothing has been told.                            *)
LEMMA NothingTold ==
  ASSUME results'.told = <<>>, at' = 1
  PROVE  ToldTo(at - 1)'
<1>1. DOMAIN results'.told = {} /\ 1 .. at' - 1 = {}
  OBVIOUS
<1> QED
  BY <1>1 DEF ToldTo, AreOf, Ordered

LEMMA AddResults ==
  ASSUME DriverInv, ProgramInv, AllInv, AddConstraint
  PROVE  AllInv'
<1>1. /\ results \in Outcome /\ ReadInv /\ pc = "constraints" /\ PrintedAll
      /\ AddedTo(at - 1) /\ results.checked = <<>> /\ results.told = <<>>
      /\ Given("input-file") => Len(units) = Len(Sources)
  BY DEF AllInv, ResultsInv, AddConstraint
<1>2. /\ UNCHANGED <<src, cmd, units, functions>>
      /\ results' \in Outcome /\ Remembers
      /\ results'.printed = results.printed
      /\ results'.checked = results.checked /\ results'.told = results.told
      /\ \/ pc' = "idle" /\ exit' # "0"
         \/ pc' = "constraints" /\ AddedTo(at - 1)'
         \/ pc' = "analyze" /\ AddedTo(Len(Wanted))'
         \/ /\ pc' = "report" /\ at' = 1 /\ AddedTo(Len(Wanted))'
            /\ results' = results /\ ~Given("constraint")
  BY <1>1, AddFacts
<1>3. ReadInv'
  BY <1>1, <1>2, StaysRead
<1>4. DoneOrComplained'
  BY <1>2 DEF DoneOrComplained
<1>5. PrintedAll'
  BY <1>1, <1>2, SameDone
<1>6. pc' = "analyze" => RunSoFar'
  <2>1. Len(results'.checked) = 0 /\ results'.rules \in Seq(Pairs)
    BY <1>1, <1>2 DEF Outcome
  <2>2. Len(results'.rules) \in Nat
    BY <2>1
  <2> QED
    BY <2>1, <2>2 DEF RunSoFar
<1>7. pc' = "report" => results'.checked = results'.rules /\ ToldTo(at - 1)'
  <2> SUFFICES ASSUME pc' = "report"
               PROVE  results'.checked = results'.rules /\ ToldTo(at - 1)'
    OBVIOUS
  <2>1. results' = results /\ at' = 1 /\ ~Given("constraint")
    BY <1>2
  <2>2. results.rules = <<>>
    <3>1. Wanted = <<>>
      BY <2>1 DEF Wanted
    <3>2. Len(Wanted) = 0
      BY <3>1
    <3>3. at - 1 = 0
      BY <1>1, <2>1, <3>2, AtCounts DEF ProgramInv, Position
    <3>4. InTheirOrder(results.rules, 0)
      BY <1>1, <3>3 DEF AddedTo
    <3>5. PICK of \in [DOMAIN results.rules -> 1 .. 0] : TRUE
      BY <3>4 DEF InTheirOrder
    <3>6. DOMAIN results.rules = {}
      BY <3>5
    <3>7. results.rules \in Seq(Pairs)
      BY <1>1 DEF Outcome
    <3>8. Len(results.rules) \in Nat /\ 1 .. Len(results.rules) = {}
      BY <3>6, <3>7, LenProperties
    <3>9. Len(results.rules) = 0
      BY <3>8
    <3> QED
      BY <3>7, <3>9
  <2> QED
    BY <1>1, <2>1, <2>2, NothingTold
<1>8. Sources' = Sources /\ (Given("input-file"))' = Given("input-file")
  BY <1>2, SameCommand
<1>9. ResultsInv'
  BY <1>1, <1>2, <1>4, <1>5, <1>6, <1>7, <1>8 DEF ResultsInv
<1> QED
  BY <1>2, <1>3, <1>9 DEF AllInv

LEMMA RunResults ==
  ASSUME DriverInv, ProgramInv, AllInv, RunRule
  PROVE  AllInv'
<1>1. /\ results \in Outcome /\ ReadInv /\ pc = "analyze" /\ PrintedAll
      /\ AddedTo(Len(Wanted)) /\ RunSoFar /\ results.told = <<>>
      /\ Given("input-file") => Len(units) = Len(Sources)
  BY DEF AllInv, ResultsInv, RunRule
<1>2. /\ UNCHANGED <<src, cmd, units, functions>>
      /\ results' \in Outcome /\ Remembers
      /\ results'.printed = results.printed
      /\ results'.rules = results.rules /\ results'.told = results.told
      /\ \/ pc' = "looping"
         \/ pc' = "analyze" /\ RunSoFar'
         \/ pc' = "report" /\ at' = 1 /\ results'.checked = results'.rules
  BY <1>1, RunRuleFacts
<1>3. ReadInv'
  BY <1>1, <1>2, StaysRead
<1>4. DoneOrComplained'
  BY <1>2 DEF DoneOrComplained
<1>5. PrintedAll'
  BY <1>1, <1>2, SameDone
<1>6. AddedTo(Len(Wanted))'
  <2>1. PICK k : k = Len(Wanted)
    OBVIOUS
  <2>2. AddedTo(k)' /\ Wanted' = Wanted
    BY <1>1, <1>2, <2>1, SameDone, SameAsked
  <2> QED
    BY <2>1, <2>2
<1>7. pc' = "report" => ToldTo(at - 1)'
  BY <1>1, <1>2, NothingTold
<1>8. Sources' = Sources /\ (Given("input-file"))' = Given("input-file")
  BY <1>2, SameCommand
<1>9. ResultsInv'
  BY <1>1, <1>2, <1>4, <1>5, <1>6, <1>7, <1>8 DEF ResultsInv
<1> QED
  BY <1>2, <1>3, <1>9 DEF AllInv

LEMMA ReportResults ==
  ASSUME DriverInv, ProgramInv, AllInv, WriteReport
  PROVE  AllInv'
<1>1. /\ results \in Outcome /\ ReadInv /\ pc = "report" /\ PrintedAll
      /\ AddedTo(Len(Wanted)) /\ results.checked = results.rules /\ ToldTo(at - 1)
      /\ Given("input-file") => Len(units) = Len(Sources)
  BY DEF AllInv, ResultsInv, WriteReport
<1>2. /\ UNCHANGED <<src, cmd, units, functions, runs>>
      /\ results' \in Outcome /\ Remembers
      /\ results'.printed = results.printed /\ results'.rules = results.rules
      /\ results'.checked = results.checked
      /\ \/ pc' = "idle" /\ exit' # "0"
         \/ pc' = "idle" /\ ~Given("output-dir")
         \/ /\ pc' = "idle"
            /\ {results'.told[n] : n \in DOMAIN results'.told} =
                 UNION {InUnit(u) : u \in DOMAIN units}
            /\ Ordered(results'.told)
         \/ pc' = "report" /\ ToldTo(at - 1)'
  BY <1>1, ReportFacts
<1>3. ReadInv' /\ \A u \in DOMAIN Sources' : ReadOrTold(u)'
  BY <1>1, <1>2, StaysRead
<1>4. PrintedAll'
  BY <1>1, <1>2, SameDone
<1>5. AddedTo(Len(Wanted))' /\ Wanted' = Wanted
  <2>1. PICK k : k = Len(Wanted)
    OBVIOUS
  <2>2. AddedTo(k)' /\ Wanted' = Wanted
    BY <1>1, <1>2, <2>1, SameDone, SameAsked
  <2> QED
    BY <2>1, <2>2
<1>6. /\ \A o : (Given(o))' = Given(o)
      /\ \A u : InUnit(u)' = InUnit(u)
      /\ Sources' = Sources
  BY <1>2, SameAsked
<1>7. /\ \A n \in DOMAIN Wanted' : Checkable(n)' \/ Told("constraint", n)'
      /\ InTheirOrder(results.checked, Len(Wanted))'
  <2>1. DOMAIN Wanted = 1 .. Len(Wanted)
    BY SomeWanted, LenProperties DEF DriverInv, Shape
  <2>2. results'.checked = results'.rules
    BY <1>1, <1>2
  <2>3. InTheirOrder(results.rules, Len(Wanted))'
    BY <1>5 DEF AddedTo
  <2>4. InTheirOrder(results.checked, Len(Wanted))'
    BY <2>2, <2>3 DEF InTheirOrder
  <2> QED
    BY <1>5, <2>1, <2>4 DEF AddedTo
<1>8. DoneOrComplained'
  <2> SUFFICES ASSUME pc' = "idle", exit' = "0"
               PROVE  DoneOrComplained'
    BY DEF DoneOrComplained
  <2>1. (Given("output-dir"))' =>
          /\ {results'.told[n] : n \in DOMAIN results'.told} =
               UNION {InUnit(u)' : u \in DOMAIN units'}
          /\ Ordered(results'.told)
    BY <1>2, <1>6
  <2>2. (Given("output-dir"))' =>
          /\ {results'.told[n] : n \in DOMAIN results'.told} =
               (UNION {InUnit(u) : u \in DOMAIN units})'
          /\ \A m, n \in DOMAIN results'.told : m < n =>
               \/ results'.told[m][1] < results'.told[n][1]
               \/ /\ results'.told[m][1] = results'.told[n][1]
                  /\ results'.told[m][2] < results'.told[n][2]
    BY <2>1 DEF Ordered, Before
  <2>3. (Given("cfg"))' =>
          IF CanPrint' THEN results'.printed = << functions'[Options'["cfg"]] >>
                       ELSE Told("filename", 1)'
    BY <1>4 DEF PrintedAll
  <2> QED
    BY <1>3, <1>7, <2>2, <2>3 DEF DoneOrComplained
<1>9. ResultsInv'
  BY <1>1, <1>2, <1>4, <1>5, <1>6, <1>8 DEF ResultsInv
<1> QED
  BY <1>2, <1>3, <1>9 DEF AllInv

LEMMA StutterResults ==
  ASSUME AllInv, UNCHANGED vars
  PROVE  AllInv'
<1>1. UNCHANGED <<src, cmd, pc, at, exit, runs, units, functions, results>>
  BY DEF vars, disk, linked
<1>2. Remembers
  BY <1>1 DEF Remembers
<1>3. /\ Options' = Options /\ Sources' = Sources /\ Wanted' = Wanted
      /\ \A o : (Given(o))' = Given(o)
      /\ \A n : (Checkable(n))' = Checkable(n)
      /\ \A u : InUnit(u)' = InUnit(u)
      /\ CanPrint' = CanPrint
  BY <1>1, SameAsked
<1>4. \A u : ReadOrTold(u) => ReadOrTold(u)'
  BY <1>1, <1>2, SameRead
<1>5. ReadInv'
  BY <1>1, <1>3, <1>4 DEF AllInv, ReadInv
<1>6. DoneOrComplained'
  <2>1. \A what, n : Told(what, n)' <=> Told(what, n)
    BY <1>1 DEF Told
  <2>2. InTheirOrder(results.checked, Len(Wanted)) =>
          InTheirOrder(results.checked, Len(Wanted))'
    BY <1>1, <1>3 DEF InTheirOrder
  <2>3. (UNION {InUnit(u) : u \in DOMAIN units})' = UNION {InUnit(u) : u \in DOMAIN units}
    BY <1>1, <1>3
  <2>4. DoneOrComplained
    BY DEF AllInv, ResultsInv
  <2> QED
    BY <1>1, <1>3, <1>4, <2>1, <2>2, <2>3, <2>4 DEF DoneOrComplained
<1>7. /\ PrintedAll => PrintedAll'
      /\ AddedTo(at - 1) => AddedTo(at - 1)'
      /\ AddedTo(Len(Wanted)) => AddedTo(Len(Wanted))'
      /\ ToldTo(at - 1) => ToldTo(at - 1)'
  <2>1. PICK k, l : k = at - 1 /\ l = Len(Wanted)
    OBVIOUS
  <2>2. /\ PrintedAll => PrintedAll'
        /\ AddedTo(k) => AddedTo(k)'
        /\ AddedTo(l) => AddedTo(l)'
        /\ ToldTo(k) => ToldTo(k)'
    BY <1>1, <1>2, SameDone
  <2>3. k = at' - 1 /\ l = Len(Wanted')
    BY <1>1, <1>3, <2>1
  <2> QED
    BY <2>1, <2>2, <2>3
<1>8. RunSoFar => RunSoFar'
  BY <1>1 DEF RunSoFar
<1>9. NothingDone => NothingDone'
  BY <1>1 DEF NothingDone
<1>10. ResultsInv'
  BY <1>1, <1>3, <1>6, <1>7, <1>8, <1>9 DEF AllInv, ResultsInv
<1> QED
  BY <1>1, <1>5, <1>10 DEF AllInv

(* A run that exits with 0 has built the functions of every file that      *)
(* parses, printed the function it was asked for, checked every constraint *)
(* on functions it has, once and in order, and told of every function of   *)
(* every file once and in order, or has complained (main.cpp:190-269), for *)
(* any number of files, constraints and functions.                         *)
THEOREM AlwaysDoneOrComplained == Spec => []DoneOrComplained
<1>1. Init => AllInv
  <2> SUFFICES ASSUME Init PROVE AllInv
    OBVIOUS
  <2>1. results \in Outcome
    BY NothingYet DEF Init
  <2>2. ReadInv /\ ResultsInv
    BY DEF Init, ReadInv, ResultsInv, DoneOrComplained
  <2> QED
    BY <2>1, <2>2 DEF AllInv
<1>2. DriverInv /\ ProgramInv /\ AllInv /\ [Next]_vars => AllInv'
  <2> SUFFICES ASSUME DriverInv, ProgramInv, AllInv, [Next]_vars PROVE AllInv'
    OBVIOUS
  <2>1. CASE Configure \/ CheckVersion \/ Compile \/ Rename \/ LinkUnit
    BY <2>1, PreparingResults
  <2>2. CASE ReadDump
    BY <2>2, ReadDumpResults
  <2>3. CASE PrintCfg
    BY <2>3, PrintResults
  <2>4. CASE AddConstraint
    BY <2>4, AddResults
  <2>5. CASE RunRule
    BY <2>5, RunResults
  <2>6. CASE WriteReport
    BY <2>6, ReportResults
  <2>7. CASE Kill
    <3>1. pc' = "idle" /\ exit' = "killed" /\ results' = results
      BY <2>7 DEF Kill, Exit
    <3>2. ReadInv' /\ ResultsInv'
      BY <3>1 DEF ReadInv, ResultsInv, DoneOrComplained
    <3> QED
      BY <3>1, <3>2 DEF AllInv
  <2>8. CASE Start
    <3>1. pc' = "configure" /\ results' = NoResults
      BY <2>8 DEF Start, GoTo
    <3>2. results' \in Outcome /\ NothingDone'
      BY <3>1, NothingYet DEF NothingDone
    <3>3. ReadInv' /\ ResultsInv'
      BY <3>1, <3>2 DEF ReadInv, ResultsInv, DoneOrComplained
    <3> QED
      BY <3>2, <3>3 DEF AllInv
  <2>9. CASE UNCHANGED vars
    BY <2>9, StutterResults
  <2> QED
    BY <2>1, <2>2, <2>3, <2>4, <2>5, <2>6, <2>7, <2>8, <2>9 DEF Next, Run, Resting
<1>3. AllInv => DoneOrComplained
  BY DEF AllInv, ResultsInv
<1> QED
  BY <1>1, <1>2, <1>3, DriverInvariant, ProgramInvariant, PTL DEF Spec
=============================================================================
