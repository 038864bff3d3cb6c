--------------------------- MODULE VersionNumbers ---------------------------
(***************************************************************************)
(* VersionNumber, and how ToolBase::GetVersion reads one off what a tool   *)
(* prints.  A version is the sequence of its numbers; of a line only the   *)
(* version it starts with matters, which is empty if it does not match     *)
(* GetVersionExtractionRegex.                                              *)
(***************************************************************************)
EXTENDS Integers, Sequences

Version == Seq(Nat)

(* Set does not clear the digits that are there.                           *)
Set(digits, text) == digits \o text

(* Mutant: only the first field counts.                                    *)
LessMajor(v, w) == v = <<>> \/ v[1] < w[1]

(* std::lexicographical_compare: the first number that differs decides,    *)
(* and a version that ends before is the lesser one.                       *)
Less(v, w) ==
  \/ \E n \in 1 .. Len(w) : /\ Len(v) >= n /\ v[n] < w[n]
                            /\ \A m \in 1 .. n - 1 : v[m] = w[m]
  \/ Len(v) < Len(w) /\ \A m \in 1 .. Len(v) : v[m] = w[m]

(* The first line that matches.  A tool that cannot be started prints      *)
(* nothing, and its exit status is not looked at.                          *)
Extracted(lines) ==
  LET matching == {n \in DOMAIN lines : lines[n] # <<>>}
  IN IF matching = {} THEN <<>>
     ELSE lines[CHOOSE n \in matching : \A m \in matching : n <= m]

(* The digits of the tool's one VersionNumber after a GetVersion that      *)
(* found them at "digits".  Without a match it is left alone and an empty  *)
(* version returned.                                                       *)
GetVersion(digits, lines) ==
  IF Extracted(lines) = <<>> THEN <<>> ELSE Set(digits, Extracted(lines))
=============================================================================
