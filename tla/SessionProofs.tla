---------------------------- MODULE SessionProofs ----------------------------
(***************************************************************************)
(* Proofs that a report is what was asked for, for any command line,       *)
(* configuration file, response file and sources, with dot failing         *)
(* whenever it likes.  In this order:                                      *)
(*   sequences  induction for a set of numbers or of sequences, and what   *)
(*              FlattenSeq does;                                           *)
(*   the page   what one edit makes of a page that lists what has been     *)
(*              printed so far, and what the first edits make of the       *)
(*              template;                                                  *)
(*   words      what the separator has found of a line at each position,   *)
(*              against the words as they are defined;                     *)
(*   options    how the map of options comes about: RefusedForCause,       *)
(*              ResponseActsAsCommandLine and CommandLineWins;             *)
(*   report     what the queued edits will make of the page:               *)
(*              IndexPageWhole and ReportShowsFilesAsked;                  *)
(*   pictures   which picture a panel shows: PicturesAreCurrent.           *)
(***************************************************************************)
EXTENDS Session, SequenceTheorems, FiniteSetTheorems, WellFoundedInduction, TLAPS

-----------------------------------------------------------------------------
(* Induction over numbers and over sequences, for a set of them.           *)
LEMMA AllNumbers ==
  ASSUME NEW T, 0 \in T, \A n \in Nat : n \in T => n + 1 \in T
  PROVE  \A n \in Nat : n \in T
<1> SUFFICES ASSUME NEW k \in Nat, k \notin T PROVE FALSE
  OBVIOUS
<1> DEFINE bad == Nat \ T
<1>1. PICK n \in bad : \A m \in bad : ~(<<m, n>> \in OpToRel(<, Nat))
  <2>1. bad \in SUBSET Nat /\ bad # {}
    OBVIOUS
  <2> HIDE DEF bad
  <2> QED
    BY <2>1, NatLessThanWellFounded, WFMin
<1>2. \A m \in bad : ~(m < n)
  BY <1>1 DEF OpToRel
<1>3. n \in Nat /\ n # 0 /\ n - 1 \in Nat /\ n - 1 \notin bad
  BY <1>2
<1> QED
  BY <1>3

LEMMA AllSequences ==
  ASSUME NEW S, NEW T, <<>> \in T, \A s \in Seq(S) : \A e \in S : s \in T => Append(s, e) \in T
  PROVE  \A s \in Seq(S) : s \in T
<1> DEFINE Sure == {n \in Nat : \A s \in Seq(S) : Len(s) = n => s \in T}
<1>1. 0 \in Sure
  <2>1. ASSUME NEW s \in Seq(S), Len(s) = 0 PROVE s = <<>>
    BY <2>1, EmptySeq
  <2> QED
    BY <2>1
<1>2. ASSUME NEW n \in Nat, n \in Sure PROVE n + 1 \in Sure
  <2> SUFFICES ASSUME NEW s \in Seq(S), Len(s) = n + 1 PROVE s \in T
    OBVIOUS
  <2>1. s # <<>>
    BY <1>2
  <2>2. PICK r \in Seq(S), e \in S : s = Append(r, e)
    BY <2>1, SequenceEmptyOrAppend
  <2>3. Len(r) = n
    BY <1>2, <2>2, LenProperties, AppendProperties
  <2> QED
    BY <1>2, <2>2, <2>3
<1>3. \A n \in Nat : n \in Sure
  <2> HIDE DEF Sure
  <2> QED
    BY <1>1, <1>2, AllNumbers
<1> QED
  BY <1>3, LenProperties

-----------------------------------------------------------------------------
(* FlattenSeq.                                                             *)
Joins(ss, g, k) == \A i \in 1 .. k : g[i] = IF i = 1 THEN ss[i] ELSE g[i - 1] \o ss[i]

LEMMA JoinsThere ==
  ASSUME NEW ss
  PROVE  \A n \in Nat : \E g : Joins(ss, g, n)
<1> DEFINE T == {n \in Nat : \E g : Joins(ss, g, n)}
<1>1. 0 \in T
  BY DEF Joins
<1>2. ASSUME NEW n \in Nat, n \in T PROVE n + 1 \in T
  <2>1. PICK g : Joins(ss, g, n)
    BY <1>2
  <2> DEFINE h == [i \in 1 .. n + 1 |->
                     IF i = n + 1 THEN IF i = 1 THEN ss[i] ELSE g[n] \o ss[i] ELSE g[i]]
  <2>2. ASSUME NEW i \in 1 .. n + 1 PROVE h[i] = IF i = 1 THEN ss[i] ELSE h[i - 1] \o ss[i]
    <3>1. CASE i = n + 1
      <4>1. CASE i = 1
        BY <3>1, <4>1
      <4>2. CASE i # 1
        <5>1. i - 1 \in 1 .. n + 1 /\ i - 1 # n + 1 /\ i - 1 = n
          BY <3>1, <4>2
        <5>2. h[i - 1] = g[n]
          BY <5>1
        <5> QED
          BY <3>1, <4>2, <5>2
      <4> QED
        BY <4>1, <4>2
    <3>2. CASE i # n + 1
      <4>1. i \in 1 .. n /\ h[i] = g[i]
        BY <3>2
      <4>2. CASE i = 1
        BY <2>1, <4>1, <4>2 DEF Joins
      <4>3. CASE i # 1
        <5>1. i - 1 \in 1 .. n + 1 /\ i - 1 # n + 1
          BY <4>1, <4>3
        <5>2. h[i - 1] = g[i - 1]
          BY <5>1
        <5> QED
          BY <2>1, <4>1, <4>3, <5>2 DEF Joins
      <4> QED
        BY <4>2, <4>3
    <3> QED
      BY <3>1, <3>2
  <2> HIDE DEF h
  <2>3. Joins(ss, h, n + 1)
    BY <2>2 DEF Joins
  <2> QED
    BY <2>3
<1> HIDE DEF T
<1>3. \A n \in Nat : n \in T
  BY <1>1, <1>2, AllNumbers
<1> QED
  BY <1>3 DEF T

LEMMA FlattenIs ==
  ASSUME NEW ss, NEW N \in Nat, Len(ss) = N, N # 0, NEW g, Joins(ss, g, N)
  PROVE  SX!FlattenSeq(ss) = g[N]
<1> DEFINE Solves(f) == f = [i \in 1 .. N |-> IF i = 1 THEN ss[i] ELSE f[i - 1] \o ss[i]]
           F == [i \in 1 .. N |-> g[i]]
           C == CHOOSE f : Solves(f)
<1>1. Solves(F)
  <2>1. ASSUME NEW i \in 1 .. N PROVE F[i] = IF i = 1 THEN ss[i] ELSE F[i - 1] \o ss[i]
    <3>1. CASE i = 1
      BY <3>1 DEF Joins
    <3>2. CASE i # 1
      <4>1. i - 1 \in 1 .. N
        BY <3>2
      <4> QED
        BY <3>2, <4>1 DEF Joins
    <3> QED
      BY <3>1, <3>2
  <2> QED
    BY <2>1
<1>2. SX!FlattenSeq(ss) = C[N]
  BY DEF SX!FlattenSeq
<1> HIDE DEF F, Solves
<1>3. Solves(C)
  BY <1>1
<1>4. Joins(ss, C, N)
  <2>1. C = [i \in 1 .. N |-> IF i = 1 THEN ss[i] ELSE C[i - 1] \o ss[i]]
    BY <1>3 DEF Solves
  <2> HIDE DEF C
  <2> QED
    BY <2>1 DEF Joins
<1> HIDE DEF C
<1> DEFINE T == {n \in Nat : n \in 1 .. N => C[n] = g[n]}
<1>5. 0 \in T
  OBVIOUS
<1>6. ASSUME NEW n \in Nat, n \in T PROVE n + 1 \in T
  <2> SUFFICES ASSUME n + 1 \in 1 .. N PROVE C[n + 1] = g[n + 1]
    OBVIOUS
  <2>1. CASE n = 0
    BY <1>4, <2>1 DEF Joins
  <2>2. CASE n # 0
    <3>1. C[n] = g[n] /\ n + 1 # 1 /\ (n + 1) - 1 = n
      BY <1>6, <2>2
    <3>2. C[n + 1] = C[n] \o ss[n + 1] /\ g[n + 1] = g[n] \o ss[n + 1]
      BY <1>4, <3>1 DEF Joins
    <3> QED
      BY <3>1, <3>2
  <2> QED
    BY <2>1, <2>2
<1> HIDE DEF T
<1>7. N \in T
  BY <1>5, <1>6, AllNumbers
<1> QED
  BY <1>2, <1>7 DEF T

LEMMA FlattenEmpty == SX!FlattenSeq(<<>>) = <<>>
  BY DEF SX!FlattenSeq

LEMMA FlattenAppend ==
  ASSUME NEW S, NEW ss \in Seq(Seq(S)), NEW s \in Seq(S)
  PROVE  SX!FlattenSeq(Append(ss, s)) = SX!FlattenSeq(ss) \o s
<1>1. PICK N \in Nat : Len(ss) = N
  BY LenProperties
<1> DEFINE tt == Append(ss, s)
<1>2. Len(tt) = N + 1 /\ tt[N + 1] = s /\ \A i \in 1 .. N : tt[i] = ss[i]
  BY <1>1, AppendProperties
<1> HIDE DEF tt
<1>3. CASE N = 0
  <2>1. ss = <<>>
    BY <1>1, <1>3, EmptySeq
  <2> DEFINE h == [i \in 1 .. 1 |-> s]
  <2>2. Joins(tt, h, 1)
    BY <1>2, <1>3 DEF Joins
  <2>3. SX!FlattenSeq(tt) = h[1]
    <3>1. Len(tt) = 1 /\ 1 \in Nat /\ 1 # 0
      BY <1>2, <1>3
    <3> HIDE DEF h
    <3> QED
      BY <2>2, <3>1, FlattenIs
  <2>4. SX!FlattenSeq(ss) \o s = s
    BY <2>1, FlattenEmpty, ConcatEmptySeq
  <2> QED
    BY <2>3, <2>4 DEF tt
<1>4. CASE N # 0
  <2>1. PICK g : Joins(ss, g, N)
    BY JoinsThere
  <2>2. SX!FlattenSeq(ss) = g[N]
    BY <1>1, <1>4, <2>1, FlattenIs
  <2> DEFINE h == [i \in 1 .. N + 1 |-> IF i = N + 1 THEN g[N] \o s ELSE g[i]]
  <2>3. ASSUME NEW i \in 1 .. N + 1 PROVE h[i] = IF i = 1 THEN tt[i] ELSE h[i - 1] \o tt[i]
    <3>1. CASE i = N + 1
      <4>1. i - 1 \in 1 .. N + 1 /\ i - 1 # N + 1 /\ i - 1 = N /\ i # 1
        BY <1>4, <3>1
      <4>2. h[i - 1] = g[N]
        BY <4>1
      <4> QED
        BY <1>2, <3>1, <4>1, <4>2
    <3>2. CASE i # N + 1
      <4>1. i \in 1 .. N /\ h[i] = g[i] /\ tt[i] = ss[i]
        BY <1>2, <3>2
      <4>2. CASE i = 1
        BY <2>1, <4>1, <4>2 DEF Joins
      <4>3. CASE i # 1
        <5>1. i - 1 \in 1 .. N + 1 /\ i - 1 # N + 1
          BY <4>1, <4>3
        <5>2. h[i - 1] = g[i - 1]
          BY <5>1
        <5> QED
          BY <2>1, <4>1, <4>3, <5>2 DEF Joins
      <4> QED
        BY <4>2, <4>3
    <3> QED
      BY <3>1, <3>2
  <2>4. h[N + 1] = g[N] \o s
    OBVIOUS
  <2> HIDE DEF h
  <2>5. Joins(tt, h, N + 1)
    BY <2>3 DEF Joins
  <2>6. SX!FlattenSeq(tt) = h[N + 1]
    BY <1>2, <2>5, FlattenIs
  <2> QED
    BY <2>2, <2>4, <2>6 DEF tt
<1> QED
  BY <1>3, <1>4

LEMMA FlattenType ==
  ASSUME NEW S
  PROVE  \A ss \in Seq(Seq(S)) : SX!FlattenSeq(ss) \in Seq(S)
<1> DEFINE T == {ss \in Seq(Seq(S)) : SX!FlattenSeq(ss) \in Seq(S)}
<1>1. <<>> \in T
  BY FlattenEmpty, EmptySeq
<1>2. ASSUME NEW ss \in Seq(Seq(S)), NEW s \in Seq(S), ss \in T PROVE Append(ss, s) \in T
  BY <1>2, FlattenAppend, AppendProperties, ConcatProperties
<1>3. \A ss \in Seq(Seq(S)) : ss \in T
  <2> HIDE DEF T
  <2> QED
    BY <1>1, <1>2, AllSequences
<1> QED
  BY <1>3

(* A function given point by point, and one point more.                    *)
LEMMA FlattenSame == \A s : SQ!FlattenSeq(s) = SX!FlattenSeq(s)
  BY DEF SQ!FlattenSeq, SX!FlattenSeq

-----------------------------------------------------------------------------
(* Editing a page: one token after the other, and so piece by piece.       *)
TokenName ==
  {"@INDEX_TITLE@", "@REPORT_HEADER@", "index.template.css", "text", "sample", "REMOVE_START",
   "REMOVE_END", "NAV_START", "NAV_END", "TAB_PANEL_LIST_START", "TAB_PANEL_LIST_END",
   "FUNCTION_START", "FUNCTION_END", "title", "header", "index.css", "removed",
   "file", "link", "panel"}
Token == TokenName \X Nat \X Nat
IsEdit(e) == e.at \in Token /\ e.put \in Seq(Token) /\ e # Removal
Becomes(t, e) == IF t = e.at THEN e.put ELSE <<t>>

LEMMA BecomesType ==
  ASSUME NEW e, IsEdit(e), NEW t \in Token
  PROVE  Becomes(t, e) \in Seq(Token)
<1>1. <<t>> \in Seq(Token)
  OBVIOUS
<1> QED
  BY <1>1 DEF Becomes, IsEdit

LEMMA EditedIs ==
  ASSUME NEW e, IsEdit(e), NEW p \in Seq(Token)
  PROVE  /\ Edited(p, e) = SX!FlattenSeq([n \in 1 .. Len(p) |-> Becomes(p[n], e)])
         /\ [n \in 1 .. Len(p) |-> Becomes(p[n], e)] \in Seq(Seq(Token))
         /\ Edited(p, e) \in Seq(Token)
<1> DEFINE b == [n \in 1 .. Len(p) |-> Becomes(p[n], e)]
<1>1. Len(p) \in Nat /\ DOMAIN p = 1 .. Len(p) /\ \A n \in 1 .. Len(p) : p[n] \in Token
  BY LenProperties
<1>2. b \in Seq(Seq(Token))
  <2>1. \A n \in 1 .. Len(p) : Becomes(p[n], e) \in Seq(Token)
    BY <1>1, BecomesType
  <2>2. b \in [1 .. Len(p) -> Seq(Token)]
    BY <2>1
  <2> QED
    BY <1>1, <2>2, SeqDef
<1>3. Edited(p, e) = SX!FlattenSeq(b)
  <2>1. [n \in DOMAIN p |->
          IF p[n] = e.at THEN e.put
          ELSE IF e = Removal /\ Removed(p, n) THEN <<>> ELSE <<p[n]>>] = b
    BY <1>1 DEF Becomes, IsEdit
  <2> QED
    BY <2>1, FlattenSame DEF Edited
<1> QED
  BY <1>2, <1>3, FlattenType

LEMMA EditedAppend ==
  ASSUME NEW e, IsEdit(e), NEW p \in Seq(Token), NEW t \in Token
  PROVE  Edited(Append(p, t), e) = Edited(p, e) \o Becomes(t, e)
<1> DEFINE q == Append(p, t)
           b == [n \in 1 .. Len(p) |-> Becomes(p[n], e)]
           c == [n \in 1 .. Len(q) |-> Becomes(q[n], e)]
<1>1. q \in Seq(Token) /\ Len(q) = Len(p) + 1 /\ Len(p) \in Nat
      /\ q[Len(p) + 1] = t /\ \A n \in 1 .. Len(p) : q[n] = p[n]
  BY AppendProperties, LenProperties
<1>2. b \in Seq(Seq(Token)) /\ c \in Seq(Seq(Token)) /\ Becomes(t, e) \in Seq(Token)
      /\ Edited(p, e) = SX!FlattenSeq(b) /\ Edited(q, e) = SX!FlattenSeq(c)
  BY <1>1, EditedIs, BecomesType
<1>3. c = Append(b, Becomes(t, e))
  <2>1. Len(b) = Len(p) /\ Len(c) = Len(p) + 1
    BY <1>1
  <2>2. \A n \in 1 .. Len(p) : c[n] = b[n]
    BY <1>1
  <2>3. c[Len(p) + 1] = Becomes(t, e)
    BY <1>1
  <2> HIDE DEF b, c, q
  <2>4. Append(b, Becomes(t, e)) \in Seq(Seq(Token)) /\ Len(Append(b, Becomes(t, e))) = Len(c)
        /\ \A n \in 1 .. Len(c) : Append(b, Becomes(t, e))[n] = c[n]
    BY <1>1, <1>2, <2>1, <2>2, <2>3, AppendProperties
  <2> QED
    BY <1>2, <2>4, SeqEqual
<1> HIDE DEF b, c, q
<1> QED
  BY <1>2, <1>3, FlattenAppend DEF q

LEMMA EditedEmpty ==
  ASSUME NEW e, IsEdit(e)
  PROVE  Edited(<<>>, e) = <<>>
<1>1. <<>> \in Seq(Token) /\ Len(<<>>) = 0
  OBVIOUS
<1>2. [n \in 1 .. 0 |-> Becomes(<<>>[n], e)] = <<>>
  OBVIOUS
<1>3. Edited(<<>>, e) = SX!FlattenSeq([n \in 1 .. Len(<<>>) |-> Becomes(<<>>[n], e)])
  BY <1>1, EditedIs
<1> QED
  BY <1>1, <1>2, <1>3, FlattenEmpty

LEMMA EditedOne ==
  ASSUME NEW e, IsEdit(e), NEW t \in Token
  PROVE  Edited(<<t>>, e) = Becomes(t, e)
<1>1. <<>> \in Seq(Token) /\ Append(<<>>, t) = <<t>>
  OBVIOUS
<1>2. Edited(Append(<<>>, t), e) = Edited(<<>>, e) \o Becomes(t, e)
  BY <1>1, EditedAppend
<1>3. <<>> \o Becomes(t, e) = Becomes(t, e)
  BY BecomesType, ConcatEmptySeq
<1> QED
  BY <1>1, <1>2, <1>3, EditedEmpty

Assoc(a, b, c) == (a \o b) \o c = a \o (b \o c)

LEMMA TokenAssoc ==
  ASSUME NEW a \in Seq(Token), NEW b \in Seq(Token), NEW c \in Seq(Token)
  PROVE  a \o b \in Seq(Token) /\ Assoc(a, b, c)
  BY ConcatAssociative, ConcatProperties DEF Assoc

LEMMA AppendIs ==
  ASSUME NEW S, NEW s \in Seq(S), NEW q \in Seq(S), NEW x \in S, Len(q) = Len(s) + 1,
         q[Len(s) + 1] = x, \A n \in 1 .. Len(s) : q[n] = s[n]
  PROVE  q = Append(s, x)
<1> DEFINE a == Append(s, x)
<1>1. PICK m \in Nat : m = Len(s)
  BY LenProperties
<1>2. a \in Seq(S) /\ Len(a) = m + 1 /\ a[m + 1] = x /\ \A n \in 1 .. m : a[n] = s[n]
  BY <1>1, AppendProperties
<1> HIDE DEF a
<1>3. ASSUME NEW n \in 1 .. m + 1 PROVE q[n] = a[n]
  <2>1. n = m + 1 \/ n \in 1 .. m
    OBVIOUS
  <2> QED
    BY <1>1, <1>2, <2>1
<1>4. q = a
  BY <1>1, <1>2, <1>3, SeqEqual
<1> QED
  BY <1>4 DEF a

LEMMA EditedConcat ==
  ASSUME NEW e, IsEdit(e), NEW p \in Seq(Token)
  PROVE  \A q \in Seq(Token) : Edited(p \o q, e) = Edited(p, e) \o Edited(q, e)
<1> DEFINE T == {q \in Seq(Token) : Edited(p \o q, e) = Edited(p, e) \o Edited(q, e)}
<1>1. <<>> \in T
  <2>1. <<>> \in Seq(Token) /\ p \o <<>> = p /\ Edited(p, e) \o <<>> = Edited(p, e)
    BY ConcatEmptySeq, EditedIs
  <2> QED
    BY <2>1, EditedEmpty
<1>2. ASSUME NEW q \in Seq(Token), NEW t \in Token, q \in T PROVE Append(q, t) \in T
  <2>1. p \o Append(q, t) = Append(p \o q, t) /\ p \o q \in Seq(Token) /\ Append(q, t) \in Seq(Token)
    BY ConcatProperties, AppendProperties, AppendIsConcat, ConcatAssociative
  <2>2. Edited(Append(p \o q, t), e) = (Edited(p, e) \o Edited(q, e)) \o Becomes(t, e)
    BY <1>2, <2>1, EditedAppend
  <2>3. Edited(Append(q, t), e) = Edited(q, e) \o Becomes(t, e)
    BY EditedAppend
  <2>4. Edited(p, e) \in Seq(Token) /\ Edited(q, e) \in Seq(Token) /\ Becomes(t, e) \in Seq(Token)
    BY EditedIs, BecomesType
  <2>5. (Edited(p, e) \o Edited(q, e)) \o Becomes(t, e) = Edited(p, e) \o (Edited(q, e) \o Becomes(t, e))
    <3>1. Assoc(Edited(p, e), Edited(q, e), Becomes(t, e))
      BY <2>4, TokenAssoc
    <3> QED
      BY <3>1, Zenon DEF Assoc
  <2> QED
    BY <2>1, <2>2, <2>3, <2>5
<1> HIDE DEF T
<1>3. \A q \in Seq(Token) : q \in T
  BY <1>1, <1>2, AllSequences
<1> QED
  BY <1>3 DEF T

LEMMA EditedUntouched ==
  ASSUME NEW e, IsEdit(e), NEW p \in Seq(Token), \A n \in 1 .. Len(p) : p[n] # e.at
  PROVE  Edited(p, e) = p
<1> DEFINE T == {q \in Seq(Token) : (\A n \in 1 .. Len(q) : q[n] # e.at) => Edited(q, e) = q}
<1>1. <<>> \in T
  <2>1. <<>> \in Seq(Token)
    OBVIOUS
  <2> QED
    BY <2>1, EditedEmpty
<1>2. ASSUME NEW q \in Seq(Token), NEW t \in Token, q \in T PROVE Append(q, t) \in T
  <2>1. Append(q, t) \in Seq(Token)
    BY AppendProperties
  <2> SUFFICES ASSUME \A n \in 1 .. Len(Append(q, t)) : Append(q, t)[n] # e.at
               PROVE  Edited(Append(q, t), e) = Append(q, t)
    BY <2>1
  <2>2. t # e.at /\ \A n \in 1 .. Len(q) : q[n] # e.at
    <3>1. Len(q) \in Nat /\ Len(Append(q, t)) = Len(q) + 1 /\ Append(q, t)[Len(q) + 1] = t
          /\ \A n \in 1 .. Len(q) : Append(q, t)[n] = q[n]
      BY AppendProperties, LenProperties
    <3> QED
      BY <3>1
  <2>3. Becomes(t, e) = <<t>>
    BY <2>2 DEF Becomes
  <2>4. Edited(Append(q, t), e) = q \o <<t>>
    BY <1>2, <2>2, <2>3, EditedAppend
  <2> QED
    BY <2>4, AppendIsConcat
<1> HIDE DEF T
<1>3. \A q \in Seq(Token) : q \in T
  BY <1>1, <1>2, AllSequences
<1> QED
  BY <1>3 DEF T

LEMMA EditedFlatten ==
  ASSUME NEW e, IsEdit(e), NEW ss \in Seq(Seq(Token))
  PROVE  Edited(SX!FlattenSeq(ss), e) = SX!FlattenSeq([n \in 1 .. Len(ss) |-> Edited(ss[n], e)])
<1> DEFINE All(s) == [n \in 1 .. Len(s) |-> Edited(s[n], e)]
           T == {s \in Seq(Seq(Token)) : Edited(SX!FlattenSeq(s), e) = SX!FlattenSeq(All(s))}
<1>1. <<>> \in T
  <2>1. <<>> \in Seq(Seq(Token)) /\ All(<<>>) = <<>>
    OBVIOUS
  <2> QED
    BY <2>1, FlattenEmpty, EditedEmpty
<1>2. ASSUME NEW s \in Seq(Seq(Token)), NEW p \in Seq(Token), s \in T PROVE Append(s, p) \in T
  <2> DEFINE q == Append(s, p)
  <2>1. q \in Seq(Seq(Token)) /\ Len(q) = Len(s) + 1 /\ Len(s) \in Nat
        /\ q[Len(s) + 1] = p /\ \A n \in 1 .. Len(s) : q[n] = s[n]
    BY AppendProperties, LenProperties
  <2>2. ASSUME NEW r \in Seq(Seq(Token)) PROVE All(r) \in Seq(Seq(Token))
    <3>1. \A n \in 1 .. Len(r) : Edited(r[n], e) \in Seq(Token)
      BY EditedIs, LenProperties
    <3>2. All(r) \in [1 .. Len(r) -> Seq(Token)] /\ Len(r) \in Nat
      BY <3>1, LenProperties
    <3> QED
      BY <3>2, SeqDef
  <2>3. Len(All(s)) = Len(s) /\ Len(All(q)) = Len(s) + 1
    BY <2>1
  <2>4. \A n \in 1 .. Len(s) : All(q)[n] = All(s)[n]
    BY <2>1
  <2>5. All(q)[Len(s) + 1] = Edited(p, e) /\ Edited(p, e) \in Seq(Token)
    <3>1. Edited(p, e) \in Seq(Token)
      BY EditedIs
    <3>2. Len(s) + 1 \in 1 .. Len(q)
      BY <2>1
    <3>3. All(q)[Len(s) + 1] = Edited(q[Len(s) + 1], e)
      BY <3>2
    <3> QED
      BY <2>1, <3>1, <3>3
  <2>6. All(s) \in Seq(Seq(Token)) /\ All(q) \in Seq(Seq(Token))
    BY <2>1, <2>2
  <2>7. SX!FlattenSeq(q) = SX!FlattenSeq(s) \o p
    BY FlattenAppend
  <2>8. Edited(SX!FlattenSeq(s) \o p, e) = Edited(SX!FlattenSeq(s), e) \o Edited(p, e)
    BY FlattenType, EditedConcat
  <2>9. Edited(SX!FlattenSeq(s), e) = SX!FlattenSeq(All(s))
    BY <1>2
  <2> HIDE DEF All, q, T
  <2>10. All(q) = Append(All(s), Edited(p, e))
    <3>1. PICK a \in Seq(Seq(Token)), b \in Seq(Seq(Token)), x \in Seq(Token) :
            a = All(s) /\ b = All(q) /\ x = Edited(p, e)
      BY <2>5, <2>6
    <3>2. Len(a) = Len(s) /\ Len(b) = Len(a) + 1
      BY <2>3, <3>1
    <3>3. b[Len(a) + 1] = x /\ \A n \in 1 .. Len(a) : b[n] = a[n]
      BY <2>4, <2>5, <3>1, <3>2
    <3>4. b = Append(a, x)
      BY <3>2, <3>3, AppendIs
    <3> QED
      BY <3>1, <3>4
  <2>11. SX!FlattenSeq(All(q)) = SX!FlattenSeq(All(s)) \o Edited(p, e)
    BY <2>5, <2>6, <2>10, FlattenAppend
  <2>12. Edited(SX!FlattenSeq(q), e) = SX!FlattenSeq(All(q))
    BY <2>7, <2>8, <2>9, <2>11
  <2> QED
    BY <2>1, <2>12 DEF q, T
<1> HIDE DEF T
<1>3. \A s \in Seq(Seq(Token)) : s \in T
  BY <1>1, <1>2, AllSequences
<1> QED
  BY <1>3 DEF T

LEMMA LongerByOne ==
  ASSUME NEW S, NEW n \in Nat, NEW f \in [1 .. n -> S], NEW g \in [1 .. n + 1 -> S],
         \A i \in 1 .. n : g[i] = f[i]
  PROVE  f \in Seq(S) /\ g = Append(f, g[n + 1]) /\ g[n + 1] \in S
<1>1. f \in Seq(S) /\ Len(f) = n
  BY SeqDef
<1>2. g \in Seq(S) /\ Len(g) = n + 1
  <2>1. n + 1 \in Nat
    OBVIOUS
  <2> QED
    BY <2>1, SeqDef
<1>3. n + 1 \in 1 .. n + 1 /\ g[n + 1] \in S
  OBVIOUS
<1> DEFINE h == Append(f, g[n + 1])
<1>4. h \in Seq(S) /\ Len(h) = n + 1 /\ h[n + 1] = g[n + 1] /\ \A i \in 1 .. n : h[i] = g[i]
  BY <1>1, <1>3, AppendProperties
<1> HIDE DEF h
<1>5. \A i \in 1 .. n + 1 : h[i] = g[i]
  BY <1>4
<1>6. h = g
  BY <1>2, <1>4, <1>5, SeqEqual
<1> QED
  BY <1>1, <1>3, <1>6 DEF h

-----------------------------------------------------------------------------
(* What the page is to become once the edits queued so far are applied:    *)
(* the page that lists what comes before function n of unit u.             *)
Before(us, v, u) ==
  SX!FlattenSeq([k \in 1 .. u - v |->
     [m \in DOMAIN us[v + k - 1].functions |-> <<v + k - 1, m>>]])
Listed(us, v, u, n)  == Before(us, v, u) \o [m \in 1 .. n - 1 |-> <<u, m>>]
Entries(us, v, u, n) ==
  (<<FileEntry(v), Mark("FUNCTION_START")>> \o Links(Listed(us, v, u, n))) \o <<Mark("FUNCTION_END")>>
Navigation(us, u, n) ==
  SX!FlattenSeq([v \in 1 .. (IF n = 0 THEN u - 1 ELSE u) |-> Entries(us, v, u, n)])

Top    == Marks(<<"title", "index.css", "text", "header", "text", "removed", "NAV_START">>)
Middle == Marks(<<"NAV_END", "text", "removed", "TAB_PANEL_LIST_START">>)
Bottom == Marks(<<"TAB_PANEL_LIST_END", "text">>)
Whole(a, b, c, d, e) == (((a \o b) \o c) \o d) \o e
PageAt(us, u, n) ==
  Whole(Top, Navigation(us, u, n), Middle, Panels(Listed(us, 1, u, n)), Bottom)

UnitsOK(us) ==
  /\ Len(us) \in Nat /\ DOMAIN us = 1 .. Len(us)
  /\ \A u \in DOMAIN us : us[u].functions \in Seq(FunctionName)

Place == Nat \X Nat
Own(us, u) == [m \in DOMAIN us[u].functions |-> <<u, m>>]

LEMMA PlaceAssoc ==
  ASSUME NEW a \in Seq(Place), NEW b \in Seq(Place), NEW c \in Seq(Place)
  PROVE  Assoc(a, b, c)
  BY ConcatAssociative DEF Assoc

LEMMA OwnType ==
  ASSUME NEW us, UnitsOK(us), NEW u \in 1 .. Len(us)
  PROVE  /\ Own(us, u) \in Seq(Place) /\ Len(us[u].functions) \in Nat
         /\ Own(us, u) = [m \in 1 .. Len(us[u].functions) |-> <<u, m>>]
<1>1. u \in Nat /\ Len(us[u].functions) \in Nat
      /\ DOMAIN us[u].functions = 1 .. Len(us[u].functions)
  BY LenProperties DEF UnitsOK
<1>2. Own(us, u) \in [1 .. Len(us[u].functions) -> Place]
  BY <1>1 DEF Own, Place
<1> QED
  BY <1>1, <1>2, SeqDef DEF Own

LEMMA BeforeFacts ==
  ASSUME NEW us, UnitsOK(us), NEW v \in Nat \ {0}, NEW u \in Nat, v <= u, u <= Len(us) + 1
  PROVE  /\ Before(us, v, u) \in Seq(Place)
         /\ v = u => Before(us, v, u) = <<>>
         /\ u <= Len(us) => Before(us, v, u + 1) = Before(us, v, u) \o Own(us, u)
<1> DEFINE Chunks(d) == [k \in 1 .. d |-> Own(us, v + k - 1)]
<1>1. ASSUME NEW d \in Nat, v + d <= Len(us) + 1 PROVE Chunks(d) \in [1 .. d -> Seq(Place)]
  <2>1. \A k \in 1 .. d : v + k - 1 \in 1 .. Len(us)
    BY <1>1 DEF UnitsOK
  <2> QED
    BY <2>1, OwnType
<1>2. PICK d \in Nat : v + d = u /\ d = u - v
  <2>1. u - v \in Nat /\ v + (u - v) = u
    OBVIOUS
  <2> QED
    BY <2>1
<1>3. Before(us, v, u) = SX!FlattenSeq(Chunks(d))
  BY <1>2 DEF Before, Own
<1>4. Chunks(d) \in Seq(Seq(Place))
  <2>1. Chunks(d) \in [1 .. d -> Seq(Place)]
    BY <1>1, <1>2
  <2> HIDE DEF Chunks
  <2> QED
    BY <2>1, SeqDef
<1>5. Before(us, v, u) \in Seq(Place)
  BY <1>3, <1>4, FlattenType
<1>6. ASSUME v = u PROVE Before(us, v, u) = <<>>
  <2>1. d = 0
    BY <1>2, <1>6
  <2>2. Chunks(0) = <<>>
    OBVIOUS
  <2> QED
    BY <1>3, <2>1, <2>2, FlattenEmpty
<1>7. ASSUME u <= Len(us) PROVE Before(us, v, u + 1) = Before(us, v, u) \o Own(us, u)
  <2>1. (u + 1) - v = d + 1 /\ v + (d + 1) <= Len(us) + 1 /\ d + 1 \in Nat
    BY <1>2, <1>7 DEF UnitsOK
  <2>2. Before(us, v, u + 1) = SX!FlattenSeq(Chunks(d + 1))
    BY <2>1 DEF Before, Own
  <2>3. Chunks(d) \in [1 .. d -> Seq(Place)] /\ Chunks(d + 1) \in [1 .. d + 1 -> Seq(Place)]
    BY <1>1, <1>2, <2>1
  <2>4. \A k \in 1 .. d : Chunks(d + 1)[k] = Chunks(d)[k]
    OBVIOUS
  <2>5. Chunks(d + 1)[d + 1] = Own(us, u)
    <3>1. v + (d + 1) - 1 = u /\ d + 1 \in 1 .. d + 1
      BY <1>2
    <3> QED
      BY <3>1
  <2> HIDE DEF Chunks
  <2>6. Chunks(d + 1) = Append(Chunks(d), Own(us, u)) /\ Own(us, u) \in Seq(Place)
    BY <2>3, <2>4, <2>5, LongerByOne
  <2> QED
    BY <1>3, <1>4, <2>2, <2>6, FlattenAppend
<1> QED
  BY <1>5, <1>6, <1>7

(* Where one is in the report: at the entry of unit u if n = 0, otherwise  *)
(* before its function n.                                                  *)
At(us, u, n) ==
  /\ u \in Nat \ {0} /\ n \in Nat /\ u <= Len(us) + 1
  /\ n # 0 => u <= Len(us) /\ n <= Len(us[u].functions) + 1

LEMMA ListedFacts ==
  ASSUME NEW us, UnitsOK(us), NEW u, NEW n, At(us, u, n), NEW v \in Nat \ {0}, v <= u
  PROVE  /\ Listed(us, v, u, n) \in Seq(Place)
         /\ n = 0 => Listed(us, v, u, 1) = Listed(us, v, u, 0)
         /\ n # 0 => Listed(us, v, u, n + 1) = Append(Listed(us, v, u, n), <<u, n>>)
         /\ n # 0 /\ n = Len(us[u].functions) + 1 => Listed(us, v, u, n) = Listed(us, v, u + 1, 0)
         /\ n \in {0, 1} => Listed(us, v, u, n) = Before(us, v, u)
<1> DEFINE Here(k) == [m \in 1 .. k - 1 |-> <<u, m>>]
<1>1. u \in Nat /\ n \in Nat /\ u <= Len(us) + 1
  BY DEF At
<1>2. Before(us, v, u) \in Seq(Place)
  BY <1>1, BeforeFacts
<1>3. ASSUME NEW k \in Nat PROVE Here(k + 1) \in [1 .. k -> Place] /\ Here(k + 1) \in Seq(Place)
  <2>1. (k + 1) - 1 = k
    OBVIOUS
  <2>2. Here(k + 1) \in [1 .. k -> Place]
    BY <1>1, <2>1 DEF Place
  <2> QED
    BY <2>2, SeqDef
<1>4. Here(0) = <<>> /\ Here(1) = <<>>
  OBVIOUS
<1>5. Here(n) \in Seq(Place)
  <2>1. CASE n = 0
    BY <1>4, <2>1
  <2>2. CASE n # 0
    <3>1. n - 1 \in Nat /\ (n - 1) + 1 = n
      BY <1>1, <2>2
    <3> HIDE DEF Here
    <3> QED
      BY <1>3, <3>1
  <2> QED
    BY <2>1, <2>2
<1>6. Listed(us, v, u, n) \in Seq(Place)
  BY <1>2, <1>5, ConcatProperties DEF Listed
<1>7. Listed(us, v, u, 0) = Before(us, v, u) /\ Listed(us, v, u, 1) = Before(us, v, u)
  BY <1>2, <1>4, ConcatEmptySeq DEF Listed
<1>8. ASSUME n # 0 PROVE Listed(us, v, u, n + 1) = Append(Listed(us, v, u, n), <<u, n>>)
  <2>1. PICK k \in Nat : n = k + 1
    <3>1. n - 1 \in Nat /\ n = (n - 1) + 1
      BY <1>1, <1>8
    <3> QED
      BY <3>1
  <2>2. Here(n) \in [1 .. k -> Place] /\ Here(n + 1) \in [1 .. k + 1 -> Place]
    BY <1>3, <2>1
  <2>3. \A i \in 1 .. k : Here(n + 1)[i] = Here(n)[i]
    BY <2>1
  <2>4. Here(n + 1)[k + 1] = <<u, n>>
    BY <2>1
  <2> HIDE DEF Here
  <2>5. Here(n + 1) = Append(Here(n), <<u, n>>) /\ <<u, n>> \in Place
    BY <2>2, <2>3, <2>4, LongerByOne
  <2>6. Append(Here(n), <<u, n>>) = Here(n) \o << <<u, n>> >>
    BY <1>5, <2>5, AppendIsConcat
  <2>7. << <<u, n>> >> \in Seq(Place)
    BY <2>5
  <2>8. Before(us, v, u) \o (Here(n) \o << <<u, n>> >>) = (Before(us, v, u) \o Here(n)) \o << <<u, n>> >>
    BY <1>2, <1>5, <2>7, ConcatAssociative
  <2>9. Append(Listed(us, v, u, n), <<u, n>>) = Listed(us, v, u, n) \o << <<u, n>> >>
    BY <1>6, <2>5, AppendIsConcat
  <2> QED
    BY <2>5, <2>6, <2>8, <2>9 DEF Listed, Here
<1>9. ASSUME n # 0, n = Len(us[u].functions) + 1 PROVE Listed(us, v, u, n) = Listed(us, v, u + 1, 0)
  <2>1. u \in 1 .. Len(us) /\ u <= Len(us)
    BY <1>9 DEF At, UnitsOK
  <2>2. Here(n) = Own(us, u)
    <3>1. Own(us, u) = [m \in 1 .. Len(us[u].functions) |-> <<u, m>>] /\ Len(us[u].functions) \in Nat
      BY <2>1, OwnType
    <3>2. n - 1 = Len(us[u].functions)
      BY <1>9, <3>1
    <3> QED
      BY <3>1, <3>2
  <2>3. Before(us, v, u + 1) = Before(us, v, u) \o Own(us, u)
    BY <1>1, <2>1, BeforeFacts
  <2>4. Own(us, u) \in Seq(Place)
    BY <2>1, OwnType
  <2>5. Listed(us, v, u + 1, 0) = Before(us, v, u + 1)
    <3>1. [m \in 1 .. 0 - 1 |-> <<u + 1, m>>] = <<>>
      OBVIOUS
    <3>2. Before(us, v, u) \o Own(us, u) \in Seq(Place)
      BY <1>2, <2>4, ConcatProperties
    <3> QED
      BY <2>3, <3>1, <3>2, ConcatEmptySeq DEF Listed
  <2> QED
    BY <2>2, <2>3, <2>5 DEF Listed
<1> QED
  BY <1>1, <1>6, <1>7, <1>8, <1>9

(* The pieces of the page: a piece without a token is a sequence of the    *)
(* others.                                                                 *)
Free(m) == Token \ {Mark(m)}

LEMMA FreeIsToken ==
  ASSUME NEW m, NEW p \in Seq(Free(m))
  PROVE  p \in Seq(Token)
<1>1. Free(m) \subseteq Token
  BY DEF Free
<1> QED
  BY <1>1, SeqMonotonic

LEMMA FreeKept ==
  ASSUME NEW m, NEW e, IsEdit(e), e.at = Mark(m), NEW p \in Seq(Free(m))
  PROVE  Edited(p, e) = p
<1>1. p \in Seq(Token)
  BY FreeIsToken
<1>2. \A n \in 1 .. Len(p) : p[n] # e.at
  <2>1. \A n \in 1 .. Len(p) : p[n] \in Free(m)
    BY LenProperties
  <2> QED
    BY <2>1 DEF Free
<1> QED
  BY <1>1, <1>2, EditedUntouched

LEMMA TokensTyped ==
  /\ \A m \in TokenName : Mark(m) \in Token
  /\ \A u, n \in Nat : FileEntry(u) \in Token /\ Link(u, n) \in Token /\ Panel(u, n) \in Token
<1>1. "file" \in TokenName /\ "link" \in TokenName /\ "panel" \in TokenName
  BY DEF TokenName
<1>2. \A m \in TokenName : \A u, n \in Nat : <<m, u, n>> \in Token
  BY DEF Token
<1> QED
  BY <1>1, <1>2 DEF Mark, FileEntry, Link, Panel

LEMMA LinksFacts ==
  ASSUME NEW fs \in Seq(Place)
  PROVE  /\ \A m \in TokenName : m # "link" => Links(fs) \in Seq(Free(m))
         /\ Links(fs) \in Seq(Token)
         /\ \A f \in Place : Links(Append(fs, f)) = Links(fs) \o <<Link(f[1], f[2])>>
<1> DEFINE N == Len(fs)
           L == {Link(u, n) : u \in Nat, n \in Nat}
<1>1. N \in Nat /\ DOMAIN fs = 1 .. N /\ \A k \in 1 .. N : fs[k] \in Place
  BY LenProperties
<1>2. \A f \in Place : Link(f[1], f[2]) \in L
  BY DEF Place
<1>3. Links(fs) \in [1 .. N -> L]
  BY <1>1, <1>2 DEF Links
<1>4. Links(fs) \in Seq(L)
  <2> HIDE DEF L, N
  <2> QED
    BY <1>1, <1>3, SeqDef
<1>5. \A m \in TokenName : m # "link" => L \subseteq Free(m)
  BY TokensTyped DEF Free, Link, Mark
<1>6. L \subseteq Token
  BY TokensTyped
<1>7. ASSUME NEW f \in Place PROVE Links(Append(fs, f)) = Links(fs) \o <<Link(f[1], f[2])>>
  <2> DEFINE gs == Append(fs, f)
  <2>1. gs \in Seq(Place) /\ Len(gs) = N + 1 /\ gs[N + 1] = f /\ DOMAIN gs = 1 .. N + 1
        /\ \A k \in 1 .. N : gs[k] = fs[k]
    BY <1>1, AppendProperties, LenProperties
  <2>2. \A k \in 1 .. N + 1 : gs[k] \in Place
    BY <1>1, <2>1
  <2> HIDE DEF gs
  <2>3. Links(gs) \in [1 .. N + 1 -> L]
    BY <1>2, <2>1, <2>2 DEF Links
  <2>4. \A k \in 1 .. N : Links(gs)[k] = Links(fs)[k]
    BY <1>1, <2>1 DEF Links
  <2>5. Links(gs)[N + 1] = Link(f[1], f[2])
    BY <1>1, <2>1 DEF Links
  <2> HIDE DEF N, L
  <2>6. Links(gs) = Append(Links(fs), Link(f[1], f[2])) /\ Link(f[1], f[2]) \in L
    BY <1>1, <1>3, <2>3, <2>4, <2>5, LongerByOne
  <2> QED
    BY <1>4, <2>6, AppendIsConcat DEF gs
<1> HIDE DEF L
<1> QED
  BY <1>4, <1>5, <1>6, <1>7, SeqMonotonic

LEMMA LinksConcat ==
  ASSUME NEW fs \in Seq(Place)
  PROVE  \A gs \in Seq(Place) : Links(fs \o gs) = Links(fs) \o Links(gs)
<1> DEFINE T == {gs \in Seq(Place) : Links(fs \o gs) = Links(fs) \o Links(gs)}
<1>1. <<>> \in T
  <2>1. <<>> \in Seq(Place) /\ fs \o <<>> = fs /\ Links(fs) \o <<>> = Links(fs)
    BY LinksFacts, ConcatEmptySeq
  <2>2. Links(<<>>) = <<>>
    BY DEF Links
  <2> QED
    BY <2>1, <2>2
<1>2. ASSUME NEW gs \in Seq(Place), NEW f \in Place, gs \in T PROVE Append(gs, f) \in T
  <2>1. fs \o Append(gs, f) = Append(fs \o gs, f) /\ fs \o gs \in Seq(Place) /\ Append(gs, f) \in Seq(Place)
    BY ConcatProperties, AppendProperties, AppendIsConcat, ConcatAssociative
  <2> DEFINE l == <<Link(f[1], f[2])>>
  <2>2. Links(Append(fs \o gs, f)) = Links(fs \o gs) \o l
    BY <2>1, LinksFacts
  <2>3. Links(Append(gs, f)) = Links(gs) \o l
    BY LinksFacts
  <2>4. Links(fs) \in Seq(Token) /\ Links(gs) \in Seq(Token) /\ l \in Seq(Token)
    <3>1. Links(<<f>>) = l /\ <<f>> \in Seq(Place)
      BY DEF Links
    <3> QED
      BY <3>1, LinksFacts
  <2> HIDE DEF l
  <2>5. (Links(fs) \o Links(gs)) \o l = Links(fs) \o (Links(gs) \o l)
    <3>1. Assoc(Links(fs), Links(gs), l)
      BY <2>4, TokenAssoc
    <3> QED
      BY <3>1, Zenon DEF Assoc
  <2> QED
    BY <1>2, <2>1, <2>2, <2>3, <2>5
<1> HIDE DEF T
<1>3. \A gs \in Seq(Place) : gs \in T
  BY <1>1, <1>2, AllSequences
<1> QED
  BY <1>3 DEF T

LEMMA PanelsFacts ==
  ASSUME NEW fs \in Seq(Place)
  PROVE  /\ \A m \in TokenName : m # "panel" => Panels(fs) \in Seq(Free(m))
         /\ Panels(fs) \in Seq(Token)
         /\ \A f \in Place : Panels(Append(fs, f)) = Panels(fs) \o <<Panel(f[1], f[2])>>
<1> DEFINE N == Len(fs)
           L == {Panel(u, n) : u \in Nat, n \in Nat}
<1>1. N \in Nat /\ DOMAIN fs = 1 .. N /\ \A k \in 1 .. N : fs[k] \in Place
  BY LenProperties
<1>2. \A f \in Place : Panel(f[1], f[2]) \in L
  BY DEF Place
<1>3. Panels(fs) \in [1 .. N -> L]
  BY <1>1, <1>2 DEF Panels
<1>4. Panels(fs) \in Seq(L)
  <2> HIDE DEF L, N
  <2> QED
    BY <1>1, <1>3, SeqDef
<1>5. \A m \in TokenName : m # "panel" => L \subseteq Free(m)
  BY TokensTyped DEF Free, Panel, Mark
<1>6. L \subseteq Token
  BY TokensTyped
<1>7. ASSUME NEW f \in Place PROVE Panels(Append(fs, f)) = Panels(fs) \o <<Panel(f[1], f[2])>>
  <2> DEFINE gs == Append(fs, f)
  <2>1. gs \in Seq(Place) /\ Len(gs) = N + 1 /\ gs[N + 1] = f /\ DOMAIN gs = 1 .. N + 1
        /\ \A k \in 1 .. N : gs[k] = fs[k]
    BY <1>1, AppendProperties, LenProperties
  <2>2. \A k \in 1 .. N + 1 : gs[k] \in Place
    BY <1>1, <2>1
  <2> HIDE DEF gs
  <2>3. Panels(gs) \in [1 .. N + 1 -> L]
    BY <1>2, <2>1, <2>2 DEF Panels
  <2>4. \A k \in 1 .. N : Panels(gs)[k] = Panels(fs)[k]
    BY <1>1, <2>1 DEF Panels
  <2>5. Panels(gs)[N + 1] = Panel(f[1], f[2])
    BY <1>1, <2>1 DEF Panels
  <2> HIDE DEF N, L
  <2>6. Panels(gs) = Append(Panels(fs), Panel(f[1], f[2])) /\ Panel(f[1], f[2]) \in L
    BY <1>1, <1>3, <2>3, <2>4, <2>5, LongerByOne
  <2> QED
    BY <1>4, <2>6, AppendIsConcat DEF gs
<1> HIDE DEF L
<1> QED
  BY <1>4, <1>5, <1>6, <1>7, SeqMonotonic

FileEdit(u)     == InsertBefore("NAV_END",
                     <<FileEntry(u), Mark("FUNCTION_START"), Mark("FUNCTION_END")>>)
LinkEdit(u, n)  == InsertBefore("FUNCTION_END", <<Link(u, n)>>)
PanelEdit(u, n) == InsertBefore("TAB_PANEL_LIST_END", <<Panel(u, n)>>)

LEMMA InsertIs ==
  ASSUME NEW m \in TokenName, NEW put \in Seq(Token), m # "REMOVE_START"
  PROVE  /\ IsEdit(InsertBefore(m, put)) /\ InsertBefore(m, put).at = Mark(m)
         /\ Edited(<<Mark(m)>>, InsertBefore(m, put)) = put \o <<Mark(m)>>
<1> DEFINE e == InsertBefore(m, put)
<1>1. Mark(m) \in Token
  BY TokensTyped
<1>2. e.at = Mark(m) /\ e.put = put \o <<Mark(m)>>
  BY DEF InsertBefore
<1>3. <<Mark(m)>> \in Seq(Token)
  BY <1>1
<1>4. e.put \in Seq(Token)
  BY <1>2, <1>3, ConcatProperties
<1>5. e # Removal
  <2>1. Removal.at = Mark("REMOVE_START") /\ Mark("REMOVE_START") # Mark(m)
    BY DEF Removal, Mark
  <2> QED
    BY <1>2, <2>1
<1>6. IsEdit(e)
  BY <1>1, <1>2, <1>4, <1>5 DEF IsEdit
<1>7. Edited(<<Mark(m)>>, e) = put \o <<Mark(m)>>
  BY <1>1, <1>2, <1>6, EditedOne DEF Becomes
<1> QED
  BY <1>2, <1>6, <1>7

-----------------------------------------------------------------------------
LEMMA MarksAre ==
  /\ Top = << Mark("title"), Mark("index.css"), Mark("text"), Mark("header"), Mark("text"),
              Mark("removed"), Mark("NAV_START") >>
  /\ Middle = <<Mark("NAV_END")>>
              \o <<Mark("text"), Mark("removed"), Mark("TAB_PANEL_LIST_START")>>
  /\ Bottom = <<Mark("TAB_PANEL_LIST_END")>> \o <<Mark("text")>>
  BY DEF Top, Middle, Bottom, Marks

LEMMA MarkTokens ==
  ASSUME NEW m \in {"NAV_END", "FUNCTION_END", "TAB_PANEL_LIST_END"}
  PROVE  /\ Top \in Seq(Free(m))
         /\ m # "NAV_END" => Middle \in Seq(Free(m))
         /\ m # "TAB_PANEL_LIST_END" => Bottom \in Seq(Free(m))
         /\ <<Mark("text"), Mark("removed"), Mark("TAB_PANEL_LIST_START")>> \in Seq(Free(m))
         /\ <<Mark("text")>> \in Seq(Free(m))
<1>1. \A x \in TokenName : x # m => Mark(x) \in Free(m)
  BY TokensTyped DEF Free, Mark
<1> DEFINE others == {"title", "index.css", "text", "header", "removed", "NAV_START", "TAB_PANEL_LIST_START"}
<1>0. \A x \in others : x \in TokenName /\ x # m
  BY DEF TokenName
<1>7. \A x \in others : Mark(x) \in Free(m)
  BY <1>0, <1>1
<1>8. "NAV_END" \in TokenName /\ "TAB_PANEL_LIST_END" \in TokenName
  BY DEF TokenName
<1>2. /\ Mark("title") \in Free(m) /\ Mark("index.css") \in Free(m) /\ Mark("text") \in Free(m)
      /\ Mark("header") \in Free(m) /\ Mark("removed") \in Free(m) /\ Mark("NAV_START") \in Free(m)
      /\ Mark("TAB_PANEL_LIST_START") \in Free(m)
      /\ m # "NAV_END" => Mark("NAV_END") \in Free(m)
      /\ m # "TAB_PANEL_LIST_END" => Mark("TAB_PANEL_LIST_END") \in Free(m)
  BY <1>1, <1>7, <1>8
<1>3. Top \in Seq(Free(m))
  BY <1>2, MarksAre
<1>4. /\ <<Mark("text"), Mark("removed"), Mark("TAB_PANEL_LIST_START")>> \in Seq(Free(m))
      /\ <<Mark("text")>> \in Seq(Free(m))
  BY <1>2
<1>5. ASSUME m # "NAV_END" PROVE Middle \in Seq(Free(m))
  <2>1. <<Mark("NAV_END")>> \in Seq(Free(m))
    BY <1>2, <1>5
  <2> QED
    BY <1>4, <2>1, MarksAre, ConcatProperties
<1>6. ASSUME m # "TAB_PANEL_LIST_END" PROVE Bottom \in Seq(Free(m))
  <2>1. <<Mark("TAB_PANEL_LIST_END")>> \in Seq(Free(m))
    BY <1>2, <1>6
  <2> QED
    BY <1>4, <2>1, MarksAre, ConcatProperties
<1> QED
  BY <1>3, <1>4, <1>5, <1>6

(* The edits of the loops, each on the pieces of the page.                 *)
LEMMA InsertFront ==
  ASSUME NEW m \in TokenName, NEW put \in Seq(Token), m # "REMOVE_START", NEW r \in Seq(Free(m))
  PROVE  /\ Edited(<<Mark(m)>> \o r, InsertBefore(m, put)) = put \o (<<Mark(m)>> \o r)
         /\ <<Mark(m)>> \o r \in Seq(Token)
<1> DEFINE e == InsertBefore(m, put)
<1>1. IsEdit(e) /\ e.at = Mark(m) /\ Edited(<<Mark(m)>>, e) = put \o <<Mark(m)>>
  BY InsertIs
<1>2. <<Mark(m)>> \in Seq(Token)
  <2>1. Mark(m) \in Token
    BY TokensTyped
  <2> QED
    BY <2>1
<1>3. r \in Seq(Token)
  BY FreeIsToken
<1> HIDE DEF e
<1>4. Edited(r, e) = r
  BY <1>1, FreeKept
<1>5. Edited(<<Mark(m)>> \o r, e) = (put \o <<Mark(m)>>) \o r
  BY <1>1, <1>2, <1>3, <1>4, EditedConcat
<1>6. (put \o <<Mark(m)>>) \o r = put \o (<<Mark(m)>> \o r)
  BY <1>2, <1>3, ConcatAssociative
<1>7. <<Mark(m)>> \o r \in Seq(Token)
  BY <1>2, <1>3, ConcatProperties
<1> QED
  BY <1>5, <1>6, <1>7 DEF e

LEMMA EntriesFacts ==
  ASSUME NEW us, UnitsOK(us), NEW u, NEW n, At(us, u, n), NEW v \in Nat \ {0}, v <= u
  PROVE  /\ \A m \in {"NAV_END", "TAB_PANEL_LIST_END"} : Entries(us, v, u, n) \in Seq(Free(m))
         /\ Entries(us, v, u, n) \in Seq(Token)
         /\ n = 0 => Entries(us, v, u, 1) = Entries(us, v, u, 0)
         /\ n # 0 => Edited(Entries(us, v, u, n), LinkEdit(u, n)) = Entries(us, v, u, n + 1)
         /\ n # 0 /\ n = Len(us[u].functions) + 1 => Entries(us, v, u, n) = Entries(us, v, u + 1, 0)
<1> DEFINE fs == Listed(us, v, u, n)
           start == <<FileEntry(v), Mark("FUNCTION_START")>>
           end == <<Mark("FUNCTION_END")>>
<1>1. fs \in Seq(Place)
  BY ListedFacts
<1>2. /\ Links(fs) \in Seq(Token)
      /\ \A m \in TokenName : m # "link" => Links(fs) \in Seq(Free(m))
  BY <1>1, LinksFacts
<1>3. /\ FileEntry(v) \in Token /\ Mark("FUNCTION_START") \in Token /\ Mark("FUNCTION_END") \in Token
      /\ \A m \in {"NAV_END", "FUNCTION_END", "TAB_PANEL_LIST_END"} :
           FileEntry(v) \in Free(m) /\ Mark("FUNCTION_START") \in Free(m)
      /\ \A m \in {"NAV_END", "TAB_PANEL_LIST_END"} : Mark("FUNCTION_END") \in Free(m)
  <2>1. /\ FileEntry(v) \in Token /\ Mark("FUNCTION_START") \in Token /\ Mark("FUNCTION_END") \in Token
    BY TokensTyped DEF TokenName
  <2> QED
    BY <2>1 DEF Free, FileEntry, Mark
<1>4. /\ \A m \in {"NAV_END", "FUNCTION_END", "TAB_PANEL_LIST_END"} : start \in Seq(Free(m))
      /\ start \in Seq(Token) /\ end \in Seq(Token)
      /\ \A m \in {"NAV_END", "TAB_PANEL_LIST_END"} : end \in Seq(Free(m))
  BY <1>3
<1> HIDE DEF start, end, fs
<1>5. Entries(us, v, u, n) = (start \o Links(fs)) \o end
  BY DEF Entries, start, end, fs
<1>6. Entries(us, v, u, n) \in Seq(Token)
  BY <1>2, <1>4, <1>5, ConcatProperties
<1>7. ASSUME NEW m \in {"NAV_END", "TAB_PANEL_LIST_END"} PROVE Entries(us, v, u, n) \in Seq(Free(m))
  <2>1. Links(fs) \in Seq(Free(m))
    BY <1>2 DEF TokenName
  <2>2. start \in Seq(Free(m)) /\ end \in Seq(Free(m))
    BY <1>4
  <2> QED
    BY <1>5, <2>1, <2>2, ConcatProperties
<1>8. n = 0 => Entries(us, v, u, 1) = Entries(us, v, u, 0)
  BY ListedFacts DEF Entries
<1>9. n # 0 /\ n = Len(us[u].functions) + 1 => Entries(us, v, u, n) = Entries(us, v, u + 1, 0)
  BY ListedFacts DEF Entries
<1>10. ASSUME n # 0 PROVE Edited(Entries(us, v, u, n), LinkEdit(u, n)) = Entries(us, v, u, n + 1)
  <2> DEFINE e == LinkEdit(u, n)
             put == <<Link(u, n)>>
  <2>1. u \in Nat /\ n \in Nat /\ <<u, n>> \in Place /\ <<u, n>>[1] = u /\ <<u, n>>[2] = n
    BY DEF At, Place
  <2>2. put \in Seq(Token)
    <3>1. Link(u, n) \in Token
      BY <2>1, TokensTyped
    <3> QED
      BY <3>1
  <2>3. IsEdit(e) /\ e.at = Mark("FUNCTION_END") /\ Edited(end, e) = put \o end
    BY <2>2, InsertIs DEF LinkEdit, end, TokenName
  <2>4. Edited(start, e) = start /\ Edited(Links(fs), e) = Links(fs)
    <3>1. start \in Seq(Free("FUNCTION_END"))
      BY <1>4
    <3>2. Links(fs) \in Seq(Free("FUNCTION_END"))
      BY <1>2 DEF TokenName
    <3> HIDE DEF e
    <3> QED
      BY <2>3, <3>1, <3>2, FreeKept
  <2>5. Listed(us, v, u, n + 1) = Append(fs, <<u, n>>)
    BY <1>10, ListedFacts DEF fs
  <2>6. Links(Listed(us, v, u, n + 1)) = Links(fs) \o put
    BY <1>1, <2>1, <2>5, LinksFacts
  <2>7. Entries(us, v, u, n + 1) = (start \o (Links(fs) \o put)) \o end
    BY <2>6 DEF Entries, start, end
  <2> HIDE DEF e, put
  <2>8. Edited((start \o Links(fs)) \o end, e) = (start \o Links(fs)) \o (put \o end)
    <3>1. start \o Links(fs) \in Seq(Token)
      BY <1>2, <1>4, ConcatProperties
    <3>2. Edited(start \o Links(fs), e) = start \o Links(fs)
      <4>1. PICK a \in Seq(Token), b \in Seq(Token) : a = start /\ b = Links(fs)
        BY <1>2, <1>4
      <4>2. Edited(a \o b, e) = Edited(a, e) \o Edited(b, e)
        BY <2>3, EditedConcat
      <4> QED
        BY <2>4, <4>1, <4>2
    <3> DEFINE a == start \o Links(fs)
    <3> HIDE DEF a
    <3>3. Edited(a \o end, e) = Edited(a, e) \o Edited(end, e)
      BY <1>4, <2>3, <3>1, EditedConcat DEF a
    <3> QED
      BY <2>3, <3>2, <3>3 DEF a, put
  <2>9. (start \o Links(fs)) \o (put \o end) = (start \o (Links(fs) \o put)) \o end
    <3>1. start \o Links(fs) \in Seq(Token)
      BY <1>2, <1>4, ConcatProperties
    <3>2. put \in Seq(Token)
      BY <2>2 DEF put
    <3>3. (start \o Links(fs)) \o (put \o end) = ((start \o Links(fs)) \o put) \o end
      <4>1. Assoc(start \o Links(fs), put, end)
        BY <1>4, <3>1, <3>2, TokenAssoc
      <4> QED
        BY <4>1, Zenon DEF Assoc
    <3>4. (start \o Links(fs)) \o put = start \o (Links(fs) \o put)
      <4>1. Assoc(start, Links(fs), put)
        BY <1>2, <1>4, <3>2, TokenAssoc
      <4> QED
        BY <4>1, Zenon DEF Assoc
    <3> QED
      BY <3>3, <3>4
  <2> QED
    BY <1>5, <2>7, <2>8, <2>9 DEF e
<1> QED
  BY <1>6, <1>7, <1>8, <1>9, <1>10

Chapters(us, k, u, n) == [v \in 1 .. k |-> Entries(us, v, u, n)]

LEMMA ChaptersType ==
  ASSUME NEW us, UnitsOK(us), NEW u, NEW n, At(us, u, n), NEW k \in Nat, k <= u
  PROVE  /\ Chapters(us, k, u, n) \in [1 .. k -> Seq(Token)]
         /\ Chapters(us, k, u, n) \in Seq(Seq(Token)) /\ Len(Chapters(us, k, u, n)) = k
         /\ \A m \in {"NAV_END", "TAB_PANEL_LIST_END"} : Chapters(us, k, u, n) \in Seq(Seq(Free(m)))
<1>1. u \in Nat
  BY DEF At
<1>2. \A v \in 1 .. k : v \in Nat \ {0} /\ v <= u
  BY <1>1
<1>3. \A v \in 1 .. k : Entries(us, v, u, n) \in Seq(Token)
  BY <1>2, EntriesFacts
<1>4. Chapters(us, k, u, n) \in [1 .. k -> Seq(Token)]
  BY <1>3 DEF Chapters
<1>5. ASSUME NEW m \in {"NAV_END", "TAB_PANEL_LIST_END"} PROVE Chapters(us, k, u, n) \in Seq(Seq(Free(m)))
  <2>1. \A v \in 1 .. k : Entries(us, v, u, n) \in Seq(Free(m))
    BY <1>2, EntriesFacts
  <2>2. Chapters(us, k, u, n) \in [1 .. k -> Seq(Free(m))]
    BY <2>1 DEF Chapters
  <2> QED
    BY <2>2, SeqDef
<1>6. Chapters(us, k, u, n) \in Seq(Seq(Token))
  BY <1>4, SeqDef
<1>7. Len(Chapters(us, k, u, n)) = k
  BY DEF Chapters
<1> QED
  BY <1>4, <1>5, <1>6, <1>7

LEMMA NavigationFacts ==
  ASSUME NEW us, UnitsOK(us), NEW u, NEW n, At(us, u, n)
  PROVE  /\ \A m \in {"NAV_END", "TAB_PANEL_LIST_END"} : Navigation(us, u, n) \in Seq(Free(m))
         /\ Navigation(us, u, n) \in Seq(Token)
         /\ n = 0 /\ u <= Len(us) =>
              Navigation(us, u, 1) = Navigation(us, u, 0) \o
                <<FileEntry(u), Mark("FUNCTION_START"), Mark("FUNCTION_END")>>
         /\ n # 0 => Edited(Navigation(us, u, n), LinkEdit(u, n)) = Navigation(us, u, n + 1)
         /\ n # 0 /\ n = Len(us[u].functions) + 1 => Navigation(us, u, n) = Navigation(us, u + 1, 0)
<1>1. u \in Nat \ {0} /\ n \in Nat
  BY DEF At
<1>2. PICK k \in Nat : k = IF n = 0 THEN u - 1 ELSE u
  BY <1>1
<1>3. k <= u /\ Navigation(us, u, n) = SX!FlattenSeq(Chapters(us, k, u, n))
  BY <1>1, <1>2 DEF Navigation, Chapters
<1>4. Navigation(us, u, n) \in Seq(Token)
  BY <1>3, ChaptersType, FlattenType
<1>5. ASSUME NEW m \in {"NAV_END", "TAB_PANEL_LIST_END"} PROVE Navigation(us, u, n) \in Seq(Free(m))
  BY <1>3, ChaptersType, FlattenType
<1>6. ASSUME n = 0, u <= Len(us)
      PROVE  Navigation(us, u, 1) = Navigation(us, u, 0) \o
                <<FileEntry(u), Mark("FUNCTION_START"), Mark("FUNCTION_END")>>
  <2> DEFINE x == <<FileEntry(u), Mark("FUNCTION_START"), Mark("FUNCTION_END")>>
  <2>1. At(us, u, 1)
    <3>1. u \in DOMAIN us /\ Len(us[u].functions) \in Nat
      BY <1>1, <1>6, LenProperties DEF UnitsOK
    <3> QED
      BY <1>1, <1>6, <3>1 DEF At
  <2>2. u = k + 1
    BY <1>1, <1>2, <1>6
  <2>3. Navigation(us, u, 1) = SX!FlattenSeq(Chapters(us, k + 1, u, 1))
    BY <2>2 DEF Navigation, Chapters
  <2>4. Chapters(us, k, u, 0) \in [1 .. k -> Seq(Token)] /\ Chapters(us, k, u, 0) \in Seq(Seq(Token))
    BY <1>3, <1>6, ChaptersType
  <2>5. Chapters(us, k + 1, u, 1) \in [1 .. k + 1 -> Seq(Token)]
    BY <2>1, <2>2, ChaptersType
  <2>6. \A v \in 1 .. k : Chapters(us, k + 1, u, 1)[v] = Chapters(us, k, u, 0)[v]
    <3>1. \A v \in 1 .. k : v \in Nat \ {0} /\ v <= u /\ v \in 1 .. k + 1
      BY <1>1, <2>2
    <3>2. \A v \in 1 .. k : Entries(us, v, u, 1) = Entries(us, v, u, 0)
      BY <1>6, <3>1, EntriesFacts
    <3> QED
      BY <3>1, <3>2 DEF Chapters
  <2>7. Chapters(us, k + 1, u, 1)[k + 1] = x
    <3>1. Listed(us, u, u, 1) = <<>>
      <4>1. Listed(us, u, u, 1) = Before(us, u, u)
        BY <1>1, <2>1, ListedFacts
      <4>2. Before(us, u, u) = <<>>
        BY <1>1, <1>6, BeforeFacts DEF UnitsOK
      <4> QED
        BY <4>1, <4>2
    <3>2. Links(<<>>) = <<>>
      BY DEF Links
    <3>3. Entries(us, u, u, 1) = (<<FileEntry(u), Mark("FUNCTION_START")>> \o <<>>) \o <<Mark("FUNCTION_END")>>
      BY <3>1, <3>2 DEF Entries
    <3>4. Entries(us, u, u, 1) = x
      BY <3>3
    <3> QED
      BY <2>2, <3>4 DEF Chapters
  <2> HIDE DEF x
  <2>8. Chapters(us, k + 1, u, 1) = Append(Chapters(us, k, u, 0), x) /\ x \in Seq(Token)
    BY <2>4, <2>5, <2>6, <2>7, LongerByOne
  <2>9. SX!FlattenSeq(Chapters(us, k + 1, u, 1)) = SX!FlattenSeq(Chapters(us, k, u, 0)) \o x
    BY <2>4, <2>8, FlattenAppend
  <2> QED
    BY <1>3, <1>6, <2>3, <2>9 DEF x
<1>7. ASSUME n # 0 PROVE Edited(Navigation(us, u, n), LinkEdit(u, n)) = Navigation(us, u, n + 1)
  <2> DEFINE e == LinkEdit(u, n)
             c == Chapters(us, u, u, n)
  <2>1. k = u
    BY <1>2, <1>7
  <2>2. IsEdit(e)
    <3>1. Link(u, n) \in Token
      BY <1>1, TokensTyped
    <3>2. <<Link(u, n)>> \in Seq(Token)
      BY <3>1
    <3> QED
      BY <3>2, InsertIs DEF LinkEdit, TokenName
  <2>3. c \in Seq(Seq(Token)) /\ Len(c) = u
    BY <1>1, <2>1, ChaptersType
  <2>4. \A v \in 1 .. u : Edited(c[v], e) = Entries(us, v, u, n + 1)
    <3>1. \A v \in 1 .. u : v \in Nat \ {0} /\ v <= u
      BY <1>1
    <3>2. \A v \in 1 .. u : Edited(Entries(us, v, u, n), e) = Entries(us, v, u, n + 1)
      BY <1>7, <3>1, EntriesFacts
    <3> QED
      BY <3>2 DEF Chapters
  <2> HIDE DEF e, c
  <2>5. Edited(SX!FlattenSeq(c), e) = SX!FlattenSeq([v \in 1 .. u |-> Edited(c[v], e)])
    BY <2>2, <2>3, EditedFlatten
  <2>6. [v \in 1 .. u |-> Edited(c[v], e)] = [v \in 1 .. u |-> Entries(us, v, u, n + 1)]
    BY <2>4
  <2>7. Navigation(us, u, n + 1) = SX!FlattenSeq([v \in 1 .. u |-> Entries(us, v, u, n + 1)])
    <3>1. n + 1 # 0
      BY <1>1
    <3> QED
      BY <3>1 DEF Navigation
  <2> QED
    BY <1>3, <2>1, <2>5, <2>6, <2>7 DEF c, e
<1>8. ASSUME n # 0, n = Len(us[u].functions) + 1 PROVE Navigation(us, u, n) = Navigation(us, u + 1, 0)
  <2>1. \A v \in 1 .. u : v \in Nat \ {0} /\ v <= u
    BY <1>1
  <2>2. \A v \in 1 .. u : Entries(us, v, u, n) = Entries(us, v, u + 1, 0)
    BY <1>8, <2>1, EntriesFacts
  <2>3. (u + 1) - 1 = u
    BY <1>1
  <2> QED
    BY <1>8, <2>2, <2>3 DEF Navigation
<1> QED
  BY <1>4, <1>5, <1>6, <1>7, <1>8

Twice(a, b, c, d) == (a \o b) \o (c \o d) = (a \o (b \o c)) \o d

LEMMA JoinTwice ==
  ASSUME NEW a \in Seq(Token), NEW b \in Seq(Token), NEW c \in Seq(Token), NEW d \in Seq(Token)
  PROVE  Twice(a, b, c, d)
<1>1. Assoc(a, b, c) /\ a \o b \in Seq(Token)
  BY TokenAssoc
<1>2. Assoc(a \o b, c, d)
  BY <1>1, TokenAssoc
<1>3. (a \o b) \o (c \o d) = ((a \o b) \o c) \o d
  BY <1>2, Zenon DEF Assoc
<1>4. (a \o b) \o c = a \o (b \o c)
  BY <1>1, Zenon DEF Assoc
<1> QED
  BY <1>3, <1>4, Zenon DEF Twice

LEMMA EditedPage ==
  ASSUME NEW x, IsEdit(x), NEW a \in Seq(Token), NEW b \in Seq(Token), NEW c \in Seq(Token),
         NEW d \in Seq(Token), NEW e \in Seq(Token)
  PROVE  /\ Whole(a, b, c, d, e) \in Seq(Token)
         /\ Edited(Whole(a, b, c, d, e), x) =
              Whole(Edited(a, x), Edited(b, x), Edited(c, x), Edited(d, x), Edited(e, x))
<1> DEFINE p == a \o b
           q == p \o c
           r == q \o d
<1>1. p \in Seq(Token)
  BY ConcatProperties
<1>2. Edited(p, x) = Edited(a, x) \o Edited(b, x)
  BY EditedConcat
<1> HIDE DEF p
<1>3. q \in Seq(Token)
  BY <1>1, ConcatProperties
<1>4. Edited(q, x) = Edited(p, x) \o Edited(c, x)
  BY <1>1, EditedConcat
<1> HIDE DEF q
<1>5. r \in Seq(Token)
  BY <1>3, ConcatProperties
<1>6. Edited(r, x) = Edited(q, x) \o Edited(d, x)
  BY <1>3, EditedConcat
<1> HIDE DEF r
<1>7. r \o e \in Seq(Token)
  BY <1>5, ConcatProperties
<1>8. Edited(r \o e, x) = Edited(r, x) \o Edited(e, x)
  BY <1>5, EditedConcat
<1> QED
  BY <1>2, <1>4, <1>6, <1>7, <1>8 DEF p, q, r, Whole

LEMMA PiecesTyped ==
  ASSUME NEW us, UnitsOK(us), NEW u, NEW n, At(us, u, n)
  PROVE  /\ Top \in Seq(Token) /\ Middle \in Seq(Token) /\ Bottom \in Seq(Token)
         /\ Navigation(us, u, n) \in Seq(Token)
         /\ Listed(us, 1, u, n) \in Seq(Place)
         /\ Panels(Listed(us, 1, u, n)) \in Seq(Token)
         /\ \A m \in {"NAV_END", "FUNCTION_END", "TAB_PANEL_LIST_END"} :
              Panels(Listed(us, 1, u, n)) \in Seq(Free(m))
<1>1. Top \in Seq(Free("FUNCTION_END")) /\ Middle \in Seq(Free("FUNCTION_END"))
      /\ Bottom \in Seq(Free("FUNCTION_END"))
  BY MarkTokens
<1>2. Top \in Seq(Token) /\ Middle \in Seq(Token) /\ Bottom \in Seq(Token)
  BY <1>1, FreeIsToken
<1>3. Navigation(us, u, n) \in Seq(Token)
  BY NavigationFacts
<1>4. Listed(us, 1, u, n) \in Seq(Place)
  <2>1. 1 \in Nat \ {0} /\ 1 <= u
    BY DEF At
  <2> QED
    BY <2>1, ListedFacts
<1>5. \A m \in {"NAV_END", "FUNCTION_END", "TAB_PANEL_LIST_END"} : m \in TokenName /\ m # "panel"
  BY DEF TokenName
<1> QED
  BY <1>2, <1>3, <1>4, <1>5, PanelsFacts

(* A file's entry: everything but the end of the navigation stays.         *)
LEMMA FileStep ==
  ASSUME NEW us, UnitsOK(us), NEW u, At(us, u, 0), u <= Len(us)
  PROVE  Edited(PageAt(us, u, 0), FileEdit(u)) = PageAt(us, u, 1)
<1> DEFINE x == FileEdit(u)
           put == <<FileEntry(u), Mark("FUNCTION_START"), Mark("FUNCTION_END")>>
           nav == Navigation(us, u, 0)
           fs == Listed(us, 1, u, 0)
           m == "NAV_END"
<1>1. u \in Nat \ {0} /\ 1 \in Nat \ {0} /\ 1 <= u
  BY DEF At
<1>2. put \in Seq(Token)
  <2>1. FileEntry(u) \in Token /\ Mark("FUNCTION_START") \in Token /\ Mark("FUNCTION_END") \in Token
    BY <1>1, TokensTyped DEF TokenName
  <2> QED
    BY <2>1
<1>3. m \in TokenName /\ m # "REMOVE_START" /\ m \in {"NAV_END", "FUNCTION_END", "TAB_PANEL_LIST_END"}
      /\ m \in {"NAV_END", "TAB_PANEL_LIST_END"}
  BY DEF TokenName
<1>4. IsEdit(x) /\ x.at = Mark(m)
  BY <1>2, <1>3, InsertIs DEF FileEdit
<1>5. Edited(Middle, x) = put \o Middle
  <2>1. <<Mark("text"), Mark("removed"), Mark("TAB_PANEL_LIST_START")>> \in Seq(Free(m))
    BY <1>3, MarkTokens
  <2> QED
    BY <1>2, <1>3, <2>1, MarksAre, InsertFront DEF FileEdit
<1>6. nav \in Seq(Free(m)) /\ Panels(fs) \in Seq(Free(m)) /\ Top \in Seq(Free(m)) /\ Bottom \in Seq(Free(m))
  <2>1. Top \in Seq(Free(m)) /\ Bottom \in Seq(Free(m))
    BY <1>3, MarkTokens
  <2>2. nav \in Seq(Free(m))
    BY <1>3, NavigationFacts
  <2> QED
    BY <1>3, <2>1, <2>2, PiecesTyped
<1>7. /\ Top \in Seq(Token) /\ Middle \in Seq(Token) /\ Bottom \in Seq(Token)
      /\ nav \in Seq(Token) /\ Panels(fs) \in Seq(Token)
  BY PiecesTyped
<1>8. Navigation(us, u, 1) = nav \o put
  BY NavigationFacts
<1>9. Listed(us, 1, u, 1) = fs
  BY <1>1, ListedFacts
<1> HIDE DEF x, put, nav, fs, m
<1>10. Edited(Top, x) = Top /\ Edited(nav, x) = nav /\ Edited(Panels(fs), x) = Panels(fs)
       /\ Edited(Bottom, x) = Bottom
  BY <1>4, <1>6, FreeKept
<1>11. Edited(Whole(Top, nav, Middle, Panels(fs), Bottom), x) =
       Whole(Top, nav, put \o Middle, Panels(fs), Bottom)
  <2>1. Edited(Whole(Top, nav, Middle, Panels(fs), Bottom), x) =
        Whole(Edited(Top, x), Edited(nav, x), Edited(Middle, x), Edited(Panels(fs), x), Edited(Bottom, x))
    BY <1>4, <1>7, EditedPage
  <2> QED
    BY <1>5, <1>10, <2>1
<1>12. Whole(Top, nav, put \o Middle, Panels(fs), Bottom) =
       Whole(Top, nav \o put, Middle, Panels(fs), Bottom)
  <2>1. (Top \o nav) \o (put \o Middle) = (Top \o (nav \o put)) \o Middle
    <3>1. Twice(Top, nav, put, Middle)
      BY <1>2, <1>7, JoinTwice
    <3> QED
      BY <3>1, Zenon DEF Twice
  <2> QED
    BY <2>1 DEF Whole
<1>13. PageAt(us, u, 1) = Whole(Top, nav \o put, Middle, Panels(fs), Bottom)
  BY <1>8, <1>9 DEF PageAt, put
<1>14. PageAt(us, u, 0) = Whole(Top, nav, Middle, Panels(fs), Bottom)
  BY DEF PageAt, nav, fs
<1> QED
  BY <1>11, <1>12, <1>13, <1>14 DEF x

(* A function's two entries: a link in every file listed so far, and one   *)
(* panel.                                                                  *)
LEMMA FunctionStep ==
  ASSUME NEW us, UnitsOK(us), NEW u, NEW n, At(us, u, n), n # 0, n <= Len(us[u].functions)
  PROVE  Edited(Edited(PageAt(us, u, n), LinkEdit(u, n)), PanelEdit(u, n)) = PageAt(us, u, n + 1)
<1> DEFINE x == LinkEdit(u, n)
           y == PanelEdit(u, n)
           put == <<Panel(u, n)>>
           nav == Navigation(us, u, n)
           then == Navigation(us, u, n + 1)
           fs == Listed(us, 1, u, n)
<1>1. u \in Nat \ {0} /\ n \in Nat /\ 1 \in Nat \ {0} /\ 1 <= u /\ <<u, n>> \in Place
      /\ <<u, n>>[1] = u /\ <<u, n>>[2] = n
  BY DEF At, Place
<1>2. At(us, u, n + 1)
  BY <1>1 DEF At, UnitsOK
<1>3. put \in Seq(Token) /\ <<Link(u, n)>> \in Seq(Token)
  <2>1. Panel(u, n) \in Token /\ Link(u, n) \in Token
    BY <1>1, TokensTyped
  <2> QED
    BY <2>1
<1>4. /\ IsEdit(x) /\ x.at = Mark("FUNCTION_END")
      /\ IsEdit(y) /\ y.at = Mark("TAB_PANEL_LIST_END")
  BY <1>3, InsertIs DEF LinkEdit, PanelEdit, TokenName
<1>5. Edited(Bottom, y) = put \o Bottom
  <2>1. <<Mark("text")>> \in Seq(Free("TAB_PANEL_LIST_END"))
    BY MarkTokens
  <2>2. Edited(<<Mark("TAB_PANEL_LIST_END")>> \o <<Mark("text")>>, y) =
        put \o (<<Mark("TAB_PANEL_LIST_END")>> \o <<Mark("text")>>)
    <3>1. "TAB_PANEL_LIST_END" \in TokenName /\ "TAB_PANEL_LIST_END" # "REMOVE_START"
      BY DEF TokenName
    <3> QED
      BY <1>3, <2>1, <3>1, InsertFront DEF PanelEdit
  <2>3. Bottom = <<Mark("TAB_PANEL_LIST_END")>> \o <<Mark("text")>>
    BY MarksAre
  <2> QED
    BY <2>2, <2>3
<1>6. /\ Top \in Seq(Token) /\ Middle \in Seq(Token) /\ Bottom \in Seq(Token)
      /\ nav \in Seq(Token) /\ Panels(fs) \in Seq(Token) /\ fs \in Seq(Place)
      /\ Panels(fs) \in Seq(Free("FUNCTION_END")) /\ Panels(fs) \in Seq(Free("TAB_PANEL_LIST_END"))
  BY PiecesTyped
<1>7. then \in Seq(Token) /\ then \in Seq(Free("TAB_PANEL_LIST_END"))
  BY <1>2, NavigationFacts
<1>8. Edited(nav, x) = then
  BY NavigationFacts, Zenon
<1>9. /\ Top \in Seq(Free("FUNCTION_END")) /\ Middle \in Seq(Free("FUNCTION_END"))
      /\ Bottom \in Seq(Free("FUNCTION_END"))
      /\ Top \in Seq(Free("TAB_PANEL_LIST_END")) /\ Middle \in Seq(Free("TAB_PANEL_LIST_END"))
  BY MarkTokens
<1>10. Panels(Listed(us, 1, u, n + 1)) = Panels(fs) \o put
  <2>1. Listed(us, 1, u, n + 1) = Append(fs, <<u, n>>)
    BY <1>1, ListedFacts
  <2> QED
    BY <1>1, <1>6, <2>1, PanelsFacts
<1> HIDE DEF x, y, put, nav, then, fs
<1>11. Edited(Top, x) = Top /\ Edited(Middle, x) = Middle /\ Edited(Panels(fs), x) = Panels(fs)
       /\ Edited(Bottom, x) = Bottom
  BY <1>4, <1>6, <1>9, FreeKept
<1>12. Edited(Whole(Top, nav, Middle, Panels(fs), Bottom), x) =
       Whole(Top, then, Middle, Panels(fs), Bottom)
  <2>1. Edited(Whole(Top, nav, Middle, Panels(fs), Bottom), x) =
        Whole(Edited(Top, x), Edited(nav, x), Edited(Middle, x), Edited(Panels(fs), x), Edited(Bottom, x))
    BY <1>4, <1>6, EditedPage
  <2> QED
    BY <1>8, <1>11, <2>1
<1>13. Edited(Top, y) = Top /\ Edited(Middle, y) = Middle /\ Edited(Panels(fs), y) = Panels(fs)
       /\ Edited(then, y) = then
  BY <1>4, <1>6, <1>7, <1>9, FreeKept
<1>14. Edited(Whole(Top, then, Middle, Panels(fs), Bottom), y) =
       Whole(Top, then, Middle, Panels(fs), put \o Bottom)
  <2>1. Edited(Whole(Top, then, Middle, Panels(fs), Bottom), y) =
        Whole(Edited(Top, y), Edited(then, y), Edited(Middle, y), Edited(Panels(fs), y), Edited(Bottom, y))
    BY <1>4, <1>6, <1>7, EditedPage
  <2> QED
    BY <1>5, <1>13, <2>1
<1>15. Whole(Top, then, Middle, Panels(fs), put \o Bottom) =
       Whole(Top, then, Middle, Panels(fs) \o put, Bottom)
  <2> DEFINE r == (Top \o then) \o Middle
  <2>1. r \in Seq(Token)
    BY <1>6, <1>7, ConcatProperties
  <2> HIDE DEF r
  <2>2. (r \o Panels(fs)) \o (put \o Bottom) = (r \o (Panels(fs) \o put)) \o Bottom
    <3>1. Twice(r, Panels(fs), put, Bottom)
      BY <1>3, <1>6, <2>1, JoinTwice
    <3> QED
      BY <3>1, Zenon DEF Twice
  <2> QED
    BY <2>2 DEF Whole, r
<1>16. PageAt(us, u, n + 1) = Whole(Top, then, Middle, Panels(fs) \o put, Bottom)
  BY <1>10 DEF PageAt, then
<1>17. PageAt(us, u, n) = Whole(Top, nav, Middle, Panels(fs), Bottom)
  BY DEF PageAt, nav, fs
<1> QED
  BY <1>12, <1>14, <1>15, <1>16, <1>17 DEF x, y

LEMMA DoneStep ==
  ASSUME NEW us, UnitsOK(us), NEW u, NEW n, At(us, u, n), n # 0, n = Len(us[u].functions) + 1
  PROVE  PageAt(us, u, n) = PageAt(us, u + 1, 0)
<1>1. 1 \in Nat \ {0} /\ 1 <= u
  BY DEF At
<1>2. Listed(us, 1, u, n) = Listed(us, 1, u + 1, 0)
  BY <1>1, ListedFacts
<1>3. Navigation(us, u, n) = Navigation(us, u + 1, 0)
  BY NavigationFacts
<1> QED
  BY <1>2, <1>3 DEF PageAt

(* Nothing more is listed at the end than FunctionsFrom says.              *)
LEMMA AllBefore ==
  ASSUME UnitsOK(units), NEW v \in 1 .. Len(units) + 1
  PROVE  Before(units, v, Len(units) + 1) = FunctionsFrom(v)
<1>1. PICK N \in Nat : Len(units) = N
  BY DEF UnitsOK
<1>2. (N + 1) - v = N - v + 1
  BY <1>1
<1> QED
  BY <1>1, <1>2, FlattenSame DEF Before, FunctionsFrom

LEMMA AllListed ==
  ASSUME UnitsOK(units), NEW v \in 1 .. Len(units) + 1
  PROVE  Listed(units, v, Len(units) + 1, 0) = FunctionsFrom(v)
<1>1. PICK N \in Nat : Len(units) = N
  BY DEF UnitsOK
<1>2. At(units, N + 1, 0)
  BY <1>1 DEF At
<1>3. Listed(units, v, N + 1, 0) = Before(units, v, N + 1)
  BY <1>1, <1>2, ListedFacts
<1>4. Before(units, v, N + 1) = FunctionsFrom(v)
  BY <1>1, AllBefore
<1> QED
  BY <1>1, <1>3, <1>4

(* Under each file the code lists its functions and those of all later     *)
(* files: FunctionsFrom(u) is the functions of u and what follows them.    *)
LEMMA OwnComeFirst ==
  ASSUME UnitsOK(units), NEW u \in 1 .. Len(units)
  PROVE  /\ Links(FunctionsFrom(u)) = Links(OwnFunctions(u)) \o Links(FunctionsFrom(u + 1))
         /\ Links(OwnFunctions(u)) \in Seq(Token) /\ Links(FunctionsFrom(u + 1)) \in Seq(Token)
<1>1. PICK N \in Nat : Len(units) = N /\ DOMAIN units = 1 .. N
  BY DEF UnitsOK
<1>2. u \in Nat \ {0} /\ u + 1 \in 1 .. N + 1 /\ u \in 1 .. N + 1 /\ u <= N
  BY <1>1
<1>3. FunctionsFrom(u) = Before(units, u, N + 1) /\ FunctionsFrom(u + 1) = Before(units, u + 1, N + 1)
  BY <1>1, <1>2, AllBefore
<1>4. \A v \in Nat : u + 1 <= v /\ v <= N + 1 =>
        Before(units, u, v) = Own(units, u) \o Before(units, u + 1, v)
  <2> DEFINE T == {m \in Nat : u + 1 + m <= N + 1 =>
                     Before(units, u, u + 1 + m) = Own(units, u) \o Before(units, u + 1, u + 1 + m)}
  <2>0. Own(units, u) \in Seq(Place)
    BY <1>1, OwnType
  <2>1. 0 \in T
    <3>1. Before(units, u, u) = <<>> /\ Before(units, u, u + 1) = Before(units, u, u) \o Own(units, u)
      BY <1>1, <1>2, BeforeFacts
    <3>2. Before(units, u + 1, u + 1) = <<>>
      BY <1>1, <1>2, BeforeFacts
    <3>3. <<>> \o Own(units, u) = Own(units, u) /\ Own(units, u) \o <<>> = Own(units, u)
      BY <2>0, ConcatEmptySeq
    <3>4. u + 1 + 0 = u + 1
      BY <1>2
    <3> QED
      BY <3>1, <3>2, <3>3, <3>4
  <2>2. ASSUME NEW m \in Nat, m \in T PROVE m + 1 \in T
    <3> SUFFICES ASSUME u + 1 + (m + 1) <= N + 1
                 PROVE  Before(units, u, u + 1 + (m + 1))
                          = Own(units, u) \o Before(units, u + 1, u + 1 + (m + 1))
      OBVIOUS
    <3>1. PICK w \in Nat : w = u + 1 + m /\ u + 1 + (m + 1) = w + 1 /\ w <= N /\ w \in 1 .. N
                           /\ u <= w /\ u + 1 <= w /\ w <= N + 1 /\ u + 1 \in Nat \ {0}
      BY <1>2
    <3>2. Before(units, u, w) = Own(units, u) \o Before(units, u + 1, w)
      BY <2>2, <3>1
    <3>3. Before(units, u, w + 1) = Before(units, u, w) \o Own(units, w)
      BY <1>1, <1>2, <3>1, BeforeFacts
    <3>4. /\ Before(units, u + 1, w) \in Seq(Place)
          /\ Before(units, u + 1, w + 1) = Before(units, u + 1, w) \o Own(units, w)
      BY <1>1, <3>1, BeforeFacts
    <3>5. Own(units, w) \in Seq(Place)
      BY <1>1, <3>1, OwnType
    <3>6. Assoc(Own(units, u), Before(units, u + 1, w), Own(units, w))
      BY <2>0, <3>4, <3>5, PlaceAssoc
    <3>7. Before(units, u, w + 1) = Own(units, u) \o Before(units, u + 1, w + 1)
      BY <3>2, <3>3, <3>4, <3>6, Zenon DEF Assoc
    <3> QED
      BY <3>1, <3>7, Zenon
  <2> HIDE DEF T
  <2>3. \A m \in Nat : m \in T
    BY <2>1, <2>2, AllNumbers
  <2>4. TAKE v \in Nat
  <2>5. HAVE u + 1 <= v /\ v <= N + 1
  <2>6. PICK m \in Nat : v = u + 1 + m
    <3>1. v - (u + 1) \in Nat /\ v = u + 1 + (v - (u + 1))
      BY <1>2, <2>5
    <3> QED
      BY <3>1
  <2> QED
    BY <2>3, <2>5, <2>6 DEF T
<1>5. FunctionsFrom(u) = Own(units, u) \o FunctionsFrom(u + 1)
  BY <1>1, <1>2, <1>3, <1>4
<1>6. Own(units, u) \in Seq(Place) /\ FunctionsFrom(u + 1) \in Seq(Place)
  BY <1>1, <1>2, <1>3, OwnType, BeforeFacts
<1>7. Own(units, u) = OwnFunctions(u)
  BY DEF Own, OwnFunctions
<1> QED
  BY <1>5, <1>6, <1>7, LinksConcat, LinksFacts

ListOf(u) == <<FileEntry(u), Mark("FUNCTION_START")>> \o Links(FunctionsFrom(u)) \o <<Mark("FUNCTION_END")>>
CodeList  == SQ!FlattenSeq([u \in DOMAIN units |-> ListOf(u)])

LEMMA WholeAtTheEnd ==
  ASSUME UnitsOK(units)
  PROVE  PageAt(units, Len(units) + 1, 0) =
           Marks(<<"title", "index.css", "text", "header", "text", "removed", "NAV_START">>)
           \o CodeList
           \o Marks(<<"NAV_END", "text", "removed", "TAB_PANEL_LIST_START">>)
           \o Panels(FunctionsFrom(1))
           \o Marks(<<"TAB_PANEL_LIST_END", "text">>)
<1>1. PICK N \in Nat : Len(units) = N /\ DOMAIN units = 1 .. N
  BY DEF UnitsOK
<1>2. At(units, N + 1, 0) /\ 1 \in 1 .. N + 1 /\ \A v \in 1 .. N : v \in 1 .. N + 1 /\ v \in Nat /\ v <= N + 1
  BY <1>1 DEF At
<1>3. Listed(units, 1, N + 1, 0) = FunctionsFrom(1)
  BY <1>1, <1>2, AllListed
<1>4. Navigation(units, N + 1, 0) = CodeList
  <2>1. \A v \in 1 .. N : Listed(units, v, N + 1, 0) = FunctionsFrom(v)
    BY <1>1, <1>2, AllListed
  <2> DEFINE F(v) == <<FileEntry(v), Mark("FUNCTION_START")>> \o Links(FunctionsFrom(v)) \o <<Mark("FUNCTION_END")>>
  <2>2. \A v \in 1 .. N : Entries(units, v, N + 1, 0) = F(v)
    BY <2>1 DEF Entries
  <2>3. Navigation(units, N + 1, 0) = SX!FlattenSeq([v \in 1 .. N |-> Entries(units, v, N + 1, 0)])
    BY DEF Navigation
  <2>4. CodeList = SX!FlattenSeq([v \in 1 .. N |-> F(v)])
    BY <1>1, FlattenSame DEF CodeList, ListOf
  <2> HIDE DEF F
  <2>5. [v \in 1 .. N |-> Entries(units, v, N + 1, 0)] = [v \in 1 .. N |-> F(v)]
    BY <2>2
  <2> QED
    BY <2>3, <2>4, <2>5
<1> QED
  BY <1>1, <1>3, <1>4 DEF PageAt, Whole, Top, Middle, Bottom

-----------------------------------------------------------------------------
(* The edits that do not depend on the program, on the template.           *)

Opening == <<Mark("@INDEX_TITLE@"), Mark("index.template.css"), Mark("text"),
             Mark("@REPORT_HEADER@"), Mark("text")>>
Navi    == <<Mark("NAV_START"), Mark("NAV_END"), Mark("text")>>
Tabs    == <<Mark("TAB_PANEL_LIST_START"), Mark("TAB_PANEL_LIST_END"), Mark("text")>>
Gone    == <<Mark("removed")>>

LEMMA TemplateIs ==
  Template = << Mark("@INDEX_TITLE@"), Mark("index.template.css"), Mark("text"),
                Mark("@REPORT_HEADER@"), Mark("text"),
                Mark("REMOVE_START"), Mark("sample"), Mark("REMOVE_END"),
                Mark("NAV_START"), Mark("NAV_END"), Mark("text"),
                Mark("REMOVE_START"), Mark("sample"), Mark("REMOVE_END"),
                Mark("TAB_PANEL_LIST_START"), Mark("TAB_PANEL_LIST_END"), Mark("text") >>
  BY DEF Template, Marks

LEMMA StartTyped ==
  /\ Opening \in Seq(Token) /\ Navi \in Seq(Token) /\ Tabs \in Seq(Token) /\ Gone \in Seq(Token)
  /\ Template \in Seq(Token)
<1>1. \A m \in TokenName : Mark(m) \in Token
  BY TokensTyped
<1>2. /\ Mark("@INDEX_TITLE@") \in Token /\ Mark("index.template.css") \in Token
      /\ Mark("text") \in Token /\ Mark("@REPORT_HEADER@") \in Token
      /\ Mark("NAV_START") \in Token /\ Mark("NAV_END") \in Token
      /\ Mark("TAB_PANEL_LIST_START") \in Token /\ Mark("TAB_PANEL_LIST_END") \in Token
      /\ Mark("removed") \in Token /\ Mark("REMOVE_START") \in Token /\ Mark("sample") \in Token
      /\ Mark("REMOVE_END") \in Token
  BY <1>1 DEF TokenName
<1>3. Opening \in Seq(Token) /\ Navi \in Seq(Token) /\ Tabs \in Seq(Token) /\ Gone \in Seq(Token)
  BY <1>2 DEF Opening, Navi, Tabs, Gone
<1>4. Template \in Seq(Token)
  BY <1>2, TemplateIs
<1> QED
  BY <1>3, <1>4

Flat(B, k) == SX!FlattenSeq([i \in 1 .. k |-> B[i]])

LEMMA FlattenPrefix ==
  ASSUME NEW S, NEW N \in Nat, NEW B \in [1 .. N -> Seq(S)]
  PROVE  /\ \A k \in 0 .. N - 1 : Flat(B, k + 1) = Flat(B, k) \o B[k + 1]
         /\ \A k \in 0 .. N : Flat(B, k) \in Seq(S)
<1> DEFINE P(k) == [i \in 1 .. k |-> B[i]]
<1>1. ASSUME NEW k \in 0 .. N PROVE P(k) \in [1 .. k -> Seq(S)] /\ P(k) \in Seq(Seq(S))
  <2>1. P(k) \in [1 .. k -> Seq(S)]
    OBVIOUS
  <2> HIDE DEF P
  <2> QED
    BY <2>1, SeqDef
<1>2. ASSUME NEW k \in 0 .. N - 1 PROVE SX!FlattenSeq(P(k + 1)) = SX!FlattenSeq(P(k)) \o B[k + 1]
  <2>1. k \in 0 .. N /\ k + 1 \in 0 .. N /\ k \in Nat
    OBVIOUS
  <2>2. \A i \in 1 .. k : P(k + 1)[i] = P(k)[i]
    OBVIOUS
  <2>3. P(k + 1)[k + 1] = B[k + 1]
    OBVIOUS
  <2>4. P(k) \in [1 .. k -> Seq(S)] /\ P(k + 1) \in [1 .. k + 1 -> Seq(S)] /\ P(k) \in Seq(Seq(S))
    BY <1>1, <2>1
  <2> HIDE DEF P
  <2>5. P(k + 1) = Append(P(k), B[k + 1]) /\ B[k + 1] \in Seq(S)
    BY <2>1, <2>2, <2>3, <2>4, LongerByOne
  <2> QED
    BY <2>4, <2>5, FlattenAppend
<1>3. \A k \in 0 .. N : SX!FlattenSeq(P(k)) \in Seq(S)
  <2> HIDE DEF P
  <2> QED
    BY <1>1, FlattenType
<1> QED
  BY <1>2, <1>3 DEF Flat

Three(p, a, b, c) == ((p \o <<a>>) \o <<b>>) \o <<c>> = p \o <<a, b, c>>

LEMMA JoinThree ==
  ASSUME NEW p \in Seq(Token), NEW a \in Token, NEW b \in Token, NEW c \in Token
  PROVE  Three(p, a, b, c)
<1>1. <<a>> \in Seq(Token) /\ <<b>> \in Seq(Token) /\ <<c>> \in Seq(Token) /\ <<a, b>> \in Seq(Token)
  OBVIOUS
<1>2. <<a, b>> = Append(<<a>>, b) /\ <<a, b, c>> = Append(<<a, b>>, c)
  OBVIOUS
<1>3. <<a>> \o <<b>> = <<a, b>> /\ <<a, b>> \o <<c>> = <<a, b, c>>
  BY <1>1, <1>2, AppendIsConcat
<1>4. (p \o <<a>>) \o <<b>> = p \o (<<a>> \o <<b>>)
  BY <1>1, ConcatAssociative
<1>5. (p \o <<a, b>>) \o <<c>> = p \o (<<a, b>> \o <<c>>)
  BY <1>1, ConcatAssociative
<1> QED
  BY <1>3, <1>4, <1>5, Zenon DEF Three

Five(a, b, c, d, e) == ((((<<>> \o <<a>>) \o <<b>>) \o <<c>>) \o <<d>>) \o <<e>>

LEMMA JoinFive ==
  ASSUME NEW a \in Token, NEW b \in Token, NEW c \in Token, NEW d \in Token, NEW e \in Token
  PROVE  Five(a, b, c, d, e) = <<a, b, c, d, e>>
<1>1. <<a, b, c, d, e>> = Append(<<a, b, c, d>>, e)
  OBVIOUS
<1>2. <<a, b, c, d>> = Append(<<a, b, c>>, d)
  OBVIOUS
<1>3. <<a, b, c, d>> \in Seq(Token) /\ <<a, b, c>> \in Seq(Token) /\ <<>> \in Seq(Token)
  OBVIOUS
<1>4. <<>> \o <<a, b, c>> = <<a, b, c>>
  BY <1>3, ConcatEmptySeq
<1>5. ((<<>> \o <<a>>) \o <<b>>) \o <<c>> = <<a, b, c>>
  <2>1. ((<<>> \o <<a>>) \o <<b>>) \o <<c>> = <<>> \o <<a, b, c>>
    <3>1. Three(<<>>, a, b, c)
      BY <1>3, JoinThree
    <3> QED
      BY <3>1, Zenon DEF Three
  <2> QED
    BY <1>4, <2>1, Zenon
<1>6. <<a, b, c>> \o <<d>> = <<a, b, c, d>>
  BY <1>2, <1>3, AppendIsConcat
<1>7. <<a, b, c, d>> \o <<e>> = <<a, b, c, d, e>>
  BY <1>1, <1>3, AppendIsConcat
<1> QED
  BY <1>5, <1>6, <1>7, Zenon DEF Five

LEMMA FlattenThree ==
  ASSUME NEW S, NEW N \in Nat, NEW B \in [1 .. N -> Seq(S)], NEW k \in Nat, k + 3 <= N
  PROVE  Flat(B, k + 3) = ((Flat(B, k) \o B[k + 1]) \o B[k + 2]) \o B[k + 3]
<1>1. k \in 0 .. N - 1 /\ k + 1 \in 0 .. N - 1 /\ k + 2 \in 0 .. N - 1
  OBVIOUS
<1>2. Flat(B, k + 1) = Flat(B, k) \o B[k + 1]
  BY <1>1, FlattenPrefix
<1>3. Flat(B, (k + 1) + 1) = Flat(B, k + 1) \o B[(k + 1) + 1]
  BY <1>1, FlattenPrefix
<1>4. Flat(B, (k + 2) + 1) = Flat(B, k + 2) \o B[(k + 2) + 1]
  BY <1>1, FlattenPrefix
<1>5. (k + 1) + 1 = k + 2 /\ (k + 2) + 1 = k + 3
  OBVIOUS
<1> QED
  BY <1>2, <1>3, <1>4, <1>5, Zenon

(* The regions for development go, and only they.                          *)
Cleared(n) == IF Template[n] = Removal.at THEN Removal.put
              ELSE IF Removed(Template, n) THEN <<>> ELSE <<Template[n]>>
Pieces     == [n \in 1 .. 17 |-> Cleared(n)]

LEMMA RegionsRemoved ==
  Edited(Template, Removal) = (((Opening \o Gone) \o Navi) \o Gone) \o Tabs
<1> DEFINE p == Template
<1>1. DOMAIN p = 1 .. 17 /\ Removal.at = Mark("REMOVE_START") /\ Removal.put = Gone
  BY TemplateIs DEF Removal, Marks, Gone
<1>2. /\ \A n \in 1 .. 17 : p[n] = Removal.at <=> n \in {6, 12}
      /\ \A n \in 1 .. 17 : p[n] = Mark("REMOVE_END") <=> n \in {8, 14}
  BY TemplateIs DEF Removal, Mark
<1>3. \A n \in {7, 8, 13, 14} : Removed(p, n)
  <2>1. Removed(p, 7) /\ Removed(p, 8)
    <3>1. 6 \in 1 .. 7 /\ 6 \in 1 .. 8 /\ p[6] = Removal.at
      BY <1>2
    <3>2. \A k \in 6 .. 7 : p[k] # Mark("REMOVE_END")
      BY <1>2
    <3> HIDE DEF p
    <3> QED
      BY <3>1, <3>2 DEF Removed
  <2>2. Removed(p, 13) /\ Removed(p, 14)
    <3>1. 12 \in 1 .. 13 /\ 12 \in 1 .. 14 /\ p[12] = Removal.at
      BY <1>2
    <3>2. \A k \in 12 .. 13 : p[k] # Mark("REMOVE_END")
      BY <1>2
    <3> HIDE DEF p
    <3> QED
      BY <3>1, <3>2 DEF Removed
  <2> QED
    BY <2>1, <2>2
<1>4. \A n \in (1 .. 5) \cup (9 .. 11) \cup (15 .. 17) : ~Removed(p, n)
  <2> TAKE n \in (1 .. 5) \cup (9 .. 11) \cup (15 .. 17)
  <2> SUFFICES ASSUME NEW m \in 1 .. n, p[m] = Removal.at, \A k \in m .. n - 1 : p[k] # Mark("REMOVE_END")
               PROVE  FALSE
    BY DEF Removed
  <2>1. m \in {6, 12}
    BY <1>2
  <2>2. p[8] = Mark("REMOVE_END") /\ p[14] = Mark("REMOVE_END")
    BY <1>2
  <2> HIDE DEF p
  <2>3. CASE m = 6
    <3>1. 8 \in m .. n - 1
      BY <2>3
    <3> QED
      BY <2>2, <3>1
  <2>4. CASE m = 12
    <3>1. 14 \in m .. n - 1
      BY <2>4
    <3> QED
      BY <2>2, <3>1
  <2> QED
    BY <2>1, <2>3, <2>4
<1>5. /\ Cleared(1) = <<Mark("@INDEX_TITLE@")>> /\ Cleared(2) = <<Mark("index.template.css")>>
      /\ Cleared(3) = <<Mark("text")>> /\ Cleared(4) = <<Mark("@REPORT_HEADER@")>> /\ Cleared(5) = <<Mark("text")>>
      /\ Cleared(6) = Gone /\ Cleared(7) = <<>> /\ Cleared(8) = <<>>
      /\ Cleared(9) = <<Mark("NAV_START")>> /\ Cleared(10) = <<Mark("NAV_END")>> /\ Cleared(11) = <<Mark("text")>>
      /\ Cleared(12) = Gone /\ Cleared(13) = <<>> /\ Cleared(14) = <<>>
      /\ Cleared(15) = <<Mark("TAB_PANEL_LIST_START")>> /\ Cleared(16) = <<Mark("TAB_PANEL_LIST_END")>>
      /\ Cleared(17) = <<Mark("text")>>
  <2>1. \A n \in {6, 12} : Cleared(n) = Gone
    BY <1>1, <1>2 DEF Cleared
  <2>2. \A n \in {7, 8, 13, 14} : Cleared(n) = <<>>
    BY <1>2, <1>3 DEF Cleared
  <2>3. \A n \in (1 .. 5) \cup (9 .. 11) \cup (15 .. 17) : Cleared(n) = <<p[n]>>
    BY <1>2, <1>4 DEF Cleared
  <2>4. /\ p[1] = Mark("@INDEX_TITLE@") /\ p[2] = Mark("index.template.css")
        /\ p[3] = Mark("text") /\ p[4] = Mark("@REPORT_HEADER@") /\ p[5] = Mark("text")
        /\ p[9] = Mark("NAV_START") /\ p[10] = Mark("NAV_END") /\ p[11] = Mark("text")
        /\ p[15] = Mark("TAB_PANEL_LIST_START") /\ p[16] = Mark("TAB_PANEL_LIST_END")
        /\ p[17] = Mark("text")
    BY TemplateIs
  <2> HIDE DEF p
  <2>5. /\ Cleared(1) = <<p[1]>> /\ Cleared(2) = <<p[2]>> /\ Cleared(3) = <<p[3]>> /\ Cleared(4) = <<p[4]>> /\ Cleared(5) = <<p[5]>>
        /\ Cleared(9) = <<p[9]>> /\ Cleared(10) = <<p[10]>> /\ Cleared(11) = <<p[11]>>
        /\ Cleared(15) = <<p[15]>> /\ Cleared(16) = <<p[16]>> /\ Cleared(17) = <<p[17]>>
    BY <2>3
  <2> QED
    BY <2>1, <2>2, <2>4, <2>5
<1>6. Edited(p, Removal) = Flat(Pieces, 17)
  <2>1. [n \in 1 .. 17 |-> Pieces[n]] = [n \in 1 .. 17 |-> Cleared(n)]
    BY DEF Pieces
  <2>2. Edited(p, Removal) = SX!FlattenSeq([n \in 1 .. 17 |-> Cleared(n)])
    BY <1>1, FlattenSame DEF Edited, Cleared
  <2> QED
    BY <2>1, <2>2 DEF Flat
<1>7. \A n \in 1 .. 17 : Cleared(n) \in Seq(Token)
  <2>1. \A n \in 1 .. 17 : <<p[n]>> \in Seq(Token)
    <3>1. \A n \in 1 .. 17 : p[n] \in Token
      <4>1. p \in Seq(Token)
        BY StartTyped
      <4> HIDE DEF p
      <4>2. Len(p) = 17
        BY <1>1, <4>1, LenProperties
      <4> QED
        BY <4>1, <4>2, ElementOfSeq
    <3> HIDE DEF p
    <3> QED
      BY <3>1
  <2>2. Gone \in Seq(Token) /\ <<>> \in Seq(Token)
    BY StartTyped
  <2> HIDE DEF p
  <2> SUFFICES ASSUME NEW n \in 1 .. 17 PROVE Cleared(n) \in Seq(Token)
    OBVIOUS
  <2>3. Cleared(n) = Gone \/ Cleared(n) = <<>> \/ Cleared(n) = <<p[n]>>
    BY <1>1 DEF Cleared, p
  <2> QED
    BY <2>1, <2>2, <2>3
<1> HIDE DEF p
<1>8. Pieces \in [1 .. 17 -> Seq(Token)]
  BY <1>7 DEF Pieces
<1>9. \A n \in 1 .. 17 : Pieces[n] = Cleared(n)
  BY DEF Pieces
<1>10. \A k \in 0 .. 17 : Flat(Pieces, k) \in Seq(Token)
  BY <1>8, FlattenPrefix
<1>11. Flat(Pieces, 0) = <<>>
  <2>1. [n \in 1 .. 0 |-> Pieces[n]] = <<>>
    OBVIOUS
  <2> QED
    BY <2>1, FlattenEmpty DEF Flat
<1>12. ASSUME NEW k \in 0 .. 14
       PROVE  Flat(Pieces, k + 3) = ((Flat(Pieces, k) \o Cleared(k + 1)) \o Cleared(k + 2)) \o Cleared(k + 3)
  <2>1. k \in Nat /\ k + 3 <= 17 /\ k + 1 \in 1 .. 17 /\ k + 2 \in 1 .. 17 /\ k + 3 \in 1 .. 17
    OBVIOUS
  <2>2. Flat(Pieces, k + 3) = ((Flat(Pieces, k) \o Pieces[k + 1]) \o Pieces[k + 2]) \o Pieces[k + 3]
    BY <1>8, <2>1, FlattenThree
  <2> QED
    BY <1>9, <2>1, <2>2, Zenon
<1>13. Flat(Pieces, 5) = Opening
  <2>1. /\ Mark("@INDEX_TITLE@") \in Token /\ Mark("index.template.css") \in Token
        /\ Mark("text") \in Token /\ Mark("@REPORT_HEADER@") \in Token
    BY TokensTyped DEF TokenName
  <2>2. Flat(Pieces, 1) = <<>> \o Cleared(1) /\ Flat(Pieces, 2) = Flat(Pieces, 1) \o Cleared(2)
    <3>1. 0 \in 0 .. 17 - 1 /\ 1 \in 0 .. 17 - 1 /\ 0 + 1 = 1 /\ 1 + 1 = 2
          /\ Pieces[1] = Cleared(1) /\ Pieces[2] = Cleared(2)
      BY <1>9
    <3>0. \A k \in 0 .. 17 - 1 : Flat(Pieces, k + 1) = Flat(Pieces, k) \o Pieces[k + 1]
      BY <1>8, FlattenPrefix
    <3>2. Flat(Pieces, 0 + 1) = Flat(Pieces, 0) \o Pieces[0 + 1]
      BY <3>0, <3>1, Zenon
    <3>3. Flat(Pieces, 1 + 1) = Flat(Pieces, 1) \o Pieces[1 + 1]
      BY <3>0, <3>1, Zenon
    <3> QED
      BY <1>11, <3>1, <3>2, <3>3, Zenon
  <2>3. Flat(Pieces, 2 + 3) = ((Flat(Pieces, 2) \o Cleared(2 + 1)) \o Cleared(2 + 2)) \o Cleared(2 + 3)
    <3>1. 2 \in 0 .. 14
      OBVIOUS
    <3> QED
      BY <1>12, <3>1, Zenon
  <2>4. 2 + 1 = 3 /\ 2 + 2 = 4 /\ 2 + 3 = 5
    OBVIOUS
  <2>5. Flat(Pieces, 5) = ((((<<>> \o Cleared(1)) \o Cleared(2)) \o Cleared(3)) \o Cleared(4)) \o Cleared(5)
    BY <2>2, <2>3, <2>4, Zenon
  <2>6. Five(Mark("@INDEX_TITLE@"), Mark("index.template.css"), Mark("text"),
             Mark("@REPORT_HEADER@"), Mark("text")) = Opening
    BY <2>1, JoinFive DEF Opening
  <2> QED
    BY <1>5, <2>5, <2>6, Zenon DEF Five
<1>14. Flat(Pieces, 8) = Opening \o Gone
  <2>1. Flat(Pieces, 5 + 3) = ((Flat(Pieces, 5) \o Cleared(5 + 1)) \o Cleared(5 + 2)) \o Cleared(5 + 3)
    <3>1. 5 \in 0 .. 14
      OBVIOUS
    <3> QED
      BY <1>12, <3>1, Zenon
  <2>2. 5 + 1 = 6 /\ 5 + 2 = 7 /\ 5 + 3 = 8
    OBVIOUS
  <2>3. Flat(Pieces, 8) = ((Opening \o Gone) \o <<>>) \o <<>>
    BY <1>5, <1>13, <2>1, <2>2, Zenon
  <2>4. Opening \o Gone \in Seq(Token)
    BY StartTyped, ConcatProperties
  <2> QED
    BY <2>3, <2>4, ConcatEmptySeq
<1>15. Flat(Pieces, 11) = (Opening \o Gone) \o Navi
  <2>1. Flat(Pieces, 8 + 3) = ((Flat(Pieces, 8) \o Cleared(8 + 1)) \o Cleared(8 + 2)) \o Cleared(8 + 3)
    <3>1. 8 \in 0 .. 14
      OBVIOUS
    <3> QED
      BY <1>12, <3>1, Zenon
  <2>2. 8 + 1 = 9 /\ 8 + 2 = 10 /\ 8 + 3 = 11
    OBVIOUS
  <2>3. Flat(Pieces, 11) = (((Opening \o Gone) \o <<Mark("NAV_START")>>) \o <<Mark("NAV_END")>>) \o <<Mark("text")>>
    BY <1>5, <1>14, <2>1, <2>2, Zenon
  <2>4. Opening \o Gone \in Seq(Token)
    BY StartTyped, ConcatProperties
  <2>5. Mark("NAV_START") \in Token /\ Mark("NAV_END") \in Token /\ Mark("text") \in Token
    BY TokensTyped DEF TokenName
  <2> QED
    BY <2>3, <2>4, <2>5, JoinThree DEF Navi, Three
<1>16. Flat(Pieces, 14) = ((Opening \o Gone) \o Navi) \o Gone
  <2>1. Flat(Pieces, 11 + 3) = ((Flat(Pieces, 11) \o Cleared(11 + 1)) \o Cleared(11 + 2)) \o Cleared(11 + 3)
    <3>1. 11 \in 0 .. 14
      OBVIOUS
    <3> QED
      BY <1>12, <3>1, Zenon
  <2>2. 11 + 1 = 12 /\ 11 + 2 = 13 /\ 11 + 3 = 14
    OBVIOUS
  <2>3. Flat(Pieces, 14) = ((((Opening \o Gone) \o Navi) \o Gone) \o <<>>) \o <<>>
    BY <1>5, <1>15, <2>1, <2>2, Zenon
  <2>4. Opening \o Gone \in Seq(Token)
    BY StartTyped, ConcatProperties
  <2>5. (Opening \o Gone) \o Navi \in Seq(Token)
    BY <2>4, StartTyped, ConcatProperties
  <2>6. ((Opening \o Gone) \o Navi) \o Gone \in Seq(Token)
    BY <2>5, StartTyped, ConcatProperties
  <2> QED
    BY <2>3, <2>6, ConcatEmptySeq
<1>17. Flat(Pieces, 17) = (((Opening \o Gone) \o Navi) \o Gone) \o Tabs
  <2>1. Flat(Pieces, 14 + 3) = ((Flat(Pieces, 14) \o Cleared(14 + 1)) \o Cleared(14 + 2)) \o Cleared(14 + 3)
    <3>1. 14 \in 0 .. 14
      OBVIOUS
    <3> QED
      BY <1>12, <3>1, Zenon
  <2>2. 14 + 1 = 15 /\ 14 + 2 = 16 /\ 14 + 3 = 17
    OBVIOUS
  <2>3. Flat(Pieces, 17) = ((Flat(Pieces, 14) \o <<Mark("TAB_PANEL_LIST_START")>>)
                            \o <<Mark("TAB_PANEL_LIST_END")>>) \o <<Mark("text")>>
    BY <1>5, <2>1, <2>2, Zenon
  <2>4. Flat(Pieces, 14) \in Seq(Token)
    BY <1>10
  <2>5. Mark("TAB_PANEL_LIST_START") \in Token /\ Mark("TAB_PANEL_LIST_END") \in Token /\ Mark("text") \in Token
    BY TokensTyped DEF TokenName
  <2>6. Flat(Pieces, 17) = Flat(Pieces, 14) \o Tabs
    BY <2>3, <2>4, <2>5, JoinThree DEF Tabs, Three
  <2> QED
    BY <1>16, <2>6
<1> QED
  BY <1>6, <1>17 DEF p

LEMMA WholeOfOnes ==
  ASSUME NEW a \in Token, NEW b \in Token, NEW c \in Token, NEW d \in Token, NEW e \in Token
  PROVE  Whole(<<a>>, <<b>>, <<c>>, <<d>>, <<e>>) = <<a, b, c, d, e>>
<1>1. <<>> \o <<a>> = <<a>>
  <2>1. <<a>> \in Seq(Token)
    OBVIOUS
  <2> QED
    BY <2>1, ConcatEmptySeq
<1>2. Five(a, b, c, d, e) = <<a, b, c, d, e>>
  BY JoinFive
<1> QED
  BY <1>1, <1>2, Zenon DEF Five, Whole

Ones(a, b, c, d, e) == Whole(<<a>>, <<b>>, <<c>>, <<d>>, <<e>>)

LEMMA EditedOnes ==
  ASSUME NEW x, IsEdit(x),
         NEW a \in Token, NEW b \in Token, NEW c \in Token, NEW d \in Token, NEW e \in Token
  PROVE  Edited(Ones(a, b, c, d, e), x) =
           Whole(Edited(<<a>>, x), Edited(<<b>>, x), Edited(<<c>>, x), Edited(<<d>>, x), Edited(<<e>>, x))
<1>1. PICK p \in Seq(Token), q \in Seq(Token), r \in Seq(Token), s \in Seq(Token), t \in Seq(Token) :
        p = <<a>> /\ q = <<b>> /\ r = <<c>> /\ s = <<d>> /\ t = <<e>>
  <2>1. /\ <<a>> \in Seq(Token) /\ <<b>> \in Seq(Token) /\ <<c>> \in Seq(Token)
        /\ <<d>> \in Seq(Token) /\ <<e>> \in Seq(Token)
    OBVIOUS
  <2> QED
    BY <2>1, Zenon
<1>2. Edited(Whole(p, q, r, s, t), x) =
        Whole(Edited(p, x), Edited(q, x), Edited(r, x), Edited(s, x), Edited(t, x))
  BY EditedPage
<1> QED
  BY <1>1, <1>2, Zenon DEF Ones

(* An edit that puts one mark in the place of another.                     *)
Swap(m, w) == Replace(m, Marks(<<w>>))

LEMMA SwapFacts ==
  ASSUME NEW m \in TokenName, NEW w \in TokenName, m # "REMOVE_START"
  PROVE  /\ IsEdit(Swap(m, w)) /\ Swap(m, w).at = Mark(m)
         /\ Edited(<<Mark(m)>>, Swap(m, w)) = <<Mark(w)>>
         /\ \A k \in TokenName : k # m => Edited(<<Mark(k)>>, Swap(m, w)) = <<Mark(k)>>
<1>1. Marks(<<w>>) = <<Mark(w)>>
  BY DEF Marks
<1>2. Swap(m, w).at = Mark(m) /\ Swap(m, w).put = <<Mark(w)>>
  BY <1>1 DEF Swap, Replace
<1>3. \A k \in TokenName : Mark(k) \in Token /\ (k # m => Mark(k) # Mark(m))
  BY TokensTyped DEF Mark
<1>4. <<Mark(w)>> \in Seq(Token)
  BY <1>3
<1>5. Swap(m, w) # Removal
  <2>1. Removal.at = Mark("REMOVE_START") /\ Mark("REMOVE_START") # Mark(m)
    BY DEF Removal, Mark
  <2> QED
    BY <1>2, <2>1
<1>6. IsEdit(Swap(m, w))
  BY <1>2, <1>3, <1>4, <1>5 DEF IsEdit
<1>7. Edited(<<Mark(m)>>, Swap(m, w)) = <<Mark(w)>>
  BY <1>2, <1>3, <1>6, EditedOne DEF Becomes
<1>8. ASSUME NEW k \in TokenName, k # m PROVE Edited(<<Mark(k)>>, Swap(m, w)) = <<Mark(k)>>
  BY <1>2, <1>3, <1>6, <1>8, EditedOne DEF Becomes
<1> QED
  BY <1>2, <1>6, <1>7, <1>8

LEMMA SwapAbove ==
  ASSUME NEW m \in {"@INDEX_TITLE@", "@REPORT_HEADER@", "index.template.css"},
         NEW w \in TokenName, NEW o \in Seq(Token)
  PROVE  Edited(Whole(o, Gone, Navi, Gone, Tabs), Swap(m, w)) =
           Whole(Edited(o, Swap(m, w)), Gone, Navi, Gone, Tabs)
<1> DEFINE x == Swap(m, w)
<1>1. m \in TokenName /\ m # "REMOVE_START"
  BY DEF TokenName
<1>2. IsEdit(x) /\ x.at = Mark(m)
  BY <1>1, SwapFacts
<1> HIDE DEF x
<1> DEFINE others == {"NAV_START", "NAV_END", "text", "TAB_PANEL_LIST_START", "TAB_PANEL_LIST_END", "removed"}
<1>3. \A k \in others : Mark(k) \in Free(m)
  <2>1. \A k \in others : k \in TokenName /\ k # m
    BY DEF TokenName
  <2> QED
    BY <2>1, TokensTyped DEF Free, Mark
<1>4. /\ Mark("NAV_START") \in Free(m) /\ Mark("NAV_END") \in Free(m) /\ Mark("text") \in Free(m)
      /\ Mark("TAB_PANEL_LIST_START") \in Free(m) /\ Mark("TAB_PANEL_LIST_END") \in Free(m)
      /\ Mark("removed") \in Free(m)
  BY <1>3
<1>5. Gone \in Seq(Free(m)) /\ Navi \in Seq(Free(m)) /\ Tabs \in Seq(Free(m))
  BY <1>4 DEF Gone, Navi, Tabs
<1>6. Edited(Gone, x) = Gone /\ Edited(Navi, x) = Navi /\ Edited(Tabs, x) = Tabs
  BY <1>2, <1>5, FreeKept
<1>7. Gone \in Seq(Token) /\ Navi \in Seq(Token) /\ Tabs \in Seq(Token)
  BY StartTyped
<1>8. Edited(Whole(o, Gone, Navi, Gone, Tabs), x) =
        Whole(Edited(o, x), Edited(Gone, x), Edited(Navi, x), Edited(Gone, x), Edited(Tabs, x))
  BY <1>2, <1>7, EditedPage
<1> QED
  BY <1>6, <1>8 DEF x

Filled == <<Mark("title"), Mark("index.css"), Mark("text"), Mark("header"), Mark("text")>>

LEMMA OpeningFilled ==
  Edited(Edited(Edited(Opening, Swap("@INDEX_TITLE@", "title")), Swap("@REPORT_HEADER@", "header")),
         Swap("index.template.css", "index.css")) = Filled
<1> DEFINE name == {"@INDEX_TITLE@", "title", "@REPORT_HEADER@", "header", "index.template.css",
                    "index.css", "text"}
           x == Swap("@INDEX_TITLE@", "title")
           y == Swap("@REPORT_HEADER@", "header")
           z == Swap("index.template.css", "index.css")
           O(a, b, c, d, e) == Whole(<<Mark(a)>>, <<Mark(b)>>, <<Mark(c)>>, <<Mark(d)>>, <<Mark(e)>>)
<1>1. \A k \in name : k \in TokenName /\ Mark(k) \in Token
  <2>1. \A k \in name : k \in TokenName
    BY DEF TokenName
  <2> QED
    BY <2>1, TokensTyped
<1>3. \A k \in {"@INDEX_TITLE@", "@REPORT_HEADER@", "index.template.css"} : k # "REMOVE_START" /\ k \in name
  OBVIOUS
<1>4. /\ IsEdit(x) /\ Edited(<<Mark("@INDEX_TITLE@")>>, x) = <<Mark("title")>>
      /\ \A k \in name : k # "@INDEX_TITLE@" => Edited(<<Mark(k)>>, x) = <<Mark(k)>>
  BY <1>1, SwapFacts
<1>5. /\ IsEdit(y) /\ Edited(<<Mark("@REPORT_HEADER@")>>, y) = <<Mark("header")>>
      /\ \A k \in name : k # "@REPORT_HEADER@" => Edited(<<Mark(k)>>, y) = <<Mark(k)>>
  BY <1>1, SwapFacts
<1>6. /\ IsEdit(z) /\ Edited(<<Mark("index.template.css")>>, z) = <<Mark("index.css")>>
      /\ \A k \in name : k # "index.template.css" => Edited(<<Mark(k)>>, z) = <<Mark(k)>>
  BY <1>1, SwapFacts
<1>7. Opening = O("@INDEX_TITLE@", "index.template.css", "text", "@REPORT_HEADER@", "text")
  <2>1. /\ Mark("@INDEX_TITLE@") \in Token /\ Mark("index.template.css") \in Token
        /\ Mark("text") \in Token /\ Mark("@REPORT_HEADER@") \in Token
    BY <1>1
  <2> QED
    BY <2>1, WholeOfOnes DEF Opening
<1>8. Filled = O("title", "index.css", "text", "header", "text")
  <2>1. /\ Mark("title") \in Token /\ Mark("index.css") \in Token
        /\ Mark("text") \in Token /\ Mark("header") \in Token
    BY <1>1
  <2> QED
    BY <2>1, WholeOfOnes DEF Filled
<1> HIDE DEF x, y, z
<1>9. Edited(O("@INDEX_TITLE@", "index.template.css", "text", "@REPORT_HEADER@", "text"), x)
      = O("title", "index.template.css", "text", "@REPORT_HEADER@", "text")
  <2>1. Mark("@INDEX_TITLE@") \in Token /\ Mark("index.template.css") \in Token /\ Mark("text") \in Token /\ Mark("@REPORT_HEADER@") \in Token
    BY <1>1
  <2>2. /\ Edited(<<Mark("index.template.css")>>, x) = <<Mark("index.template.css")>>
        /\ Edited(<<Mark("text")>>, x) = <<Mark("text")>>
        /\ Edited(<<Mark("@REPORT_HEADER@")>>, x) = <<Mark("@REPORT_HEADER@")>>
    BY <1>4
  <2>3. Edited(Ones(Mark("@INDEX_TITLE@"), Mark("index.template.css"), Mark("text"), Mark("@REPORT_HEADER@"), Mark("text")), x)
        = Whole(Edited(<<Mark("@INDEX_TITLE@")>>, x), Edited(<<Mark("index.template.css")>>, x), Edited(<<Mark("text")>>, x),
                Edited(<<Mark("@REPORT_HEADER@")>>, x), Edited(<<Mark("text")>>, x))
    BY <1>4, <2>1, EditedOnes
  <2> QED
    BY <1>4, <2>2, <2>3, Zenon DEF Ones
<1>10. Edited(O("title", "index.template.css", "text", "@REPORT_HEADER@", "text"), y)
       = O("title", "index.template.css", "text", "header", "text")
  <2>1. Mark("title") \in Token /\ Mark("index.template.css") \in Token /\ Mark("text") \in Token /\ Mark("@REPORT_HEADER@") \in Token
    BY <1>1
  <2>2. /\ Edited(<<Mark("index.template.css")>>, y) = <<Mark("index.template.css")>>
        /\ Edited(<<Mark("text")>>, y) = <<Mark("text")>>
        /\ Edited(<<Mark("title")>>, y) = <<Mark("title")>>
    BY <1>5
  <2>3. Edited(Ones(Mark("title"), Mark("index.template.css"), Mark("text"), Mark("@REPORT_HEADER@"), Mark("text")), y)
        = Whole(Edited(<<Mark("title")>>, y), Edited(<<Mark("index.template.css")>>, y), Edited(<<Mark("text")>>, y),
                Edited(<<Mark("@REPORT_HEADER@")>>, y), Edited(<<Mark("text")>>, y))
    BY <1>5, <2>1, EditedOnes
  <2> QED
    BY <1>5, <2>2, <2>3, Zenon DEF Ones
<1>11. Edited(O("title", "index.template.css", "text", "header", "text"), z)
       = O("title", "index.css", "text", "header", "text")
  <2>1. Mark("title") \in Token /\ Mark("index.template.css") \in Token /\ Mark("text") \in Token /\ Mark("header") \in Token
    BY <1>1
  <2>2. /\ Edited(<<Mark("title")>>, z) = <<Mark("title")>>
        /\ Edited(<<Mark("text")>>, z) = <<Mark("text")>>
        /\ Edited(<<Mark("header")>>, z) = <<Mark("header")>>
    BY <1>6
  <2>3. Edited(Ones(Mark("title"), Mark("index.template.css"), Mark("text"), Mark("header"), Mark("text")), z)
        = Whole(Edited(<<Mark("title")>>, z), Edited(<<Mark("index.template.css")>>, z), Edited(<<Mark("text")>>, z),
                Edited(<<Mark("header")>>, z), Edited(<<Mark("text")>>, z))
    BY <1>6, <2>1, EditedOnes
  <2> QED
    BY <1>6, <2>2, <2>3, Zenon DEF Ones
<1> QED
  BY <1>7, <1>8, <1>9, <1>10, <1>11, Zenon DEF x, y, z

LEMMA Rebracket ==
  ASSUME NEW o \in Seq(Token), NEW g \in Seq(Token), NEW s \in Seq(Token), NEW n \in Seq(Token),
         NEW t \in Seq(Token), NEW b \in Seq(Token)
  PROVE  Whole(o, g, s \o n, g, t \o b) = Whole((o \o g) \o s, <<>>, (n \o g) \o t, <<>>, b)
<1>1. PICK og \in Seq(Token) : og = o \o g
  BY TokenAssoc
<1>2. PICK ogs \in Seq(Token) : ogs = og \o s
  BY TokenAssoc
<1>3. PICK ng \in Seq(Token) : ng = n \o g
  BY TokenAssoc
<1>4. PICK ngt \in Seq(Token) : ngt = ng \o t
  BY TokenAssoc
<1>5. PICK r \in Seq(Token) : r = ogs \o ng
  BY TokenAssoc
<1>6. Assoc(og, s, n) /\ Assoc(ogs, n, g) /\ Assoc(r, t, b) /\ Assoc(ogs, ng, t)
  BY TokenAssoc
<1>7. ogs \o <<>> = ogs /\ (ogs \o ngt) \o <<>> = ogs \o ngt
  <2>1. ogs \o ngt \in Seq(Token)
    BY TokenAssoc
  <2> QED
    BY <2>1, ConcatEmptySeq
<1>8. Whole(o, g, s \o n, g, t \o b) = r \o (t \o b)
  <2>1. Whole(o, g, s \o n, g, t \o b) = ((og \o (s \o n)) \o g) \o (t \o b)
    BY <1>1, Zenon DEF Whole
  <2>2. og \o (s \o n) = ogs \o n
    BY <1>2, <1>6, Zenon DEF Assoc
  <2>3. (ogs \o n) \o g = r
    BY <1>3, <1>5, <1>6, Zenon DEF Assoc
  <2> QED
    BY <2>1, <2>2, <2>3, Zenon
<1>9. Whole((o \o g) \o s, <<>>, (n \o g) \o t, <<>>, b) = (ogs \o ngt) \o b
  BY <1>1, <1>2, <1>3, <1>4, <1>7, Zenon DEF Whole
<1> QED
  <2>1. r \o (t \o b) = (r \o t) \o b
    BY <1>6, Zenon DEF Assoc
  <2>2. r \o t = ogs \o ngt
    BY <1>4, <1>5, <1>6, Zenon DEF Assoc
  <2> QED
    BY <1>8, <1>9, <2>1, <2>2, Zenon

LEMMA AppendOne ==
  ASSUME NEW p \in Seq(Token), NEW t \in Token
  PROVE  p \o <<t>> = Append(p, t) /\ Append(p, t) \in Seq(Token)
  BY AppendIsConcat, AppendProperties

LEMMA PartsOfPage ==
  /\ Top = (Filled \o Gone) \o <<Mark("NAV_START")>>
  /\ Middle = (<<Mark("NAV_END"), Mark("text")>> \o Gone) \o <<Mark("TAB_PANEL_LIST_START")>>
  /\ Navi = <<Mark("NAV_START")>> \o <<Mark("NAV_END"), Mark("text")>>
  /\ Tabs = <<Mark("TAB_PANEL_LIST_START")>> \o Bottom
  /\ Filled \in Seq(Token) /\ <<Mark("NAV_START")>> \in Seq(Token)
  /\ <<Mark("NAV_END"), Mark("text")>> \in Seq(Token)
  /\ <<Mark("TAB_PANEL_LIST_START")>> \in Seq(Token) /\ Bottom \in Seq(Token)
<1>1. PICK ti \in Token, cs \in Token, te \in Token, he \in Token, re \in Token, ns \in Token,
           ne \in Token, ts \in Token, en \in Token :
        /\ ti = Mark("title") /\ cs = Mark("index.css") /\ te = Mark("text") /\ he = Mark("header")
        /\ re = Mark("removed") /\ ns = Mark("NAV_START") /\ ne = Mark("NAV_END")
        /\ ts = Mark("TAB_PANEL_LIST_START") /\ en = Mark("TAB_PANEL_LIST_END")
  <2>1. /\ Mark("title") \in Token /\ Mark("index.css") \in Token /\ Mark("text") \in Token
        /\ Mark("header") \in Token /\ Mark("removed") \in Token /\ Mark("NAV_START") \in Token
        /\ Mark("NAV_END") \in Token /\ Mark("TAB_PANEL_LIST_START") \in Token
        /\ Mark("TAB_PANEL_LIST_END") \in Token
    BY TokensTyped DEF TokenName
  <2> QED
    BY <2>1, Zenon
<1>2. /\ Top = <<ti, cs, te, he, te, re, ns>> /\ Filled = <<ti, cs, te, he, te>> /\ Gone = <<re>>
      /\ Middle = <<ne, te, re, ts>> /\ Navi = <<ns, ne, te>> /\ Tabs = <<ts, en, te>>
      /\ Bottom = <<en, te>>
  BY <1>1 DEF Top, Filled, Gone, Middle, Navi, Tabs, Bottom, Marks
<1>3. <<ti, cs, te, he, te>> \in Seq(Token) /\ <<ti, cs, te, he, te, re>> \in Seq(Token)
      /\ <<ne, te>> \in Seq(Token) /\ <<ne, te, re>> \in Seq(Token) /\ <<ns>> \in Seq(Token)
      /\ <<ts>> \in Seq(Token) /\ <<ns, ne>> \in Seq(Token) /\ <<ts, en>> \in Seq(Token)
      /\ <<en, te>> \in Seq(Token)
  OBVIOUS
<1>4. /\ <<ti, cs, te, he, te, re>> = Append(<<ti, cs, te, he, te>>, re)
      /\ <<ti, cs, te, he, te, re, ns>> = Append(<<ti, cs, te, he, te, re>>, ns)
  OBVIOUS
<1>5. <<ne, te, re>> = Append(<<ne, te>>, re) /\ <<ne, te, re, ts>> = Append(<<ne, te, re>>, ts)
  OBVIOUS
<1>6. (<<ti, cs, te, he, te>> \o <<re>>) \o <<ns>> = <<ti, cs, te, he, te, re, ns>>
  <2>1. <<ti, cs, te, he, te>> \o <<re>> = <<ti, cs, te, he, te, re>>
    BY <1>3, <1>4, AppendOne
  <2>2. <<ti, cs, te, he, te, re>> \o <<ns>> = <<ti, cs, te, he, te, re, ns>>
    BY <1>3, <1>4, AppendOne
  <2> QED
    BY <2>1, <2>2, Zenon
<1>7. (<<ne, te>> \o <<re>>) \o <<ts>> = <<ne, te, re, ts>>
  <2>1. <<ne, te>> \o <<re>> = <<ne, te, re>>
    BY <1>3, <1>5, AppendOne
  <2>2. <<ne, te, re>> \o <<ts>> = <<ne, te, re, ts>>
    BY <1>3, <1>5, AppendOne
  <2> QED
    BY <2>1, <2>2, Zenon
<1>8. \A a, b, c \in Token : <<a>> \o <<b, c>> = <<a, b, c>>
  <2> TAKE a, b, c \in Token
  <2>1. <<a>> \in Seq(Token) /\ <<b>> \in Seq(Token) /\ <<c>> \in Seq(Token) /\ <<a, b>> \in Seq(Token)
    OBVIOUS
  <2>2. <<a, b, c>> = Append(<<a, b>>, c)
    OBVIOUS
  <2>5. \A p, q \in Token : <<p, q>> = Append(<<p>>, q)
    OBVIOUS
  <2>3. <<a>> \o <<b>> = <<a, b>> /\ <<b>> \o <<c>> = <<b, c>>
    <3>1. \A p, q \in Token : <<p>> \o <<q>> = <<p, q>>
      <4> TAKE p, q \in Token
      <4>1. <<p>> \in Seq(Token)
        OBVIOUS
      <4>2. <<p, q>> = Append(<<p>>, q)
        BY <2>5, Zenon
      <4>3. <<p>> \o <<q>> = Append(<<p>>, q)
        BY <4>1, AppendOne
      <4> QED
        BY <4>2, <4>3, Zenon
    <3> QED
      BY <3>1, Zenon
  <2>6. <<a, b>> \o <<c>> = <<a, b, c>>
    BY <2>1, <2>2, AppendOne
  <2>4. (<<a>> \o <<b>>) \o <<c>> = <<a>> \o (<<b>> \o <<c>>)
    BY <2>1, TokenAssoc DEF Assoc
  <2> QED
    BY <2>3, <2>4, <2>6, Zenon
<1>9. <<ns>> \o <<ne, te>> = <<ns, ne, te>> /\ <<ts>> \o <<en, te>> = <<ts, en, te>>
  BY <1>8, Zenon
<1> QED
  BY <1>1, <1>2, <1>3, <1>6, <1>7, <1>9, Zenon

Regrouped(o, g, s, n, t, b) ==
  Whole(o, g, s \o n, g, t \o b) = Whole((o \o g) \o s, <<>>, (n \o g) \o t, <<>>, b)

LEMMA Regroups ==
  ASSUME NEW o \in Seq(Token), NEW g \in Seq(Token), NEW s \in Seq(Token), NEW n \in Seq(Token),
         NEW t \in Seq(Token), NEW b \in Seq(Token)
  PROVE  Regrouped(o, g, s, n, t, b)
  BY Rebracket DEF Regrouped

(* With the edits that do not depend on the program the page is the one    *)
(* on which nothing is listed.                                             *)
LEMMA StartStep ==
  ASSUME NEW us, UnitsOK(us)
  PROVE  Edited(Edited(Edited(Edited(Template, Removal), Swap("@INDEX_TITLE@", "title")),
                       Swap("@REPORT_HEADER@", "header")),
                Swap("index.template.css", "index.css")) = PageAt(us, 1, 0)
<1> DEFINE x == Swap("@INDEX_TITLE@", "title")
           y == Swap("@REPORT_HEADER@", "header")
           z == Swap("index.template.css", "index.css")
           W(o) == Whole(o, Gone, Navi, Gone, Tabs)
<1>1. Edited(Template, Removal) = W(Opening)
  BY RegionsRemoved DEF Whole
<1>2. /\ "title" \in TokenName /\ "header" \in TokenName /\ "index.css" \in TokenName
      /\ "@INDEX_TITLE@" \in TokenName /\ "@REPORT_HEADER@" \in TokenName
      /\ "index.template.css" \in TokenName
  BY DEF TokenName
<1>3. IsEdit(x) /\ IsEdit(y)
  BY <1>2, SwapFacts
<1>4. /\ \A o \in Seq(Token) : Edited(W(o), x) = W(Edited(o, x))
      /\ \A o \in Seq(Token) : Edited(W(o), y) = W(Edited(o, y))
      /\ \A o \in Seq(Token) : Edited(W(o), z) = W(Edited(o, z))
  BY <1>2, SwapAbove
<1> HIDE DEF x, y, z, W
<1>5. Opening \in Seq(Token) /\ Edited(Opening, x) \in Seq(Token)
      /\ Edited(Edited(Opening, x), y) \in Seq(Token)
  BY <1>3, StartTyped, EditedIs
<1>6. Edited(Edited(Edited(W(Opening), x), y), z) = W(Edited(Edited(Edited(Opening, x), y), z))
  BY <1>4, <1>5, Zenon
<1>7. Edited(Edited(Edited(Opening, x), y), z) = Filled
  BY OpeningFilled DEF x, y, z
<1>8. W(Filled) = Whole(Top, <<>>, Middle, <<>>, Bottom)
  <2>1. Gone \in Seq(Token)
    BY StartTyped
  <2>2. PICK s \in Seq(Token), n \in Seq(Token), t \in Seq(Token) :
          s = <<Mark("NAV_START")>> /\ n = <<Mark("NAV_END"), Mark("text")>>
          /\ t = <<Mark("TAB_PANEL_LIST_START")>>
    BY PartsOfPage, Zenon
  <2>3. Filled \in Seq(Token) /\ Bottom \in Seq(Token)
    BY PartsOfPage
  <2>4. Whole(Filled, Gone, s \o n, Gone, t \o Bottom)
        = Whole((Filled \o Gone) \o s, <<>>, (n \o Gone) \o t, <<>>, Bottom)
    <3>1. Regrouped(Filled, Gone, s, n, t, Bottom)
      BY <2>1, <2>3, Regroups
    <3> QED
      BY <3>1, Zenon DEF Regrouped
  <2>5. Top = (Filled \o Gone) \o s /\ Middle = (n \o Gone) \o t /\ Navi = s \o n /\ Tabs = t \o Bottom
    BY <2>2, PartsOfPage, Zenon
  <2> QED
    BY <2>4, <2>5, Zenon DEF W
<1>9. Navigation(us, 1, 0) = <<>>
  <2>1. [v \in 1 .. 1 - 1 |-> Entries(us, v, 1, 0)] = <<>>
    OBVIOUS
  <2> QED
    BY <2>1, FlattenEmpty DEF Navigation
<1>10. Panels(Listed(us, 1, 1, 0)) = <<>>
  <2>1. 1 \in Nat \ {0} /\ 1 \in Nat /\ 1 <= 1 /\ 1 <= Len(us) + 1
    BY DEF UnitsOK
  <2>2. Before(us, 1, 1) = <<>>
    BY <2>1, BeforeFacts
  <2>3. [m \in 1 .. 0 - 1 |-> <<1, m>>] = <<>>
    OBVIOUS
  <2>4. Listed(us, 1, 1, 0) = <<>>
    BY <2>2, <2>3 DEF Listed
  <2> QED
    BY <2>4 DEF Panels
<1> QED
  BY <1>1, <1>6, <1>7, <1>8, <1>9, <1>10, Zenon DEF PageAt, x, y, z

-----------------------------------------------------------------------------
(* Only, and what it is built from.                                        *)
Symbol == STRING

LEMMA OnlyIs ==
  ASSUME NEW S, NEW s \in Seq(S), NEW N
  PROVE  /\ Only(s, N) = SX!FlattenSeq([n \in 1 .. Len(s) |-> IF n \in N THEN <<s[n]>> ELSE <<>>])
         /\ [n \in 1 .. Len(s) |-> IF n \in N THEN <<s[n]>> ELSE <<>>] \in [1 .. Len(s) -> Seq(S)]
         /\ Only(s, N) \in Seq(S)
<1> DEFINE b == [n \in 1 .. Len(s) |-> IF n \in N THEN <<s[n]>> ELSE <<>>]
<1>1. Len(s) \in Nat /\ DOMAIN s = 1 .. Len(s) /\ \A n \in 1 .. Len(s) : s[n] \in S
  BY LenProperties
<1>2. Only(s, N) = SX!FlattenSeq(b)
  BY <1>1 DEF Only
<1>3. b \in [1 .. Len(s) -> Seq(S)]
  <2>1. \A e \in S : <<e>> \in Seq(S)
    OBVIOUS
  <2>2. \A n \in 1 .. Len(s) : <<s[n]>> \in Seq(S)
    BY <1>1, <2>1
  <2>3. <<>> \in Seq(S)
    OBVIOUS
  <2> QED
    BY <2>2, <2>3
<1> HIDE DEF b
<1>4. b \in Seq(Seq(S))
  BY <1>1, <1>3, SeqDef
<1>5. Only(s, N) \in Seq(S)
  BY <1>2, <1>4, FlattenType
<1> QED
  BY <1>2, <1>3, <1>5 DEF b

LEMMA OnlyNone == \A N : Only(<<>>, N) = <<>>
<1> SUFFICES ASSUME NEW N PROVE Only(<<>>, N) = <<>>
  OBVIOUS
<1>1. [n \in DOMAIN <<>> |-> IF n \in N THEN << <<>>[n] >> ELSE <<>>] = <<>>
  OBVIOUS
<1> QED
  BY <1>1, FlattenEmpty DEF Only

LEMMA OnlyStep ==
  ASSUME NEW S, NEW s \in Seq(S), NEW e \in S, NEW N, NEW M, \A n \in 1 .. Len(s) : n \in M <=> n \in N
  PROVE  Only(Append(s, e), M) = IF Len(s) + 1 \in M THEN Append(Only(s, N), e) ELSE Only(s, N)
<1> DEFINE q == Append(s, e)
           b(t, L) == [n \in 1 .. Len(t) |-> IF n \in L THEN <<t[n]>> ELSE <<>>]
<1>1. q \in Seq(S) /\ Len(q) = Len(s) + 1 /\ Len(s) \in Nat
      /\ q[Len(s) + 1] = e /\ \A n \in 1 .. Len(s) : q[n] = s[n]
  BY AppendProperties, LenProperties
<1> HIDE DEF q
<1>2. /\ Only(s, N) = SX!FlattenSeq(b(s, N)) /\ Only(q, M) = SX!FlattenSeq(b(q, M))
      /\ b(s, N) \in [1 .. Len(s) -> Seq(S)] /\ b(q, M) \in [1 .. Len(s) + 1 -> Seq(S)]
      /\ Only(s, N) \in Seq(S)
  BY <1>1, OnlyIs
<1>3. \A n \in 1 .. Len(s) : b(q, M)[n] = b(s, N)[n]
  BY <1>1
<1>4. b(q, M)[Len(s) + 1] = IF Len(s) + 1 \in M THEN <<e>> ELSE <<>>
  BY <1>1
<1> HIDE DEF b
<1>5. b(s, N) \in Seq(Seq(S)) /\ b(q, M) = Append(b(s, N), b(q, M)[Len(s) + 1])
      /\ b(q, M)[Len(s) + 1] \in Seq(S)
  <2>1. PICK f \in [1 .. Len(s) -> Seq(S)], g \in [1 .. Len(s) + 1 -> Seq(S)] : f = b(s, N) /\ g = b(q, M)
    BY <1>2
  <2>2. \A i \in 1 .. Len(s) : g[i] = f[i]
    BY <1>3, <2>1
  <2>3. f \in Seq(Seq(S)) /\ g = Append(f, g[Len(s) + 1]) /\ g[Len(s) + 1] \in Seq(S)
    BY <1>1, <2>2, LongerByOne
  <2> QED
    BY <2>1, <2>3
<1>6. Only(q, M) = Only(s, N) \o b(q, M)[Len(s) + 1]
  BY <1>2, <1>5, FlattenAppend
<1>7. CASE Len(s) + 1 \in M
  BY <1>2, <1>4, <1>6, <1>7, AppendIsConcat DEF q
<1>8. CASE Len(s) + 1 \notin M
  BY <1>2, <1>4, <1>6, <1>8, ConcatEmptySeq DEF q
<1> QED
  BY <1>7, <1>8

-----------------------------------------------------------------------------
(* The words of a line, as far as the separator has come.                  *)
LEMMA UnquotedStep ==
  ASSUME NEW s \in Seq(Symbol), NEW c \in Symbol
  PROVE  /\ Unquoted(s) \in Seq(Symbol)
         /\ Unquoted(Append(s, c)) = IF c \in Quote THEN Unquoted(s) ELSE Append(Unquoted(s), c)
<1> DEFINE q == Append(s, c)
           N == {n \in DOMAIN s : s[n] \notin Quote}
           M == {n \in DOMAIN q : q[n] \notin Quote}
<1>1. q \in Seq(Symbol) /\ Len(q) = Len(s) + 1 /\ Len(s) \in Nat
      /\ q[Len(s) + 1] = c /\ (\A n \in 1 .. Len(s) : q[n] = s[n])
      /\ DOMAIN s = 1 .. Len(s) /\ DOMAIN q = 1 .. Len(s) + 1
  BY AppendProperties, LenProperties
<1> HIDE DEF q
<1>2. \A n \in 1 .. Len(s) : n \in M <=> n \in N
  BY <1>1
<1>3. Len(s) + 1 \in M <=> c \notin Quote
  BY <1>1
<1>4. Unquoted(q) = Only(q, M) /\ Unquoted(s) = Only(s, N)
  BY DEF Unquoted
<1> HIDE DEF N, M
<1>5. Only(q, M) = IF Len(s) + 1 \in M THEN Append(Only(s, N), c) ELSE Only(s, N)
  BY <1>2, OnlyStep DEF q
<1>6. Only(s, N) \in Seq(Symbol)
  BY OnlyIs
<1> QED
  BY <1>3, <1>4, <1>5, <1>6 DEF q

LEMMA UnquotedNone == Unquoted(<<>>) = <<>>
  BY OnlyNone DEF Unquoted

(* The end before position p.                                              *)
EndsAt(ends, p, b) == b \in ends \cup {0} /\ b < p /\ \A k \in ends : k < p => k <= b

LEMMA EndThere ==
  ASSUME NEW ends \in SUBSET (Nat \ {0})
  PROVE  \A p \in Nat : \E b : EndsAt(ends, p + 1, b)
<1> DEFINE T == {p \in Nat : \E b : EndsAt(ends, p + 1, b)}
<1>1. 0 \in T
  <2>1. EndsAt(ends, 0 + 1, 0)
    BY DEF EndsAt
  <2> QED
    BY <2>1
<1>2. ASSUME NEW p \in Nat, p \in T PROVE p + 1 \in T
  <2>1. PICK b : EndsAt(ends, p + 1, b)
    BY <1>2
  <2>2. CASE p + 1 \in ends
    <3>1. EndsAt(ends, (p + 1) + 1, p + 1)
      BY <2>2 DEF EndsAt
    <3> QED
      BY <3>1
  <2>3. CASE p + 1 \notin ends
    <3>1. EndsAt(ends, (p + 1) + 1, b)
      BY <2>1, <2>3 DEF EndsAt
    <3> QED
      BY <3>1
  <2> QED
    BY <2>2, <2>3
<1> HIDE DEF T
<1>3. \A p \in Nat : p \in T
  BY <1>1, <1>2, AllNumbers
<1> QED
  BY <1>3 DEF T

LEMMA EndBeforeFacts ==
  ASSUME NEW ends \in SUBSET (Nat \ {0}), NEW p \in Nat \ {0}
  PROVE  /\ EndBefore(ends, p) \in Nat /\ EndBefore(ends, p) < p
         /\ p \in ends => EndBefore(ends, p + 1) = p
         /\ p \notin ends => EndBefore(ends, p + 1) = EndBefore(ends, p)
<1>1. ASSUME NEW k \in Nat \ {0} PROVE EndsAt(ends, k, EndBefore(ends, k))
  <2>1. k - 1 \in Nat /\ (k - 1) + 1 = k
    OBVIOUS
  <2>2. \E b : EndsAt(ends, k, b)
    BY <2>1, EndThere
  <2>3. \E b \in ends \cup {0} : b < k /\ \A j \in ends : j < k => j <= b
    BY <2>2 DEF EndsAt
  <2> QED
    BY <2>3 DEF EndBefore, EndsAt
<1>0. ASSUME NEW k \in Nat \ {0} PROVE EndBefore(ends, k) \in Nat /\ EndBefore(ends, k) < k
  <2>1. PICK b : b = EndBefore(ends, k) /\ EndsAt(ends, k, b)
    BY <1>1
  <2>2. b \in Nat /\ b < k
    BY <2>1 DEF EndsAt
  <2> QED
    BY <2>1, <2>2
<1>2. \A k \in Nat \ {0} : \A b, c : EndsAt(ends, k, b) /\ EndsAt(ends, k, c) => b = c
  BY DEF EndsAt
<1>3. p + 1 \in Nat \ {0}
  OBVIOUS
<1>4. ASSUME p \in ends PROVE EndBefore(ends, p + 1) = p
  <2>1. EndsAt(ends, p + 1, p)
    BY <1>4 DEF EndsAt
  <2> QED
    BY <1>1, <1>2, <1>3, <2>1
<1>5. ASSUME p \notin ends PROVE EndBefore(ends, p + 1) = EndBefore(ends, p)
  <2>1. EndsAt(ends, p, EndBefore(ends, p))
    BY <1>1
  <2>2. EndsAt(ends, p + 1, EndBefore(ends, p))
    <3>1. PICK b : b = EndBefore(ends, p) /\ EndsAt(ends, p, b)
      BY <2>1
    <3>2. EndsAt(ends, p + 1, b)
      BY <1>5, <3>1 DEF EndsAt
    <3> QED
      BY <3>1, <3>2
  <2> QED
    BY <1>1, <1>2, <1>3, <2>2
<1>6. EndBefore(ends, p) \in Nat /\ EndBefore(ends, p) < p
  BY <1>0
<1> QED
  BY <1>4, <1>5, <1>6

LEMMA QuotesStep ==
  ASSUME NEW l \in Seq(Symbol), NEW p \in 1 .. Len(l)
  PROVE  /\ QuotesBefore(l, 1) = 0 /\ QuotesBefore(l, p) \in Nat
         /\ QuotesBefore(l, p + 1) = IF l[p] \in Quote THEN QuotesBefore(l, p) + 1 ELSE QuotesBefore(l, p)
<1> DEFINE Q(n) == {m \in 1 .. n - 1 : l[m] \in Quote}
<1>1. Q(1) = {}
  OBVIOUS
<1>2. Q(p + 1) = IF l[p] \in Quote THEN Q(p) \cup {p} ELSE Q(p)
  <2>1. p \in Nat \ {0} /\ (p + 1) - 1 = p /\ p \notin 1 .. p - 1
        /\ 1 .. p = (1 .. p - 1) \cup {p}
    BY LenProperties
  <2> QED
    BY <2>1
<1>3. IsFiniteSet(Q(p)) /\ p \notin Q(p)
  <2>1. p \in Int /\ p - 1 \in Int /\ 1 \in Int /\ p \notin 1 .. p - 1
    BY LenProperties
  <2>2. IsFiniteSet(1 .. p - 1)
    BY <2>1, FS_Interval
  <2> QED
    BY <2>1, <2>2, FS_Subset
<1> HIDE DEF Q
<1>4. Cardinality(Q(p)) \in Nat
  BY <1>3, FS_CardinalityType
<1>5. Cardinality(Q(p) \cup {p}) = Cardinality(Q(p)) + 1
  BY <1>3, FS_AddElement
<1> QED
  BY <1>1, <1>2, <1>4, <1>5, FS_EmptySet DEF QuotesBefore, Q

WordAt(l, n) == IF n \in Ends(l) /\ ~IsBlank(Part(l, n)) THEN <<Part(l, n)>> ELSE <<>>
WordsBefore(l, p) == SX!FlattenSeq([n \in 1 .. p - 1 |-> WordAt(l, n)])

Line == Seq(Symbol)

LEMMA EndsTyped ==
  ASSUME NEW l \in Line
  PROVE  /\ Ends(l) \in SUBSET (Nat \ {0}) /\ Len(l) \in Nat /\ Len(l) + 1 \in Ends(l)
         /\ \A p \in 1 .. Len(l) : p \in Ends(l) <=> l[p] \in Blank /\ QuotesBefore(l, p) % 2 = 0
<1>1. Len(l) \in Nat /\ DOMAIN l = 1 .. Len(l)
  BY LenProperties DEF Line
<1> QED
  BY <1>1 DEF Ends

LEMMA PartFacts ==
  ASSUME NEW l \in Line, NEW p \in 1 .. Len(l) + 1
  PROVE  /\ Part(l, 1) = <<>> /\ Part(l, p) \in Line
         /\ p <= Len(l) /\ p \in Ends(l) => Part(l, p + 1) = <<>>
         /\ p <= Len(l) /\ p \notin Ends(l) =>
              Part(l, p + 1) = IF l[p] \in Quote THEN Part(l, p) ELSE Append(Part(l, p), l[p])
<1> DEFINE E == Ends(l)
           b == EndBefore(E, p)
<1>1. E \in SUBSET (Nat \ {0}) /\ p \in Nat \ {0} /\ Len(l) \in Nat /\ 1 \in Nat \ {0}
  BY EndsTyped
<1> HIDE DEF E
<1>2. b \in Nat /\ b < p
  BY <1>1, EndBeforeFacts
<1>3. Part(l, 1) = <<>>
  <2>1. EndBefore(E, 1) \in Nat /\ EndBefore(E, 1) < 1
    BY <1>1, EndBeforeFacts
  <2>2. EndBefore(E, 1) = 0
    BY <2>1
  <2>3. SubSeq(l, 0 + 1, 1 - 1) = <<>>
    <3>1. 0 + 1 \in Int /\ 1 - 1 \in Int /\ 1 - 1 < 0 + 1
      OBVIOUS
    <3> QED
      BY <3>1, SubSeqEmpty
  <2> QED
    BY <2>2, <2>3, UnquotedNone DEF Part, Stretch, E
<1> HIDE DEF b
<1>4. SubSeq(l, b + 1, p - 1) \in Line
  <2>1. b + 1 \in Int /\ p - 1 \in Int /\ \A i \in b + 1 .. p - 1 : i \in 1 .. Len(l)
    BY <1>1, <1>2
  <2>2. \A i \in 1 .. Len(l) : l[i] \in Symbol
    BY LenProperties DEF Line
  <2>3. \A i \in b + 1 .. p - 1 : l[i] \in Symbol
    BY <2>1, <2>2
  <2> QED
    BY <2>1, <2>3, SubSeqProperties DEF Line
<1>5. Part(l, p) = Unquoted(SubSeq(l, b + 1, p - 1))
  BY DEF Part, Stretch, b, E
<1>6. Part(l, p) \in Line
  <2>1. PICK s \in Seq(Symbol) : s = SubSeq(l, b + 1, p - 1)
    BY <1>4 DEF Line
  <2>2. Unquoted(s) \in Seq(Symbol)
    BY OnlyIs DEF Unquoted
  <2> QED
    BY <1>5, <2>1, <2>2 DEF Line
<1>7. ASSUME p <= Len(l), p \in E PROVE Part(l, p + 1) = <<>>
  <2>1. EndBefore(E, p + 1) = p
    BY <1>1, <1>7, EndBeforeFacts
  <2>2. SubSeq(l, p + 1, (p + 1) - 1) = <<>>
    <3>1. p + 1 \in Int /\ (p + 1) - 1 \in Int /\ (p + 1) - 1 < p + 1
      BY <1>1
    <3> QED
      BY <3>1, SubSeqEmpty
  <2> QED
    BY <2>1, <2>2, UnquotedNone DEF Part, Stretch, E
<1>8. ASSUME p <= Len(l), p \notin E
      PROVE  Part(l, p + 1) = IF l[p] \in Quote THEN Part(l, p) ELSE Append(Part(l, p), l[p])
  <2>1. EndBefore(E, p + 1) = b /\ (p + 1) - 1 = p
    BY <1>1, <1>8, EndBeforeFacts DEF b
  <2>2. Part(l, p + 1) = Unquoted(SubSeq(l, b + 1, p))
    BY <2>1, Zenon DEF Part, Stretch, E
  <2>3. SubSeq(l, b + 1, p) = SubSeq(l, b + 1, p - 1) \o <<l[p]>>
    <3>1. b + 1 \in 1 .. Len(l) /\ p \in b + 1 .. Len(l) /\ l \in Seq(Symbol)
      BY <1>1, <1>2, <1>8 DEF Line
    <3> QED
      BY <3>1, SubSeqRecursiveSecond
  <2>4. l[p] \in Symbol
    <3>1. p \in 1 .. Len(l) /\ l \in Seq(Symbol)
      BY <1>8 DEF Line
    <3> QED
      BY <3>1, ElementOfSeq
  <2>5. PICK s \in Seq(Symbol), c \in Symbol : s = SubSeq(l, b + 1, p - 1) /\ c = l[p]
    BY <1>4, <2>4 DEF Line
  <2>6. SubSeq(l, b + 1, p) = Append(s, c)
    BY <2>3, <2>5, AppendIsConcat
  <2>7. Unquoted(Append(s, c)) = IF c \in Quote THEN Unquoted(s) ELSE Append(Unquoted(s), c)
    BY UnquotedStep
  <2> QED
    BY <1>5, <2>2, <2>5, <2>6, <2>7, Zenon
<1> QED
  BY <1>3, <1>6, <1>7, <1>8 DEF E

LEMMA WordsFacts ==
  ASSUME NEW l \in Line
  PROVE  /\ WordsBefore(l, 1) = <<>> /\ TokensOf(l) \in Seq(Line)
         /\ \A p \in 1 .. Len(l) + 1 :
              /\ WordsBefore(l, p) \in Seq(Line) /\ WordAt(l, p) \in Seq(Line)
              /\ WordsBefore(l, p + 1) = WordsBefore(l, p) \o WordAt(l, p)
         /\ WordsBefore(l, (Len(l) + 1) + 1) = TokensOf(l)
<1> DEFINE N == Len(l) + 1
           B == [n \in 1 .. N |-> WordAt(l, n)]
<1>1. N \in Nat /\ Len(l) \in Nat /\ N \in 1 .. N
  BY EndsTyped
<1>2. \A n \in 1 .. N : WordAt(l, n) \in Seq(Line)
  <2> SUFFICES ASSUME NEW n \in 1 .. N PROVE WordAt(l, n) \in Seq(Line)
    OBVIOUS
  <2>1. Part(l, n) \in Line
    BY PartFacts
  <2>2. \A w \in Line : <<w>> \in Seq(Line)
    OBVIOUS
  <2>3. <<>> \in Seq(Line)
    OBVIOUS
  <2> QED
    BY <2>1, <2>2, <2>3 DEF WordAt
<1>3. B \in [1 .. N -> Seq(Line)]
  BY <1>2
<1>4. \A p \in 1 .. N + 1 : WordsBefore(l, p) = Flat(B, p - 1)
  <2> TAKE p \in 1 .. N + 1
  <2>1. [n \in 1 .. p - 1 |-> WordAt(l, n)] = [n \in 1 .. p - 1 |-> B[n]]
    <3>1. \A n \in 1 .. p - 1 : n \in 1 .. N
      BY <1>1
    <3> HIDE DEF N
    <3> QED
      BY <3>1
  <2> QED
    BY <2>1 DEF WordsBefore, Flat
<1> HIDE DEF B
<1>5. \A k \in 0 .. N - 1 : Flat(B, k + 1) = Flat(B, k) \o B[k + 1]
  BY <1>1, <1>3, FlattenPrefix
<1>6. \A k \in 0 .. N : Flat(B, k) \in Seq(Line)
  BY <1>1, <1>3, FlattenPrefix
<1>7. WordsBefore(l, 1) = <<>>
  <2>1. [n \in 1 .. 1 - 1 |-> WordAt(l, n)] = <<>>
    OBVIOUS
  <2> QED
    BY <2>1, FlattenEmpty DEF WordsBefore
<1>8. ASSUME NEW p \in 1 .. N
      PROVE  WordsBefore(l, p) \in Seq(Line) /\ WordsBefore(l, p + 1) = WordsBefore(l, p) \o WordAt(l, p)
  <2>1. PICK k \in 0 .. N - 1 : k = p - 1 /\ p = k + 1
    BY <1>1
  <2>2. WordsBefore(l, p) = Flat(B, k) /\ WordsBefore(l, p + 1) = Flat(B, k + 1)
    <3>1. p \in 1 .. N + 1 /\ p + 1 \in 1 .. N + 1 /\ (p + 1) - 1 = k + 1
      BY <1>1, <2>1
    <3> QED
      BY <1>4, <2>1, <3>1
  <2>3. B[k + 1] = WordAt(l, p)
    BY <2>1 DEF B
  <2>4. k \in 0 .. N
    BY <1>1
  <2> QED
    BY <1>5, <1>6, <2>2, <2>3, <2>4
<1>9. WordsBefore(l, N + 1) = TokensOf(l)
  <2>1. N + 1 - 1 = N
    BY <1>1
  <2>2. TokensOf(l) = SX!FlattenSeq([n \in 1 .. Len(l) + 1 |-> WordAt(l, n)])
    BY DEF TokensOf, WordAt
  <2> QED
    BY <2>1, <2>2 DEF WordsBefore
<1>10. TokensOf(l) \in Seq(Line)
  <2>1. PICK k \in 0 .. N : k = N /\ k = (N + 1) - 1 /\ N + 1 \in 1 .. N + 1
    BY <1>1
  <2> QED
    BY <1>4, <1>6, <1>9, <2>1
<1> QED
  BY <1>2, <1>7, <1>8, <1>9, <1>10

(* What a function that gives sequences makes of a sequence.               *)
Mapped(F, s) == SX!FlattenSeq([n \in 1 .. Len(s) |-> F[s[n]]])

LEMMA MappedFacts ==
  ASSUME NEW S, NEW R, NEW F \in [S -> Seq(R)]
  PROVE  /\ Mapped(F, <<>>) = <<>>
         /\ \A s \in Seq(S) : Mapped(F, s) \in Seq(R)
         /\ \A s \in Seq(S), e \in S : Mapped(F, Append(s, e)) = Mapped(F, s) \o F[e]
<1> DEFINE M(s) == [n \in 1 .. Len(s) |-> F[s[n]]]
<1>1. Mapped(F, <<>>) = <<>>
  <2>1. [n \in 1 .. Len(<<>>) |-> F[<<>>[n]]] = <<>>
    OBVIOUS
  <2> QED
    BY <2>1, FlattenEmpty DEF Mapped
<1>2. ASSUME NEW s \in Seq(S) PROVE M(s) \in [1 .. Len(s) -> Seq(R)] /\ M(s) \in Seq(Seq(R))
  <2>1. \A n \in 1 .. Len(s) : F[s[n]] \in Seq(R)
    <3>1. \A n \in 1 .. Len(s) : s[n] \in S
      BY LenProperties
    <3> QED
      BY <3>1
  <2>2. M(s) \in [1 .. Len(s) -> Seq(R)] /\ Len(s) \in Nat
    BY <2>1, LenProperties
  <2> HIDE DEF M
  <2>3. PICK n \in Nat : n = Len(s)
    BY <2>2
  <2>4. M(s) \in [1 .. n -> Seq(R)]
    BY <2>2, <2>3
  <2>5. M(s) \in Seq(Seq(R))
    BY <2>4
  <2> QED
    BY <2>2, <2>5
<1>3. \A s \in Seq(S) : Mapped(F, s) \in Seq(R)
  <2> TAKE s \in Seq(S)
  <2>1. Mapped(F, s) = SX!FlattenSeq(M(s)) /\ M(s) \in Seq(Seq(R))
    BY <1>2 DEF Mapped
  <2> HIDE DEF M
  <2> QED
    BY <2>1, FlattenType
<1>4. ASSUME NEW s \in Seq(S), NEW e \in S
      PROVE  Mapped(F, Append(s, e)) = Mapped(F, s) \o F[e]
  <2> DEFINE q == Append(s, e)
  <2>1. q \in Seq(S) /\ Len(q) = Len(s) + 1 /\ Len(s) \in Nat
        /\ q[Len(s) + 1] = e /\ (\A n \in 1 .. Len(s) : q[n] = s[n])
    BY AppendProperties, LenProperties
  <2> HIDE DEF q
  <2>2. \A n \in 1 .. Len(s) : M(q)[n] = M(s)[n]
    BY <2>1
  <2>3. M(q)[Len(s) + 1] = F[e]
    BY <2>1
  <2>4. PICK f \in [1 .. Len(s) -> Seq(R)], g \in [1 .. Len(s) + 1 -> Seq(R)] : f = M(s) /\ g = M(q)
    <3>1. M(s) \in [1 .. Len(s) -> Seq(R)] /\ M(q) \in [1 .. Len(s) + 1 -> Seq(R)]
      BY <1>2, <2>1
    <3> HIDE DEF M
    <3> QED
      BY <3>1
  <2>5. Mapped(F, s) = SX!FlattenSeq(f) /\ Mapped(F, q) = SX!FlattenSeq(g)
    BY <2>4 DEF Mapped
  <2>6. \A n \in 1 .. Len(s) : g[n] = f[n]
    BY <2>2, <2>4
  <2>7. g[Len(s) + 1] = F[e]
    BY <2>3, <2>4
  <2> HIDE DEF M
  <2>8. f \in Seq(Seq(R)) /\ g = Append(f, g[Len(s) + 1]) /\ g[Len(s) + 1] \in Seq(R)
    BY <2>1, <2>6, LongerByOne
  <2> QED
    BY <2>5, <2>7, <2>8, FlattenAppend DEF q
<1> QED
  BY <1>1, <1>3, <1>4

-----------------------------------------------------------------------------
(* The words of the file are those of the lines that are kept.             *)
Kept(ls) == Only(ls, {n \in DOMAIN ls : Meaningful(ls[n])})
LineWords(l) == IF Meaningful(l) THEN TokensOf(l) ELSE <<>>
Worded  == [l \in Line |-> TokensOf(l)]
Sparing == [l \in Line |-> LineWords(l)]

LEMMA KeptStep ==
  ASSUME NEW ls \in Seq(Line), NEW l \in Line
  PROVE  /\ Kept(ls) \in Seq(Line)
         /\ Kept(Append(ls, l)) = IF Meaningful(l) THEN Append(Kept(ls), l) ELSE Kept(ls)
<1> DEFINE q == Append(ls, l)
           N == {n \in DOMAIN ls : Meaningful(ls[n])}
           M == {n \in DOMAIN q : Meaningful(q[n])}
<1>1. q \in Seq(Line) /\ Len(q) = Len(ls) + 1 /\ Len(ls) \in Nat
      /\ q[Len(ls) + 1] = l /\ (\A n \in 1 .. Len(ls) : q[n] = ls[n])
      /\ DOMAIN ls = 1 .. Len(ls) /\ DOMAIN q = 1 .. Len(ls) + 1
  BY AppendProperties, LenProperties
<1> HIDE DEF q
<1>2. \A n \in 1 .. Len(ls) : n \in M <=> n \in N
  BY <1>1
<1>3. Len(ls) + 1 \in M <=> Meaningful(l)
  BY <1>1
<1>4. Kept(q) = Only(q, M) /\ Kept(ls) = Only(ls, N)
  BY DEF Kept
<1> HIDE DEF N, M
<1>5. Only(q, M) = IF Len(ls) + 1 \in M THEN Append(Only(ls, N), l) ELSE Only(ls, N)
  BY <1>2, OnlyStep DEF q
<1>6. Only(ls, N) \in Seq(Line)
  BY OnlyIs
<1> QED
  BY <1>3, <1>4, <1>5, <1>6 DEF q

LEMMA WordedTyped ==
  /\ Worded \in [Line -> Seq(Line)] /\ Sparing \in [Line -> Seq(Line)]
  /\ \A l \in Line : Sparing[l] = IF Meaningful(l) THEN Worded[l] ELSE <<>>
<1>1. \A l \in Line : TokensOf(l) \in Seq(Line)
  BY WordsFacts
<1>2. <<>> \in Seq(Line)
  OBVIOUS
<1>3. \A l \in Line : LineWords(l) \in Seq(Line)
  BY <1>1, <1>2 DEF LineWords
<1> QED
  BY <1>1, <1>3 DEF Worded, Sparing, LineWords

LEMMA WordedStep ==
  /\ Mapped(Sparing, <<>>) = <<>> /\ Mapped(Worded, <<>>) = <<>>
  /\ \A ls \in Seq(Line) : Mapped(Sparing, ls) \in Seq(Line) /\ Mapped(Worded, ls) \in Seq(Line)
  /\ \A ls \in Seq(Line), l \in Line :
       /\ Mapped(Sparing, Append(ls, l)) = Mapped(Sparing, ls) \o Sparing[l]
       /\ Mapped(Worded, Append(ls, l)) = Mapped(Worded, ls) \o Worded[l]
<1>1. PICK F \in [Line -> Seq(Line)], G \in [Line -> Seq(Line)] : F = Sparing /\ G = Worded
  BY WordedTyped
<1>2. Mapped(F, <<>>) = <<>> /\ Mapped(G, <<>>) = <<>>
  BY MappedFacts
<1>3. \A ls \in Seq(Line) : Mapped(F, ls) \in Seq(Line)
  BY MappedFacts
<1>4. \A ls \in Seq(Line) : Mapped(G, ls) \in Seq(Line)
  BY MappedFacts
<1>5. \A ls \in Seq(Line), l \in Line : Mapped(F, Append(ls, l)) = Mapped(F, ls) \o F[l]
  BY MappedFacts
<1>6. \A ls \in Seq(Line), l \in Line : Mapped(G, Append(ls, l)) = Mapped(G, ls) \o G[l]
  BY MappedFacts
<1> QED
  BY <1>1, <1>2, <1>3, <1>4, <1>5, <1>6

LEMMA KeptWords ==
  \A ls \in Seq(Line) : Mapped(Sparing, ls) = Mapped(Worded, Kept(ls))
<1> DEFINE T == {ls \in Seq(Line) : Mapped(Sparing, ls) = Mapped(Worded, Kept(ls))}
<1>1. <<>> \in T
  <2>1. <<>> \in Seq(Line) /\ Kept(<<>>) = <<>>
    BY OnlyNone DEF Kept
  <2> QED
    BY <2>1, WordedStep
<1>2. ASSUME NEW ls \in Seq(Line), NEW l \in Line, ls \in T PROVE Append(ls, l) \in T
  <2>1. Mapped(Sparing, Append(ls, l)) = Mapped(Sparing, ls) \o Sparing[l]
    BY WordedStep
  <2>2. Mapped(Sparing, ls) = Mapped(Worded, Kept(ls)) /\ Append(ls, l) \in Seq(Line)
    BY <1>2, AppendProperties
  <2> HIDE DEF T
  <2>3. CASE Meaningful(l)
    <3>1. Kept(Append(ls, l)) = Append(Kept(ls), l) /\ Kept(ls) \in Seq(Line)
      BY <2>3, KeptStep
    <3>2. Mapped(Worded, Append(Kept(ls), l)) = Mapped(Worded, Kept(ls)) \o Worded[l]
      BY <3>1, WordedStep
    <3>3. Sparing[l] = Worded[l]
      BY <2>3, WordedTyped
    <3> QED
      BY <2>1, <2>2, <3>1, <3>2, <3>3 DEF T
  <2>4. CASE ~Meaningful(l)
    <3>1. Kept(Append(ls, l)) = Kept(ls)
      BY <2>4, KeptStep
    <3>2. Sparing[l] = <<>>
      BY <2>4, WordedTyped
    <3>3. Mapped(Sparing, ls) \o <<>> = Mapped(Sparing, ls)
      <4>1. Mapped(Sparing, ls) \in Seq(Line)
        BY WordedStep
      <4> QED
        BY <4>1, ConcatEmptySeq
    <3> QED
      BY <2>1, <2>2, <3>1, <3>2, <3>3 DEF T
  <2> QED
    BY <2>3, <2>4
<1> HIDE DEF T
<1>3. \A ls \in Seq(Line) : ls \in T
  BY <1>1, <1>2, AllSequences
<1> QED
  BY <1>3 DEF T

(* The file as it is: what it holds counts only if it is there.            *)
LinesKept == IF file.there THEN Kept(file.lines) ELSE <<>>
FileWords == IF file.there THEN TokensOfFile ELSE <<>>

LEMMA FileWordsAre ==
  ASSUME file \in ResponseFiles
  PROVE  /\ LinesKept \in Seq(Line) /\ FileWords = Mapped(Worded, LinesKept)
         /\ FileWords \in Seq(Line)
<1>1. file.lines \in Seq(Line)
  BY ResponseFilesAssumption DEF Line, Symbol
<1>2. LinesKept \in Seq(Line)
  <2>1. CASE file.there
    <3>1. Kept(file.lines) \in Seq(Line)
      BY <1>1, OnlyIs DEF Kept
    <3> QED
      BY <2>1, <3>1 DEF LinesKept
  <2>2. CASE ~file.there
    <3>1. <<>> \in Seq(Line)
      OBVIOUS
    <3> QED
      BY <2>2, <3>1 DEF LinesKept
  <2> QED
    BY <2>1, <2>2
<1>3. ASSUME file.there PROVE FileWords = Mapped(Worded, LinesKept)
  <2> DEFINE ls == file.lines
  <2>1. DOMAIN ls = 1 .. Len(ls) /\ \A n \in 1 .. Len(ls) : ls[n] \in Line
    BY <1>1, LenProperties
  <2>2. TokensOfFile = SX!FlattenSeq([n \in DOMAIN ls |-> LineWords(ls[n])])
    BY DEF TokensOfFile, LineWords
  <2> HIDE DEF ls
  <2>3. [n \in DOMAIN ls |-> LineWords(ls[n])] = [n \in 1 .. Len(ls) |-> Sparing[ls[n]]]
    BY <2>1 DEF Sparing
  <2>4. TokensOfFile = Mapped(Sparing, ls)
    BY <2>2, <2>3 DEF Mapped
  <2> QED
    BY <1>1, <1>3, <2>4, KeptWords DEF LinesKept, FileWords, ls
<1>4. ASSUME ~file.there PROVE FileWords = Mapped(Worded, LinesKept)
  BY <1>4, WordedStep DEF LinesKept, FileWords
<1>5. FileWords = Mapped(Worded, LinesKept)
  BY <1>3, <1>4
<1>6. FileWords \in Seq(Line)
  BY <1>2, <1>5, WordedStep
<1> QED
  BY <1>2, <1>5, <1>6

(* The words of the first k lines.                                         *)
TokensOfLines(ls, k) == SX!FlattenSeq([n \in 1 .. k |-> TokensOf(ls[n])])

LEMMA LinesFacts ==
  ASSUME NEW ls \in Seq(Line)
  PROVE  /\ TokensOfLines(ls, 0) = <<>> /\ TokensOfLines(ls, Len(ls)) = Mapped(Worded, ls)
         /\ \A k \in 1 .. Len(ls) :
              /\ ls[k] \in Line /\ TokensOfLines(ls, k - 1) \in Seq(Line)
              /\ TokensOfLines(ls, k) = TokensOfLines(ls, k - 1) \o TokensOf(ls[k])
<1> DEFINE N == Len(ls)
           B == [n \in 1 .. N |-> TokensOf(ls[n])]
<1>1. N \in Nat /\ \A k \in 1 .. N : ls[k] \in Line
  BY LenProperties
<1>2. B \in [1 .. N -> Seq(Line)]
  BY <1>1, WordsFacts
<1>3. ASSUME NEW k \in 0 .. N PROVE TokensOfLines(ls, k) = Flat(B, k)
  <2>1. \A n \in 1 .. k : n \in 1 .. N
    BY <1>1
  <2> HIDE DEF N
  <2>2. [n \in 1 .. k |-> TokensOf(ls[n])] = [n \in 1 .. k |-> B[n]]
    BY <2>1
  <2> QED
    BY <2>2 DEF TokensOfLines, Flat
<1>4. TokensOfLines(ls, N) = Mapped(Worded, ls)
  <2>1. [n \in 1 .. N |-> TokensOf(ls[n])] = [n \in 1 .. N |-> Worded[ls[n]]]
    BY <1>1 DEF Worded
  <2> QED
    BY <2>1 DEF TokensOfLines, Mapped
<1>5. \A n \in 1 .. N : B[n] = TokensOf(ls[n])
  OBVIOUS
<1> HIDE DEF B, N
<1>6. /\ \A k \in 0 .. N - 1 : Flat(B, k + 1) = Flat(B, k) \o B[k + 1]
      /\ \A k \in 0 .. N : Flat(B, k) \in Seq(Line)
  BY <1>1, <1>2, FlattenPrefix
<1>7. TokensOfLines(ls, 0) = <<>>
  <2>1. [n \in 1 .. 0 |-> TokensOf(ls[n])] = <<>>
    OBVIOUS
  <2> QED
    BY <2>1, FlattenEmpty DEF TokensOfLines
<1>8. ASSUME NEW k \in 1 .. N
      PROVE  /\ TokensOfLines(ls, k - 1) \in Seq(Line)
             /\ TokensOfLines(ls, k) = TokensOfLines(ls, k - 1) \o TokensOf(ls[k])
  <2>1. PICK j \in 0 .. N - 1 : j = k - 1 /\ j + 1 = k /\ j \in 0 .. N /\ k \in 0 .. N
    BY <1>1
  <2> QED
    BY <1>3, <1>5, <1>6, <2>1
<1> QED
  BY <1>1, <1>4, <1>7, <1>8 DEF N

-----------------------------------------------------------------------------
(* The splitter within a line l, at position p, with the words b from the  *)
(* lines before: in quotes or not (q), with token t and words a.           *)
WithWord(t, a) == IF IsBlank(t) THEN a ELSE Append(a, t)
Within(l, p, q, t, a, b) ==
  /\ l \in Line /\ p \in 1 .. Len(l) + 1 /\ b \in Seq(Line)
  /\ q \in BOOLEAN /\ (q <=> QuotesBefore(l, p) % 2 = 1)
  /\ t = Part(l, p)
  /\ a = b \o WordsBefore(l, p)

LEMMA BlankIsNoQuote == Blank \cap Quote = {}
  BY DEF Blank, Quote

LEMMA Parity ==
  \A n \in Nat : /\ n % 2 = 0 <=> ~(n % 2 = 1)
                 /\ (n + 1) % 2 = 1 <=> ~(n % 2 = 1)
  OBVIOUS

LEMMA WordGoesOn ==
  ASSUME NEW l \in Line, NEW p \in 1 .. Len(l), p \notin Ends(l)
  PROVE  WordsBefore(l, p + 1) = WordsBefore(l, p)
<1>1. p \in 1 .. Len(l) + 1
  BY EndsTyped
<1>2. WordsBefore(l, p) \in Seq(Line) /\ WordsBefore(l, p + 1) = WordsBefore(l, p) \o WordAt(l, p)
  BY <1>1, WordsFacts
<1>3. WordAt(l, p) = <<>>
  BY DEF WordAt
<1> QED
  BY <1>2, <1>3, ConcatEmptySeq

(* Adding the word that ends at p, from the lines before on.               *)
LEMMA WordEnds ==
  ASSUME NEW l \in Line, NEW p \in 1 .. Len(l) + 1, p \in Ends(l), NEW b \in Seq(Line)
  PROVE  WithWord(Part(l, p), b \o WordsBefore(l, p)) = b \o WordsBefore(l, p + 1)
<1>1. WordsBefore(l, p) \in Seq(Line) /\ WordsBefore(l, p + 1) = WordsBefore(l, p) \o WordAt(l, p)
  BY WordsFacts
<1>2. Part(l, p) \in Line
  BY PartFacts
<1>3. CASE IsBlank(Part(l, p))
  <2>1. WordAt(l, p) = <<>>
    BY <1>3 DEF WordAt
  <2>2. WordsBefore(l, p + 1) = WordsBefore(l, p)
    BY <1>1, <2>1, ConcatEmptySeq
  <2> QED
    BY <1>3, <2>2 DEF WithWord
<1>4. CASE ~IsBlank(Part(l, p))
  <2>1. WordAt(l, p) = <<Part(l, p)>>
    BY <1>4 DEF WordAt
  <2>2. PICK w \in Seq(Line) : w = WordsBefore(l, p)
    BY <1>1
  <2>3. PICK e \in Line : e = Part(l, p)
    BY <1>2
  <2>4. WordsBefore(l, p + 1) = Append(w, e)
    BY <1>1, <2>1, <2>2, <2>3, AppendIsConcat
  <2>5. Append(b \o w, e) = b \o Append(w, e)
    <3>1. b \o w \in Seq(Line) /\ <<e>> \in Seq(Line)
      BY ConcatProperties
    <3>2. Append(b \o w, e) = (b \o w) \o <<e>> /\ Append(w, e) = w \o <<e>>
      BY <3>1, AppendIsConcat
    <3>3. (b \o w) \o <<e>> = b \o (w \o <<e>>)
      BY <3>1, ConcatAssociative
    <3> QED
      BY <3>2, <3>3
  <2> QED
    BY <1>4, <2>2, <2>3, <2>4, <2>5 DEF WithWord
<1> QED
  BY <1>3, <1>4

LEMMA QuoteStep ==
  ASSUME NEW l, NEW p, NEW q, NEW t, NEW a, NEW b, Within(l, p, q, t, a, b),
         p <= Len(l), l[p] \in Quote
  PROVE  Within(l, p + 1, ~q, t, a, b)
<1>1. /\ l \in Line /\ p \in 1 .. Len(l) /\ Len(l) \in Nat /\ p \in 1 .. Len(l) + 1
      /\ b \in Seq(Line) /\ q \in BOOLEAN
  BY EndsTyped DEF Within
<1>2. QuotesBefore(l, p) \in Nat /\ QuotesBefore(l, p + 1) = QuotesBefore(l, p) + 1
  BY <1>1, QuotesStep DEF Line
<1>3. p \notin Ends(l)
  BY <1>1, EndsTyped, BlankIsNoQuote
<1>4. Part(l, p + 1) = Part(l, p)
  BY <1>1, <1>3, PartFacts
<1>5. WordsBefore(l, p + 1) = WordsBefore(l, p)
  BY <1>1, <1>3, WordGoesOn
<1>6. (~q) <=> QuotesBefore(l, p + 1) % 2 = 1
  <2>1. q <=> QuotesBefore(l, p) % 2 = 1
    BY DEF Within
  <2> QED
    BY <1>2, <2>1, Parity
<1>7. p + 1 \in 1 .. Len(l) + 1 /\ (~q) \in BOOLEAN
  BY <1>1
<1> QED
  BY <1>1, <1>4, <1>5, <1>6, <1>7 DEF Within

LEMMA SeparatorStep ==
  ASSUME NEW l, NEW p, NEW q, NEW t, NEW a, NEW b, Within(l, p, q, t, a, b),
         p <= Len(l), l[p] \in Blank, ~q
  PROVE  Within(l, p + 1, q, <<>>, WithWord(t, a), b)
<1>1. /\ l \in Line /\ p \in 1 .. Len(l) /\ Len(l) \in Nat /\ p \in 1 .. Len(l) + 1
      /\ b \in Seq(Line) /\ q \in BOOLEAN /\ t = Part(l, p) /\ a = b \o WordsBefore(l, p)
  BY EndsTyped DEF Within
<1>2. QuotesBefore(l, p) \in Nat /\ QuotesBefore(l, p + 1) = QuotesBefore(l, p)
  BY <1>1, QuotesStep, BlankIsNoQuote DEF Line
<1>3. p \in Ends(l)
  <2>1. QuotesBefore(l, p) % 2 = 0
    BY <1>2, Parity DEF Within
  <2> QED
    BY <1>1, <2>1, EndsTyped
<1>4. Part(l, p + 1) = <<>>
  BY <1>1, <1>3, PartFacts
<1>5. WithWord(t, a) = b \o WordsBefore(l, p + 1)
  BY <1>1, <1>3, WordEnds
<1>6. q <=> QuotesBefore(l, p + 1) % 2 = 1
  BY <1>2 DEF Within
<1>7. p + 1 \in 1 .. Len(l) + 1
  BY <1>1
<1> QED
  BY <1>1, <1>4, <1>5, <1>6, <1>7 DEF Within

LEMMA CharacterStep ==
  ASSUME NEW l, NEW p, NEW q, NEW t, NEW a, NEW b, Within(l, p, q, t, a, b),
         p <= Len(l), l[p] \notin Quote, ~(l[p] \in Blank /\ ~q)
  PROVE  Within(l, p + 1, q, Append(t, l[p]), a, b)
<1>1. /\ l \in Line /\ p \in 1 .. Len(l) /\ Len(l) \in Nat /\ p \in 1 .. Len(l) + 1
      /\ b \in Seq(Line) /\ q \in BOOLEAN /\ t = Part(l, p) /\ a = b \o WordsBefore(l, p)
  BY EndsTyped DEF Within
<1>2. QuotesBefore(l, p) \in Nat /\ QuotesBefore(l, p + 1) = QuotesBefore(l, p)
  BY <1>1, QuotesStep DEF Line
<1>3. p \notin Ends(l)
  <2>1. q => ~(QuotesBefore(l, p) % 2 = 0)
    BY <1>2, Parity DEF Within
  <2> QED
    BY <1>1, <2>1, EndsTyped
<1>4. Part(l, p + 1) = Append(t, l[p])
  BY <1>1, <1>3, PartFacts
<1>5. WordsBefore(l, p + 1) = WordsBefore(l, p)
  BY <1>1, <1>3, WordGoesOn
<1>6. q <=> QuotesBefore(l, p + 1) % 2 = 1
  BY <1>2 DEF Within
<1>7. p + 1 \in 1 .. Len(l) + 1
  BY <1>1
<1> QED
  BY <1>1, <1>4, <1>5, <1>6, <1>7 DEF Within

LEMMA LineEndStep ==
  ASSUME NEW l, NEW p, NEW q, NEW t, NEW a, NEW b, Within(l, p, q, t, a, b), p > Len(l)
  PROVE  WithWord(t, a) = b \o TokensOf(l)
<1>1. /\ l \in Line /\ Len(l) \in Nat /\ p \in 1 .. Len(l) + 1 /\ p = Len(l) + 1
      /\ b \in Seq(Line) /\ t = Part(l, p) /\ a = b \o WordsBefore(l, p)
  BY EndsTyped DEF Within
<1>2. p \in Ends(l)
  BY <1>1, EndsTyped
<1>3. WithWord(t, a) = b \o WordsBefore(l, p + 1)
  BY <1>1, <1>2, WordEnds
<1>4. WordsBefore(l, p + 1) = TokensOf(l)
  BY <1>1, WordsFacts
<1> QED
  BY <1>3, <1>4

(* The splitter in the lines ls, in line k.                                *)
InLines(ls, k, p, q, t, a) ==
  /\ ls \in Seq(Line) /\ k \in 1 .. Len(ls) + 1
  /\ k <= Len(ls) => Within(ls[k], p, q, t, a, TokensOfLines(ls, k - 1))
  /\ k > Len(ls) => p = 1 /\ t = <<>> /\ q = FALSE /\ a = TokensOfLines(ls, Len(ls))

LEMMA LineStart ==
  ASSUME NEW ls \in Seq(Line), NEW k \in 0 .. Len(ls)
  PROVE  InLines(ls, k + 1, 1, FALSE, <<>>, TokensOfLines(ls, k))
<1>1. Len(ls) \in Nat /\ k + 1 \in 1 .. Len(ls) + 1 /\ (k + 1) - 1 = k
  BY LenProperties
<1>0. PICK N \in Nat, m \in Nat : N = Len(ls) /\ m = k + 1
  BY <1>1
<1>2. CASE k + 1 <= Len(ls)
  <2>1. k + 1 \in 1 .. Len(ls)
    BY <1>1, <1>2
  <2>2. ls[k + 1] \in Line /\ TokensOfLines(ls, (k + 1) - 1) \in Seq(Line)
    BY <2>1, LinesFacts
  <2>3. PICK l \in Line : l = ls[k + 1]
    BY <2>2
  <2>4. PICK w \in Seq(Line) : w = TokensOfLines(ls, k)
    BY <1>1, <2>2
  <2>5. Len(l) \in Nat /\ 1 \in 1 .. Len(l) + 1
    <3>1. Len(l) \in Nat
      BY EndsTyped
    <3> QED
      BY <3>1
  <2>6. WordsBefore(l, 1) = <<>> /\ Part(l, 1) = <<>>
    BY <2>5, WordsFacts, PartFacts
  <2>7. QuotesBefore(l, 1) % 2 = 0
    <3>1. {i \in 1 .. 1 - 1 : l[i] \in Quote} = {}
      OBVIOUS
    <3>2. QuotesBefore(l, 1) = 0
      BY <3>1, FS_EmptySet DEF QuotesBefore
    <3> QED
      BY <3>2
  <2>8. w = w \o <<>>
    BY ConcatEmptySeq
  <2>9. Within(l, 1, FALSE, <<>>, w, w)
    BY <2>5, <2>6, <2>7, <2>8 DEF Within
  <2>10. m <= N /\ ~(m > N) /\ m \in 1 .. N + 1
    BY <1>0, <1>1, <1>2
  <2> QED
    BY <1>0, <1>1, <2>3, <2>4, <2>9, <2>10 DEF InLines
<1>3. CASE k + 1 > Len(ls)
  <2>1. k = N /\ m > N /\ ~(m <= N) /\ m \in 1 .. N + 1
    BY <1>0, <1>1, <1>3
  <2> QED
    BY <1>0, <2>1 DEF InLines
<1>4. k + 1 <= Len(ls) \/ k + 1 > Len(ls)
  BY <1>0
<1> QED
  BY <1>2, <1>3, <1>4

LEMMA LineDone ==
  ASSUME NEW ls, NEW k, NEW p, NEW q, NEW t, NEW a, InLines(ls, k, p, q, t, a),
         k <= Len(ls), p > Len(ls[k])
  PROVE  InLines(ls, k + 1, 1, FALSE, <<>>, WithWord(t, a))
<1>1. ls \in Seq(Line) /\ k \in 1 .. Len(ls) /\ k \in 0 .. Len(ls)
  <2>1. ls \in Seq(Line) /\ k \in 1 .. Len(ls) + 1
    BY DEF InLines
  <2>2. Len(ls) \in Nat
    BY <2>1, LenProperties
  <2> QED
    BY <2>1, <2>2
<1>2. Within(ls[k], p, q, t, a, TokensOfLines(ls, k - 1))
  BY DEF InLines
<1>3. WithWord(t, a) = TokensOfLines(ls, k - 1) \o TokensOf(ls[k])
  BY <1>2, LineEndStep
<1>4. WithWord(t, a) = TokensOfLines(ls, k)
  BY <1>1, <1>3, LinesFacts
<1> QED
  BY <1>1, <1>4, LineStart

LEMMA LinesEnd ==
  ASSUME NEW ls, NEW k, NEW p, NEW q, NEW t, NEW a, InLines(ls, k, p, q, t, a), k > Len(ls)
  PROVE  a = Mapped(Worded, ls)
  BY LinesFacts DEF InLines

-----------------------------------------------------------------------------
(* How far the options have been read.                                     *)
OwnValues == ValuesOf(FromCommandLine)
OwnNamed  == "response-file" \in DOMAIN OwnValues
Response  == IF OwnNamed THEN FileWords ELSE <<>>
AllValues == Beneath(OwnValues, ValuesOf(Occurrences(Response, FALSE)))
Refusable == \/ Rejected(FromCommandLine) \/ conf # "good"
             \/ values = OwnValues /\ OwnNamed /\ Rejected(Occurrences(FileWords, FALSE))

ReadingInv ==
  /\ argv \in CommandLines /\ file \in ResponseFiles
  /\ stage \in {"command line", "conf", "response"} =>
       at = 1 /\ pos = 1 /\ quoted = FALSE /\ token = <<>> /\ args = <<>>
  /\ stage \in {"conf", "response", "split", "store"} => values = OwnValues
  /\ stage \in {"split", "store"} => OwnNamed
  /\ stage = "split" => lines = LinesKept /\ InLines(lines, at, pos, quoted, token, args)
  /\ stage = "store" => args = FileWords
  /\ stage \in {"outcome", "informed", "configured"} => values = AllValues
  /\ stage = "failed" => Refusable

LEMMA ReadingInit == Init => ReadingInv
  BY DEF Init, ConfigInit, ReadingInv

LEMMA SameGiven ==
  ASSUME argv' = argv, file' = file
  PROVE  /\ (OwnValues' = OwnValues) /\ (OwnNamed' <=> OwnNamed) /\ (LinesKept' = LinesKept)
         /\ (FileWords' = FileWords) /\ (AllValues' = AllValues)
         /\ Rejected(FromCommandLine)' <=> Rejected(FromCommandLine)
         /\ Rejected(Occurrences(FileWords, FALSE))' <=> Rejected(Occurrences(FileWords, FALSE))
<1>1. OwnValues' = OwnValues
  BY DEF OwnValues, FromCommandLine
<1>2. FileWords' = FileWords
  BY DEF FileWords, TokensOfFile
<1>3. Rejected(FromCommandLine)' <=> Rejected(FromCommandLine)
  BY DEF FromCommandLine
<1>4. LinesKept' = LinesKept
  BY DEF LinesKept
<1> QED
  BY <1>1, <1>2, <1>3, <1>4 DEF OwnNamed, Response, AllValues

LEMMA NothingBeneath ==
  ASSUME ~OwnNamed
  PROVE  OwnValues = AllValues
<1>1. Response = <<>>
  BY DEF Response
<1>2. Occurrences(<<>>, FALSE) = <<>>
  BY DEF Occurrences
<1>3. DOMAIN ValuesOf(<<>>) = {}
  BY DEF ValuesOf
<1>4. OwnValues = [o \in DOMAIN OwnValues |-> OwnValues[o]]
  BY DEF OwnValues, ValuesOf
<1> HIDE DEF OwnValues
<1>5. Beneath(OwnValues, ValuesOf(<<>>)) = [o \in DOMAIN OwnValues |-> OwnValues[o]]
  BY <1>3 DEF Beneath
<1> QED
  BY <1>1, <1>2, <1>4, <1>5 DEF AllValues

LEMMA ReadingStep == ReadingInv /\ ConfigNext => ReadingInv'
<1> SUFFICES ASSUME ReadingInv, ConfigNext PROVE ReadingInv'
  OBVIOUS
<1>1. argv' = argv /\ file' = file /\ conf' = conf
  BY DEF ConfigNext, ReadCommandLine, ReadConf, NoResponseFile, LoadResponseFile, ToggleQuote,
         EndToken, TakeCharacter, EndLine, SplitComplete, StoreResponse, TellOutcome, given
<1>2. /\ (OwnValues' = OwnValues) /\ (OwnNamed' <=> OwnNamed) /\ (LinesKept' = LinesKept)
      /\ (FileWords' = FileWords) /\ (AllValues' = AllValues)
      /\ Rejected(FromCommandLine)' <=> Rejected(FromCommandLine)
      /\ Rejected(Occurrences(FileWords, FALSE))' <=> Rejected(Occurrences(FileWords, FALSE))
  BY <1>1, SameGiven
<1>3. argv' \in CommandLines /\ file' \in ResponseFiles
  BY <1>1 DEF ReadingInv
<1>4. CASE ReadCommandLine
  <2>1. /\ at = 1 /\ pos = 1 /\ quoted = FALSE /\ token = <<>> /\ args = <<>>
        /\ at' = at /\ pos' = pos /\ quoted' = quoted /\ token' = token /\ args' = args
    BY <1>4 DEF ReadCommandLine, ReadingInv, reader
  <2>2. \/ stage' = "failed" /\ Rejected(FromCommandLine)
        \/ stage' = "conf" /\ values' = OwnValues
    BY <1>4 DEF ReadCommandLine, OwnValues
  <2> QED
    BY <1>2, <1>3, <2>1, <2>2 DEF ReadingInv, Refusable
<1>5. CASE ReadConf
  <2>1. /\ stage = "conf" /\ values' = values
        /\ (stage' = "failed" /\ conf # "good") \/ stage' = "response"
        /\ at' = at /\ pos' = pos /\ quoted' = quoted /\ token' = token /\ args' = args
    BY <1>5 DEF ReadConf, reader
  <2> QED
    BY <1>1, <1>2, <1>3, <2>1 DEF ReadingInv, Refusable
<1>6. CASE NoResponseFile
  <2>1. stage = "response" /\ stage' = "outcome" /\ values' = values /\ values = OwnValues /\ ~Named
    BY <1>6 DEF NoResponseFile, ReadingInv
  <2>2. ~OwnNamed
    BY <2>1 DEF OwnNamed, Named
  <2> QED
    BY <1>2, <1>3, <2>1, <2>2, NothingBeneath DEF ReadingInv
<1>7. CASE LoadResponseFile
  <2>1. /\ stage = "response" /\ stage' = "split" /\ values' = values /\ values = OwnValues /\ Named
        /\ lines' = LinesKept
        /\ at' = 1 /\ pos' = 1 /\ quoted' = FALSE /\ token' = <<>> /\ args' = <<>>
    BY <1>7 DEF LoadResponseFile, ReadingInv, LinesKept, Kept
  <2>2. OwnNamed
    BY <2>1 DEF OwnNamed, Named
  <2>3. LinesKept \in Seq(Line)
    BY FileWordsAre DEF ReadingInv
  <2>4. PICK ls \in Seq(Line) : ls = LinesKept
    BY <2>3
  <2>5. InLines(ls, 1, 1, FALSE, <<>>, <<>>)
    <3>1. 0 \in 0 .. Len(ls) /\ 0 + 1 = 1
      BY LenProperties
    <3>2. TokensOfLines(ls, 0) = <<>>
      BY LinesFacts
    <3> QED
      BY <3>1, <3>2, LineStart
  <2>6. InLines(lines', at', pos', quoted', token', args')
    BY <2>1, <2>4, <2>5
  <2> QED
    BY <1>2, <1>3, <2>1, <2>2, <2>6 DEF ReadingInv
<1>8. CASE ToggleQuote \/ EndToken \/ TakeCharacter \/ EndLine
  <2>1. /\ stage = "split" /\ stage' = "split" /\ values' = values /\ lines' = lines
        /\ lines = LinesKept /\ OwnNamed /\ values = OwnValues
        /\ InLines(lines, at, pos, quoted, token, args)
        /\ at <= Len(lines)
    BY <1>8 DEF ToggleQuote, EndToken, TakeCharacter, EndLine, InLine, ReadingInv
  <2> DEFINE l == lines[at]
             b == TokensOfLines(lines, at - 1)
  <2>2. Within(l, pos, quoted, token, args, b) /\ lines \in Seq(Line) /\ at \in 1 .. Len(lines) + 1
    BY <2>1 DEF InLines
  <2>3. ASSUME at' = at, Within(l, pos', quoted', token', args', b)
        PROVE  InLines(lines', at', pos', quoted', token', args')
    <3>1. Len(lines) \in Nat
      BY <2>2, LenProperties
    <3>2. ~(at > Len(lines))
      BY <2>1, <2>2, <3>1
    <3> QED
      BY <2>1, <2>2, <2>3, <3>2 DEF InLines
  <2>4. ASSUME ToggleQuote PROVE InLines(lines', at', pos', quoted', token', args')
    <3>1. /\ l[pos] \in Quote /\ pos <= Len(l)
          /\ at' = at /\ quoted' = ~quoted /\ pos' = pos + 1 /\ token' = token /\ args' = args
      BY <2>4 DEF ToggleQuote, InLine, Character
    <3> HIDE DEF l, b
    <3>2. Within(l, pos + 1, ~quoted, token, args, b)
      BY <2>2, <3>1, QuoteStep
    <3> QED
      BY <2>3, <3>1, <3>2
  <2>5. ASSUME EndToken PROVE InLines(lines', at', pos', quoted', token', args')
    <3>1. /\ l[pos] \in Blank /\ ~quoted /\ pos <= Len(l)
          /\ at' = at /\ quoted' = quoted /\ pos' = pos + 1 /\ token' = <<>>
          /\ args' = WithWord(token, args)
      BY <2>5 DEF EndToken, InLine, Character, Separates, WithToken, WithWord
    <3> HIDE DEF l, b
    <3>2. Within(l, pos + 1, quoted, <<>>, WithWord(token, args), b)
      BY <2>2, <3>1, SeparatorStep
    <3> QED
      BY <2>3, <3>1, <3>2
  <2>6. ASSUME TakeCharacter PROVE InLines(lines', at', pos', quoted', token', args')
    <3>1. /\ l[pos] \notin Quote /\ ~(l[pos] \in Blank /\ ~quoted) /\ pos <= Len(l)
          /\ at' = at /\ quoted' = quoted /\ pos' = pos + 1 /\ token' = Append(token, l[pos])
          /\ args' = args
      BY <2>6 DEF TakeCharacter, InLine, Character, Separates
    <3> HIDE DEF l, b
    <3>2. Within(l, pos + 1, quoted, Append(token, l[pos]), args, b)
      BY <2>2, <3>1, CharacterStep
    <3> QED
      BY <2>3, <3>1, <3>2
  <2>7. ASSUME EndLine PROVE InLines(lines', at', pos', quoted', token', args')
    <3>1. /\ pos > Len(lines[at]) /\ at' = at + 1 /\ pos' = 1 /\ quoted' = FALSE /\ token' = <<>>
          /\ args' = WithWord(token, args)
      BY <2>7 DEF EndLine, WithToken, WithWord
    <3>2. InLines(lines, at + 1, 1, FALSE, <<>>, WithWord(token, args))
      BY <2>1, <3>1, LineDone
    <3> QED
      BY <2>1, <3>1, <3>2
  <2>8. InLines(lines', at', pos', quoted', token', args')
    BY <1>8, <2>4, <2>5, <2>6, <2>7
  <2> HIDE DEF l, b
  <2> QED
    BY <1>2, <1>3, <2>1, <2>8 DEF ReadingInv
<1>9. CASE SplitComplete
  <2>1. /\ stage = "split" /\ stage' = "store" /\ values' = values /\ args' = args
        /\ lines = LinesKept /\ OwnNamed /\ values = OwnValues
        /\ InLines(lines, at, pos, quoted, token, args) /\ at > Len(lines)
    BY <1>9 DEF SplitComplete, ReadingInv, reader
  <2>2. args = Mapped(Worded, lines)
    BY <2>1, LinesEnd
  <2>3. args = FileWords
    BY <2>1, <2>2, FileWordsAre DEF ReadingInv
  <2> QED
    BY <1>2, <1>3, <2>1, <2>3 DEF ReadingInv
<1>10. CASE StoreResponse
  <2>1. stage = "store" /\ args = FileWords /\ OwnNamed /\ values = OwnValues
    BY <1>10 DEF StoreResponse, ReadingInv
  <2>2. \/ stage' = "failed" /\ values' = values /\ Rejected(Occurrences(FileWords, FALSE))
        \/ stage' = "outcome" /\ values' = Beneath(OwnValues, ValuesOf(Occurrences(FileWords, FALSE)))
    BY <1>10, <2>1 DEF StoreResponse, FromResponseFile
  <2>3. Response = FileWords
    BY <2>1 DEF Response
  <2> QED
    BY <1>2, <1>3, <2>1, <2>2, <2>3 DEF ReadingInv, Refusable, AllValues
<1>11. CASE TellOutcome
  <2>1. stage = "outcome" /\ stage' \in {"informed", "configured"} /\ values' = values
    BY <1>11 DEF TellOutcome
  <2>2. values = AllValues
    BY <2>1 DEF ReadingInv
  <2> QED
    BY <1>2, <1>3, <2>1, <2>2 DEF ReadingInv
<1> QED
  BY <1>4, <1>5, <1>6, <1>7, <1>8, <1>9, <1>10, <1>11 DEF ConfigNext

LEMMA ReadingStays ==
  ASSUME ReadingInv, argv' = argv, file' = file, conf' = conf, stage' = stage, values' = values,
         lines' = lines, at' = at, pos' = pos, quoted' = quoted, token' = token, args' = args
  PROVE  ReadingInv'
<1>1. /\ (OwnValues' = OwnValues) /\ (OwnNamed' <=> OwnNamed) /\ (LinesKept' = LinesKept)
      /\ (FileWords' = FileWords) /\ (AllValues' = AllValues)
      /\ Rejected(FromCommandLine)' <=> Rejected(FromCommandLine)
      /\ Rejected(Occurrences(FileWords, FALSE))' <=> Rejected(Occurrences(FileWords, FALSE))
  BY SameGiven
<1> QED
  BY <1>1 DEF ReadingInv, Refusable

LEMMA ReadingAlways == Spec => []ReadingInv
<1>1. Init => ReadingInv
  BY ReadingInit
<1>2. ReadingInv /\ [Next]_vars => ReadingInv'
  <2> SUFFICES ASSUME ReadingInv, [Next]_vars PROVE ReadingInv'
    OBVIOUS
  <2>1. CASE ConfigNext
    BY <2>1, ReadingStep
  <2>2. CASE UNCHANGED configVars
    <3>1. /\ argv' = argv /\ file' = file /\ conf' = conf /\ stage' = stage /\ values' = values
          /\ lines' = lines /\ at' = at /\ pos' = pos /\ quoted' = quoted /\ token' = token /\ args' = args
      BY <2>2 DEF configVars, given, reader
    <3> QED
      BY <3>1, ReadingStays
  <2>3. ConfigNext \/ UNCHANGED configVars
    BY DEF Next, Run, Configure, NothingToDo, ParseFails, PrintProgram, PrintNoProgram, ReportStep,
           Return, vars
  <2> QED
    BY <2>1, <2>2, <2>3
<1> QED
  BY <1>1, <1>2, PTL DEF Spec

(* Whatever the response file holds, every option of the command line      *)
(* keeps exactly the values it has there.                                  *)
THEOREM CommandLineAlwaysWins == Spec => []CommandLineWins
<1>1. ReadingInv => CommandLineWins
  <2> SUFFICES ASSUME ReadingInv,
                      stage \in {"response", "split", "store", "outcome", "informed", "configured"},
                      NEW o \in DOMAIN OwnValues
               PROVE  o \in DOMAIN values /\ values[o] = OwnValues[o]
    BY DEF CommandLineWins, OwnValues
  <2>1. values = OwnValues \/ values = AllValues
    BY DEF ReadingInv
  <2>2. o \in DOMAIN AllValues /\ AllValues[o] = OwnValues[o]
    BY DEF AllValues, Beneath
  <2> QED
    BY <2>1, <2>2
<1> QED
  BY <1>1, ReadingAlways, PTL

(* The words the response file counts with are those of the file, if the   *)
(* command line names one.                                                 *)
LEMMA WordsAre ==
  ASSUME (values = AllValues) \/ (values = OwnValues)
  PROVE  Tokens = Response
<1>1. CASE OwnNamed
  <2>1. Named
    BY <1>1 DEF Named, OwnNamed, AllValues, Beneath
  <2> QED
    BY <1>1, <2>1 DEF Tokens, Response, FileWords
<1>2. CASE ~OwnNamed
  <2>1. values = OwnValues
    BY <1>2, NothingBeneath
  <2>2. ~Named
    BY <1>2, <2>1 DEF Named, OwnNamed
  <2> QED
    BY <1>2, <2>2 DEF Tokens, Response
<1> QED
  BY <1>1, <1>2

(* A run is refused only for what the command line, the configuration file *)
(* or the response file gets wrong by itself, whatever characters the      *)
(* response file is made of.                                               *)
THEOREM RefusedOnlyForCause == Spec => []RefusedForCause
<1>1. ReadingInv => RefusedForCause
  <2> SUFFICES ASSUME ReadingInv, stage = "failed",
                      ~Rejected(FromCommandLine), conf = "good"
               PROVE  Rejected(Occurrences(Tokens, FALSE))
    BY DEF RefusedForCause
  <2>1. values = OwnValues /\ OwnNamed /\ Rejected(Occurrences(FileWords, FALSE))
    BY DEF ReadingInv, Refusable
  <2>2. Tokens = FileWords
    BY <2>1, WordsAre DEF Response
  <2> QED
    BY <2>1, <2>2
<1> QED
  BY <1>1, ReadingAlways, PTL

(* In a file without empty or blank words the separator finds the words.   *)
LEMMA SeenWhole == NoBlankWord => Words = Tokens
<1> SUFFICES ASSUME NoBlankWord PROVE Words = Tokens
  OBVIOUS
<1>1. \A l : ~HasBlankWord(l) => WordsOf(l) = TokensOf(l)
  <2> SUFFICES ASSUME NEW l, ~HasBlankWord(l) PROVE WordsOf(l) = TokensOf(l)
    OBVIOUS
  <2>1. ASSUME NEW n \in Ends(l) PROVE Stretch(l, n) # <<>> <=> ~IsBlank(Part(l, n))
    <3>1. CASE Stretch(l, n) = <<>>
      <4>1. Part(l, n) = <<>>
        BY <3>1, UnquotedNone DEF Part
      <4>2. IsBlank(<<>>)
        BY DEF IsBlank
      <4> QED
        BY <3>1, <4>1, <4>2
    <3>2. CASE Stretch(l, n) # <<>>
      BY <3>2 DEF HasBlankWord
    <3> QED
      BY <3>1, <3>2
  <2>2. [n \in 1 .. Len(l) + 1 |->
           IF n \in Ends(l) /\ Stretch(l, n) # <<>> THEN <<Part(l, n)>> ELSE <<>>]
        = [n \in 1 .. Len(l) + 1 |->
             IF n \in Ends(l) /\ ~IsBlank(Part(l, n)) THEN <<Part(l, n)>> ELSE <<>>]
    BY <2>1
  <2> QED
    BY <2>2, Zenon DEF WordsOf, TokensOf
<1>2. \A n \in DOMAIN file.lines :
        (IF Meaningful(file.lines[n]) THEN WordsOf(file.lines[n]) ELSE <<>>)
        = (IF Meaningful(file.lines[n]) THEN TokensOf(file.lines[n]) ELSE <<>>)
  BY <1>1 DEF NoBlankWord
<1>3. [n \in DOMAIN file.lines |-> IF Meaningful(file.lines[n]) THEN WordsOf(file.lines[n]) ELSE <<>>]
      = [n \in DOMAIN file.lines |-> IF Meaningful(file.lines[n]) THEN TokensOf(file.lines[n]) ELSE <<>>]
  BY <1>2
<1>4. WordsOfFile = TokensOfFile
  BY <1>3, Zenon DEF WordsOfFile, TokensOfFile
<1> QED
  BY <1>4 DEF Words, Tokens

(* Each option the command line leaves open has the values it would have   *)
(* if the words of the response file, defined without reading its lines    *)
(* from left to right, had stood on the command line: as long as none is   *)
(* empty or blank the splitter finds exactly those words, and the store    *)
(* puts them where that would have.                                        *)
THEOREM ResponseIsMoreCommandLine == Spec => []ResponseActsAsCommandLine
<1>1. ReadingInv => ResponseActsAsCommandLine
  <2> SUFFICES ASSUME ReadingInv, stage \in {"informed", "configured"}, NoBlankWord,
                      \A n \in DOMAIN Words : Words[n][1] # "@"
               PROVE  LET there == ValuesOf(Occurrences(Words, TRUE))
                      IN  /\ DOMAIN values = DOMAIN OwnValues \cup DOMAIN there
                          /\ \A o \in DOMAIN values \ DOMAIN OwnValues : values[o] = there[o]
    BY DEF ResponseActsAsCommandLine, OwnValues
  <2>0. Words = Tokens
    BY SeenWhole
  <2> DEFINE there == ValuesOf(Occurrences(Words, TRUE))
  <2>1. values = AllValues
    BY DEF ReadingInv
  <2>2. Tokens = Response
    BY <2>1, WordsAre
  <2>3. Occurrences(Words, TRUE) = Occurrences(Words, FALSE)
    <3>1. \A n \in DOMAIN Words : Occurrence(Words[n], TRUE) = Occurrence(Words[n], FALSE)
      BY DEF Occurrence
    <3> QED
      BY <3>1 DEF Occurrences
  <2>4. values = Beneath(OwnValues, there)
    BY <2>0, <2>1, <2>2, <2>3 DEF AllValues
  <2> HIDE DEF there
  <2>5. /\ DOMAIN values = DOMAIN OwnValues \cup DOMAIN there
        /\ \A o \in DOMAIN values \ DOMAIN OwnValues : values[o] = there[o]
    BY <2>4 DEF Beneath
  <2> QED
    BY <2>5 DEF there
<1> QED
  BY <1>1, ReadingAlways, PTL

-----------------------------------------------------------------------------
(* A queue of edits, applied one after the other.                          *)
Edit == [at : Token, put : Seq(Token)]
Leads(p, es, q) ==
  \E g : g[0] = p /\ g[Len(es)] = q /\ (\A k \in 1 .. Len(es) : g[k] = Edited(g[k - 1], es[k]))

LEMMA LeadsNone ==
  ASSUME NEW p
  PROVE  Leads(p, <<>>, p) /\ \A q : Leads(p, <<>>, q) => q = p
<1>1. Len(<<>>) = 0
  OBVIOUS
<1>2. Leads(p, <<>>, p)
  <2> DEFINE g == [k \in {0} |-> p]
  <2>1. g[0] = p /\ g[Len(<<>>)] = p /\ (\A k \in 1 .. Len(<<>>) : g[k] = Edited(g[k - 1], <<>>[k]))
    BY <1>1
  <2> HIDE DEF g
  <2> QED
    BY <2>1 DEF Leads
<1>3. ASSUME NEW q, Leads(p, <<>>, q) PROVE q = p
  BY <1>1, <1>3 DEF Leads
<1> QED
  BY <1>2, <1>3

LEMMA LeadsAppend ==
  ASSUME NEW p, NEW q, NEW es \in Seq(Edit), NEW e \in Edit, Leads(p, es, q)
  PROVE  Append(es, e) \in Seq(Edit) /\ Leads(p, Append(es, e), Edited(q, e))
<1>1. PICK N \in Nat : N = Len(es)
  BY LenProperties
<1>2. PICK g : g[0] = p /\ g[N] = q /\ (\A k \in 1 .. N : g[k] = Edited(g[k - 1], es[k]))
  BY <1>1 DEF Leads
<1> DEFINE ds == Append(es, e)
           h == [k \in 0 .. N + 1 |-> IF k = N + 1 THEN Edited(q, e) ELSE g[k]]
<1>3. ds \in Seq(Edit) /\ Len(ds) = N + 1 /\ ds[N + 1] = e /\ \A k \in 1 .. N : ds[k] = es[k]
  BY <1>1, AppendProperties
<1> HIDE DEF ds
<1>4. h[0] = p /\ h[N] = q /\ h[N + 1] = Edited(q, e) /\ \A k \in 1 .. N : h[k] = g[k] /\ h[k - 1] = g[k - 1]
  BY <1>1, <1>2
<1> HIDE DEF h
<1>5. \A k \in 1 .. N + 1 : h[k] = Edited(h[k - 1], ds[k])
  <2> TAKE k \in 1 .. N + 1
  <2>1. CASE k \in 1 .. N
    BY <1>2, <1>3, <1>4, <2>1
  <2>2. CASE k = N + 1
    <3>1. k - 1 = N
      BY <2>2
    <3> QED
      BY <1>3, <1>4, <2>2, <3>1
  <2> QED
    BY <2>1, <2>2
<1>6. Leads(p, ds, Edited(q, e))
  BY <1>3, <1>4, <1>5 DEF Leads
<1> QED
  BY <1>3, <1>6 DEF ds

LEMMA LeadsHead ==
  ASSUME NEW p, NEW q, NEW es \in Seq(Edit), es # <<>>, Leads(p, es, q)
  PROVE  Tail(es) \in Seq(Edit) /\ Leads(Edited(p, Head(es)), Tail(es), q)
<1>1. PICK N \in Nat : N = Len(es)
  BY LenProperties
<1>2. N # 0
  BY <1>1, EmptySeq
<1>3. PICK g : g[0] = p /\ g[N] = q /\ (\A k \in 1 .. N : g[k] = Edited(g[k - 1], es[k]))
  BY <1>1 DEF Leads
<1> DEFINE ds == Tail(es)
           h == [k \in 0 .. N - 1 |-> g[k + 1]]
<1>4. /\ Head(es) = es[1] /\ ds \in Seq(Edit) /\ Len(ds) = N - 1
      /\ \A k \in 1 .. N - 1 : ds[k] = es[k + 1]
  BY <1>1, <1>2, HeadTailProperties
<1> HIDE DEF ds
<1>5. /\ h[0] = g[0 + 1] /\ h[N - 1] = g[(N - 1) + 1]
      /\ \A k \in 1 .. N - 1 : h[k] = g[k + 1] /\ h[k - 1] = g[(k - 1) + 1]
  BY <1>2
<1> HIDE DEF h
<1>6. 0 + 1 = 1 /\ (N - 1) + 1 = N /\ 1 \in 1 .. N /\ 1 - 1 = 0
  BY <1>2
<1>7. h[0] = Edited(p, es[1])
  <2>1. g[1] = Edited(g[1 - 1], es[1])
    BY <1>3, <1>6
  <2> QED
    BY <1>3, <1>5, <1>6, <2>1
<1>8. \A k \in 1 .. N - 1 : h[k] = Edited(h[k - 1], ds[k])
  <2> TAKE k \in 1 .. N - 1
  <2>1. k + 1 \in 1 .. N /\ (k + 1) - 1 = k /\ (k - 1) + 1 = k
    OBVIOUS
  <2>2. g[k + 1] = Edited(g[(k + 1) - 1], es[k + 1])
    BY <1>3, <2>1
  <2>3. h[k] = g[k + 1] /\ h[k - 1] = g[(k - 1) + 1] /\ ds[k] = es[k + 1]
    BY <1>4, <1>5
  <2> QED
    BY <2>1, <2>2, <2>3
<1>9. Leads(Edited(p, es[1]), ds, q)
  BY <1>3, <1>4, <1>5, <1>6, <1>7, <1>8 DEF Leads
<1> QED
  BY <1>4, <1>9 DEF ds

LEMMA FourAppended ==
  ASSUME NEW S, NEW w \in S, NEW x \in S, NEW y \in S, NEW z \in S
  PROVE  Append(Append(Append(Append(<<>>, w), x), y), z) = <<w, x, y, z>>
<1>1. Append(<<>>, w) = <<w>>
  OBVIOUS
<1>2. <<w, x>> = Append(<<w>>, x)
  OBVIOUS
<1>3. <<w, x, y>> = Append(<<w, x>>, y)
  OBVIOUS
<1>4. <<w, x, y, z>> = Append(<<w, x, y>>, z)
  OBVIOUS
<1> QED
  BY <1>1, <1>2, <1>3, <1>4

LEMMA EditsTyped ==
  /\ Removal \in Edit /\ Swap("@INDEX_TITLE@", "title") \in Edit
  /\ Swap("@REPORT_HEADER@", "header") \in Edit /\ Swap("index.template.css", "index.css") \in Edit
  /\ \A u, n \in Nat : FileEdit(u) \in Edit /\ LinkEdit(u, n) \in Edit /\ PanelEdit(u, n) \in Edit
<1>1. ASSUME NEW m \in TokenName, NEW w \in TokenName PROVE Replace(m, Marks(<<w>>)) \in Edit
  <2>1. Mark(m) \in Token /\ Mark(w) \in Token
    BY TokensTyped
  <2>2. Marks(<<w>>) = <<Mark(w)>>
    BY DEF Marks
  <2>3. <<Mark(w)>> \in Seq(Token)
    BY <2>1
  <2> QED
    BY <2>1, <2>2, <2>3 DEF Replace, Edit
<1>2. ASSUME NEW m \in TokenName, NEW put \in Seq(Token) PROVE InsertBefore(m, put) \in Edit
  <2>1. Mark(m) \in Token
    BY TokensTyped
  <2>2. <<Mark(m)>> \in Seq(Token)
    BY <2>1
  <2>3. put \o <<Mark(m)>> \in Seq(Token)
    BY <2>2, ConcatProperties
  <2> QED
    BY <2>1, <2>3 DEF InsertBefore, Edit
<1>3. Removal = Replace("REMOVE_START", Marks(<<"removed">>))
  BY DEF Removal, Replace
<1>4. {"@INDEX_TITLE@", "@REPORT_HEADER@", "index.template.css", "REMOVE_START", "title", "header", "index.css",
       "removed", "NAV_END", "FUNCTION_START", "FUNCTION_END", "TAB_PANEL_LIST_END"} \subseteq TokenName
  BY DEF TokenName
<1>5. ASSUME NEW u \in Nat, NEW n \in Nat
      PROVE  FileEdit(u) \in Edit /\ LinkEdit(u, n) \in Edit /\ PanelEdit(u, n) \in Edit
  <2>1. /\ FileEntry(u) \in Token /\ Link(u, n) \in Token /\ Panel(u, n) \in Token
        /\ Mark("FUNCTION_START") \in Token /\ Mark("FUNCTION_END") \in Token
    BY <1>4, TokensTyped
  <2>2. /\ <<FileEntry(u), Mark("FUNCTION_START"), Mark("FUNCTION_END")>> \in Seq(Token)
        /\ <<Link(u, n)>> \in Seq(Token) /\ <<Panel(u, n)>> \in Seq(Token)
    BY <2>1
  <2> QED
    BY <1>2, <1>4, <2>2 DEF FileEdit, LinkEdit, PanelEdit
<1>6. /\ Removal \in Edit /\ Swap("@INDEX_TITLE@", "title") \in Edit
      /\ Swap("@REPORT_HEADER@", "header") \in Edit /\ Swap("index.template.css", "index.css") \in Edit
  BY <1>1, <1>3, <1>4 DEF Swap
<1> QED
  BY <1>5, <1>6

-----------------------------------------------------------------------------
(* What the queued edits make of the page is the page that lists all that  *)
(* has been printed.                                                       *)
ListingInv ==
  /\ phase \in {"idle", "units", "stream", "written"}
  /\ phase = "idle" => unit = 1 /\ fn = 0
  /\ phase # "idle" => /\ UnitsOK(units) /\ At(units, unit, fn)
                       /\ edits \in Seq(Edit)
                       /\ Leads(page, edits, PageAt(units, unit, fn))
  /\ phase \in {"stream", "written"} => unit = Len(units) + 1 /\ fn = 0
  /\ phase = "written" => edits = <<>>

LEMMA StartLists ==
  ASSUME ListingInv, NEW us, UnitsOK(us), StartReport(us)
  PROVE  ListingInv'
<1> DEFINE x == Swap("@INDEX_TITLE@", "title")
           y == Swap("@REPORT_HEADER@", "header")
           z == Swap("index.template.css", "index.css")
<1>1. /\ phase' = "units" /\ units' = us /\ unit' = 1 /\ fn' = 0 /\ page' = Template
      /\ edits' = <<Removal, x, y, z>>
  BY DEF StartReport, ListingInv, Swap
<1>2. At(us, 1, 0)
  BY DEF At, UnitsOK
<1>3. Removal \in Edit /\ x \in Edit /\ y \in Edit /\ z \in Edit
  BY EditsTyped
<1> HIDE DEF x, y, z
<1> DEFINE r == Edited(Edited(Edited(Edited(Template, Removal), x), y), z)
<1>4. r = PageAt(us, 1, 0)
  BY StartStep DEF x, y, z
<1> DEFINE a == Append(<<>>, Removal)
           b == Append(a, x)
           c == Append(b, y)
           d == Append(c, z)
<1>5. d = <<Removal, x, y, z>>
  BY <1>3, FourAppended
<1>6. a \in Seq(Edit) /\ Leads(Template, a, Edited(Template, Removal))
  <2>1. <<>> \in Seq(Edit) /\ Leads(Template, <<>>, Template)
    BY LeadsNone
  <2> QED
    BY <1>3, <2>1, LeadsAppend
<1> HIDE DEF a
<1>7. b \in Seq(Edit) /\ Leads(Template, b, Edited(Edited(Template, Removal), x))
  BY <1>3, <1>6, LeadsAppend
<1> HIDE DEF b
<1>8. c \in Seq(Edit) /\ Leads(Template, c, Edited(Edited(Edited(Template, Removal), x), y))
  BY <1>3, <1>7, LeadsAppend
<1> HIDE DEF c
<1>9. d \in Seq(Edit) /\ Leads(Template, d, r)
  BY <1>3, <1>8, LeadsAppend
<1> HIDE DEF d, r
<1>10. edits' \in Seq(Edit) /\ Leads(page', edits', PageAt(units', unit', fn'))
  BY <1>1, <1>4, <1>5, <1>9
<1>11. UnitsOK(units') /\ At(units', unit', fn')
  BY <1>1, <1>2
<1> QED
  BY <1>1, <1>10, <1>11 DEF ListingInv

LEMMA PrintFileLists == ListingInv /\ PrintFile => ListingInv'
<1> SUFFICES ASSUME ListingInv, PrintFile PROVE ListingInv'
  OBVIOUS
<1>1. /\ phase = "units" /\ phase' = phase /\ units' = units /\ page' = page /\ unit' = unit
      /\ unit \in DOMAIN units /\ fn = 0 /\ fn' = 1 /\ edits' = Append(edits, FileEdit(unit))
  BY DEF PrintFile, FileEdit
<1>2. UnitsOK(units) /\ At(units, unit, 0) /\ edits \in Seq(Edit) /\ Leads(page, edits, PageAt(units, unit, 0))
  BY <1>1 DEF ListingInv
<1>3. unit \in Nat \ {0} /\ unit \in 1 .. Len(units) /\ unit <= Len(units) /\ Len(units) \in Nat
  BY <1>1, <1>2 DEF UnitsOK, At
<1>4. At(units, unit, 1)
  <2>1. Len(units[unit].functions) \in Nat
    BY <1>2, <1>3, OwnType
  <2> QED
    BY <1>2, <1>3, <2>1 DEF At
<1>5. FileEdit(unit) \in Edit
  <2>1. unit \in Nat /\ 0 \in Nat
    BY <1>3
  <2> QED
    BY <2>1, EditsTyped
<1>6. Edited(PageAt(units, unit, 0), FileEdit(unit)) = PageAt(units, unit, 1)
  BY <1>2, <1>3, FileStep
<1>7. Append(edits, FileEdit(unit)) \in Seq(Edit)
      /\ Leads(page, Append(edits, FileEdit(unit)), PageAt(units, unit, 1))
  BY <1>2, <1>5, <1>6, LeadsAppend
<1> QED
  BY <1>1, <1>2, <1>4, <1>7 DEF ListingInv

LEMMA PrintFunctionLists == ListingInv /\ PrintFunction => ListingInv'
<1> SUFFICES ASSUME ListingInv, PrintFunction PROVE ListingInv'
  OBVIOUS
<1> DEFINE x == LinkEdit(unit, fn)
           y == PanelEdit(unit, fn)
<1>1. /\ phase = "units" /\ phase' = phase /\ units' = units /\ page' = page /\ unit' = unit
      /\ unit \in DOMAIN units /\ fn \in DOMAIN units[unit].functions /\ fn' = fn + 1
      /\ edits' = edits \o <<x, y>>
  BY DEF PrintFunction, LinkEdit, PanelEdit
<1>2. UnitsOK(units) /\ At(units, unit, fn) /\ edits \in Seq(Edit) /\ Leads(page, edits, PageAt(units, unit, fn))
  BY <1>1 DEF ListingInv
<1>3. unit \in Nat \ {0} /\ fn \in Nat /\ unit \in 1 .. Len(units) /\ unit <= Len(units) /\ Len(units) \in Nat
  BY <1>1, <1>2 DEF UnitsOK, At
<1>4. Len(units[unit].functions) \in Nat /\ fn # 0 /\ fn <= Len(units[unit].functions)
  <2>1. units[unit].functions \in Seq(FunctionName)
    BY <1>1, <1>2 DEF UnitsOK
  <2> QED
    BY <1>1, <2>1, LenProperties
<1>5. At(units, unit, fn + 1)
  BY <1>2, <1>3, <1>4 DEF At
<1>6. x \in Edit /\ y \in Edit
  BY <1>3, EditsTyped
<1>7. Edited(Edited(PageAt(units, unit, fn), x), y) = PageAt(units, unit, fn + 1)
  BY <1>2, <1>4, FunctionStep
<1> HIDE DEF x, y
<1> DEFINE a == Append(edits, x)
<1>8. a \in Seq(Edit) /\ Leads(page, a, Edited(PageAt(units, unit, fn), x))
  BY <1>2, <1>6, LeadsAppend
<1>9. edits \o <<x, y>> = Append(a, y)
  <2>1. <<x>> \in Seq(Edit) /\ <<y>> \in Seq(Edit) /\ <<x, y>> = Append(<<x>>, y)
    BY <1>6
  <2>2. Append(<<x>>, y) = <<x>> \o <<y>>
    BY <1>6, <2>1, AppendIsConcat
  <2>3. edits \o (<<x>> \o <<y>>) = (edits \o <<x>>) \o <<y>>
    BY <1>2, <2>1, ConcatAssociative
  <2>4. edits \o <<x>> = a
    BY <1>2, <1>6, AppendIsConcat
  <2> HIDE DEF a
  <2>5. Append(a, y) = a \o <<y>>
    BY <1>6, <1>8, AppendIsConcat
  <2> QED
    BY <2>1, <2>2, <2>3, <2>4, <2>5
<1> HIDE DEF a
<1>10. Append(a, y) \in Seq(Edit) /\ Leads(page, Append(a, y), PageAt(units, unit, fn + 1))
  BY <1>6, <1>7, <1>8, LeadsAppend
<1> QED
  BY <1>1, <1>2, <1>5, <1>9, <1>10 DEF ListingInv

LEMMA ReportLists == ListingInv /\ WriteReport => ListingInv'
<1> SUFFICES ASSUME ListingInv, WriteReport PROVE ListingInv'
  OBVIOUS
<1>1. CASE PrintFile
  BY <1>1, PrintFileLists
<1>2. CASE PrintFunction
  BY <1>2, PrintFunctionLists
<1>3. CASE FilePrinted
  <2>1. /\ phase = "units" /\ phase' = phase /\ units' = units /\ page' = page /\ edits' = edits
        /\ unit \in DOMAIN units /\ fn > Len(units[unit].functions) /\ unit' = unit + 1 /\ fn' = 0
    BY <1>3 DEF FilePrinted
  <2>2. UnitsOK(units) /\ At(units, unit, fn) /\ edits \in Seq(Edit) /\ Leads(page, edits, PageAt(units, unit, fn))
    BY <2>1 DEF ListingInv
  <2>3. unit \in Nat \ {0} /\ fn \in Nat /\ unit \in 1 .. Len(units) /\ Len(units) \in Nat
    BY <2>1, <2>2 DEF UnitsOK, At
  <2>4. Len(units[unit].functions) \in Nat
    BY <2>2, <2>3, OwnType
  <2>5. fn # 0 /\ fn = Len(units[unit].functions) + 1
    BY <2>1, <2>2, <2>3, <2>4 DEF At
  <2>6. PageAt(units, unit, fn) = PageAt(units, unit + 1, 0)
    BY <2>2, <2>5, DoneStep
  <2>7. At(units, unit + 1, 0)
    BY <2>3 DEF At
  <2> QED
    BY <2>1, <2>2, <2>6, <2>7 DEF ListingInv
<1>4. CASE StreamOut
  <2>1. /\ phase = "units" /\ phase' = "stream" /\ units' = units /\ page' = page /\ edits' = edits
        /\ unit \notin DOMAIN units /\ unit' = unit /\ fn' = fn
    BY <1>4 DEF StreamOut
  <2>2. UnitsOK(units) /\ At(units, unit, fn) /\ edits \in Seq(Edit) /\ Leads(page, edits, PageAt(units, unit, fn))
    BY <2>1 DEF ListingInv
  <2>3. unit = Len(units) + 1 /\ fn = 0
    BY <2>1, <2>2 DEF UnitsOK, At
  <2> QED
    BY <2>1, <2>2, <2>3 DEF ListingInv
<1>5. CASE ApplyEdit
  <2>1. /\ phase = "stream" /\ phase' = phase /\ units' = units /\ unit' = unit /\ fn' = fn
        /\ edits # <<>> /\ page' = Edited(page, Head(edits)) /\ edits' = Tail(edits)
    BY <1>5 DEF ApplyEdit
  <2>2. UnitsOK(units) /\ At(units, unit, fn) /\ edits \in Seq(Edit) /\ Leads(page, edits, PageAt(units, unit, fn))
    BY <2>1 DEF ListingInv
  <2>3. Tail(edits) \in Seq(Edit) /\ Leads(Edited(page, Head(edits)), Tail(edits), PageAt(units, unit, fn))
    BY <2>1, <2>2, LeadsHead
  <2> QED
    BY <2>1, <2>2, <2>3 DEF ListingInv
<1>6. CASE IndexWritten
  <2>1. /\ phase = "stream" /\ phase' = "written" /\ edits = <<>>
        /\ units' = units /\ unit' = unit /\ fn' = fn /\ page' = page /\ edits' = edits
    BY <1>6 DEF IndexWritten
  <2> QED
    BY <2>1 DEF ListingInv
<1> QED
  BY <1>1, <1>2, <1>3, <1>4, <1>5, <1>6 DEF WriteReport

LEMMA ListingWhole == ListingInv => IndexPageWhole
<1> SUFFICES ASSUME ListingInv, phase = "written" PROVE IndexPageWhole
  BY DEF IndexPageWhole
<1> DEFINE next == [u \in DOMAIN units |-> u + 1]
<1>1. UnitsOK(units) /\ page = PageAt(units, Len(units) + 1, 0)
  <2>1. UnitsOK(units) /\ Leads(page, <<>>, PageAt(units, Len(units) + 1, 0))
    BY DEF ListingInv
  <2> QED
    BY <2>1, LeadsNone
<1>2. PICK N \in Nat : Len(units) = N /\ DOMAIN units = 1 .. N
  BY <1>1 DEF UnitsOK
<1>3. next \in [DOMAIN units -> 1 .. Len(units) + 1] /\ \A u \in DOMAIN units : next[u] = u + 1 /\ next[u] > u
  BY <1>2
<1> HIDE DEF next
<1>4. CodeList = FileList(next)
  <2>1. ASSUME NEW u \in DOMAIN units
        PROVE  ListOf(u) = <<FileEntry(u), Mark("FUNCTION_START")>>
                 \o Links(OwnFunctions(u)) \o Links(FunctionsFrom(next[u])) \o <<Mark("FUNCTION_END")>>
    <3> DEFINE a == <<FileEntry(u), Mark("FUNCTION_START")>>
               b == Links(OwnFunctions(u))
               c == Links(FunctionsFrom(u + 1))
    <3>1. /\ Links(FunctionsFrom(u)) = b \o c
          /\ b \in Seq(Token) /\ c \in Seq(Token)
      BY <1>1, <1>2, OwnComeFirst
    <3>2. a \in Seq(Token)
      <4>1. FileEntry(u) \in Token /\ Mark("FUNCTION_START") \in Token
        BY <1>2 DEF FileEntry, Mark, Token, TokenName
      <4> QED
        BY <4>1
    <3> HIDE DEF a, b, c
    <3>3. Assoc(a, b, c)
      BY <3>1, <3>2, TokenAssoc
    <3>4. a \o (b \o c) = (a \o b) \o c
      BY <3>3 DEF Assoc
    <3>5. next[u] = u + 1
      BY <1>3
    <3> QED
      BY <3>1, <3>4, <3>5, Zenon DEF ListOf, a, b, c
  <2>2. [u \in DOMAIN units |-> ListOf(u)] =
        [u \in DOMAIN units |-> <<FileEntry(u), Mark("FUNCTION_START")>>
           \o Links(OwnFunctions(u)) \o Links(FunctionsFrom(next[u])) \o <<Mark("FUNCTION_END")>>]
    BY <2>1, Zenon
  <2> QED
    BY <2>2, Zenon DEF CodeList, FileList
<1>5. page = Marks(<<"title", "index.css", "text", "header", "text", "removed", "NAV_START">>)
             \o FileList(next)
             \o Marks(<<"NAV_END", "text", "removed", "TAB_PANEL_LIST_START">>)
             \o Panels(FunctionsFrom(1))
             \o Marks(<<"TAB_PANEL_LIST_END", "text">>)
  BY <1>1, <1>4, WholeAtTheEnd, Zenon
<1> QED
  BY <1>3, <1>5, Zenon DEF IndexPageWhole

-----------------------------------------------------------------------------
(* What an option has been given, as one pass over the occurrences.        *)
Givens(S)   == {e.value : e \in S}
Worth(S, o) == [e \in S |-> IF e.opt = o THEN <<e.value>> ELSE <<>>]

LEMMA WorthTyped ==
  ASSUME NEW S, NEW o
  PROVE  Worth(S, o) \in [S -> Seq(Givens(S))]
<1>1. \A e \in S : (IF e.opt = o THEN <<e.value>> ELSE <<>>) \in Seq(Givens(S))
  <2> TAKE e \in S
  <2>1. e.value \in Givens(S)
    BY DEF Givens
  <2>2. <<e.value>> \in Seq(Givens(S)) /\ <<>> \in Seq(Givens(S))
    BY <2>1
  <2> QED
    BY <2>2
<1> QED
  BY <1>1 DEF Worth

LEMMA ValuesForStep ==
  ASSUME NEW S, NEW occ \in Seq(S), NEW e \in S, NEW o
  PROVE  /\ ValuesFor(occ, o) \in Seq(Givens(S))
         /\ ValuesFor(Append(occ, e), o) =
              IF e.opt = o THEN Append(ValuesFor(occ, o), e.value) ELSE ValuesFor(occ, o)
<1> DEFINE q == Append(occ, e)
           N == {n \in DOMAIN occ : occ[n].opt = o}
           M == {n \in DOMAIN q : q[n].opt = o}
           v(s) == [n \in DOMAIN s |-> s[n].value]
<1>1. q \in Seq(S) /\ Len(q) = Len(occ) + 1 /\ Len(occ) \in Nat
      /\ q[Len(occ) + 1] = e /\ (\A n \in 1 .. Len(occ) : q[n] = occ[n])
      /\ DOMAIN occ = 1 .. Len(occ) /\ DOMAIN q = 1 .. Len(occ) + 1
  BY AppendProperties, LenProperties
<1> HIDE DEF q
<1>2. \A n \in 1 .. Len(occ) : n \in M <=> n \in N
  BY <1>1
<1>3. Len(occ) + 1 \in M <=> e.opt = o
  BY <1>1
<1>4. ValuesFor(q, o) = v(Only(q, M)) /\ ValuesFor(occ, o) = v(Only(occ, N))
  BY DEF ValuesFor
<1> HIDE DEF N, M
<1>5. Only(q, M) = IF Len(occ) + 1 \in M THEN Append(Only(occ, N), e) ELSE Only(occ, N)
  BY <1>2, OnlyStep DEF q
<1>6. PICK s \in Seq(S) : s = Only(occ, N)
  BY OnlyIs
<1>7. PICK L \in Nat : L = Len(s)
  BY LenProperties
<1>8. v(s) \in [1 .. L -> Givens(S)]
  <2>1. DOMAIN s = 1 .. L /\ \A n \in 1 .. L : s[n] \in S
    BY <1>7, LenProperties
  <2>2. \A n \in 1 .. L : s[n].value \in Givens(S)
    BY <2>1 DEF Givens
  <2> QED
    BY <2>1, <2>2
<1>9. v(Append(s, e)) \in [1 .. L + 1 -> Givens(S)] /\ v(Append(s, e))[L + 1] = e.value
      /\ \A n \in 1 .. L : v(Append(s, e))[n] = v(s)[n]
  <2>1. /\ DOMAIN s = 1 .. L /\ DOMAIN Append(s, e) = 1 .. L + 1 /\ Append(s, e)[L + 1] = e
        /\ \A n \in 1 .. L : Append(s, e)[n] = s[n]
    BY <1>7, AppendProperties, LenProperties
  <2>2. PICK t : t = Append(s, e)
    OBVIOUS
  <2>3. \A n \in 1 .. L + 1 : t[n].value \in Givens(S)
    <3>1. t \in Seq(S) /\ Len(t) = L + 1
      BY <1>7, <2>2, AppendProperties
    <3>2. \A n \in 1 .. L + 1 : t[n] \in S
      BY <3>1, LenProperties
    <3> QED
      BY <3>2 DEF Givens
  <2>4. v(t) \in [1 .. L + 1 -> Givens(S)] /\ v(t)[L + 1] = e.value
        /\ \A n \in 1 .. L : v(t)[n] = v(s)[n]
    BY <2>1, <2>2, <2>3
  <2> QED
    BY <2>2, <2>4
<1> HIDE DEF v
<1>10. v(s) \in Seq(Givens(S)) /\ v(Append(s, e)) = Append(v(s), e.value)
  BY <1>8, <1>9, LongerByOne
<1> QED
  BY <1>3, <1>4, <1>5, <1>6, <1>10 DEF q

LEMMA ValuesForIs ==
  ASSUME NEW S, NEW o
  PROVE  \A occ \in Seq(S) :
           /\ ValuesFor(occ, o) \in Seq(Givens(S))
           /\ Mapped(Worth(S, o), occ) = ValuesFor(occ, o)
           /\ ValuesFor(occ, o) = <<>> <=> \A n \in DOMAIN occ : occ[n].opt # o
<1> DEFINE W == Worth(S, o)
           T == {occ \in Seq(S) : /\ ValuesFor(occ, o) \in Seq(Givens(S))
                                  /\ Mapped(W, occ) = ValuesFor(occ, o)
                                  /\ ValuesFor(occ, o) = <<>> <=> \A n \in DOMAIN occ : occ[n].opt # o}
<1>1. PICK F \in [S -> Seq(Givens(S))] : F = W
  BY WorthTyped
<1>2. /\ Mapped(F, <<>>) = <<>>
      /\ \A occ \in Seq(S), e \in S : Mapped(F, Append(occ, e)) = Mapped(F, occ) \o F[e]
  BY MappedFacts
<1>3. <<>> \in T
  <2>1. ValuesFor(<<>>, o) = <<>>
    <3>1. Only(<<>>, {n \in DOMAIN <<>> : <<>>[n].opt = o}) = <<>>
      BY OnlyNone
    <3>2. [n \in DOMAIN <<>> |-> <<>>[n].value] = <<>>
      OBVIOUS
    <3> QED
      BY <3>1, <3>2 DEF ValuesFor
  <2>2. <<>> \in Seq(Givens(S)) /\ <<>> \in Seq(S) /\ DOMAIN <<>> = {}
    OBVIOUS
  <2> QED
    BY <1>1, <1>2, <2>1, <2>2
<1>4. ASSUME NEW occ \in Seq(S), NEW e \in S, occ \in T PROVE Append(occ, e) \in T
  <2> DEFINE q == Append(occ, e)
  <2>1. q \in Seq(S) /\ Len(q) = Len(occ) + 1 /\ Len(occ) \in Nat
        /\ q[Len(occ) + 1] = e /\ (\A n \in 1 .. Len(occ) : q[n] = occ[n])
        /\ DOMAIN occ = 1 .. Len(occ) /\ DOMAIN q = 1 .. Len(occ) + 1
    BY AppendProperties, LenProperties
  <2>2. ValuesFor(q, o) = IF e.opt = o THEN Append(ValuesFor(occ, o), e.value) ELSE ValuesFor(occ, o)
    BY ValuesForStep
  <2>3. Mapped(F, q) = Mapped(F, occ) \o F[e]
    BY <1>2
  <2>4. Mapped(F, occ) = ValuesFor(occ, o) /\ ValuesFor(occ, o) \in Seq(Givens(S))
        /\ (ValuesFor(occ, o) = <<>> <=> \A n \in DOMAIN occ : occ[n].opt # o)
    BY <1>1, <1>4
  <2> HIDE DEF q
  <2>7. ASSUME q \in Seq(S), ValuesFor(q, o) \in Seq(Givens(S)), ValuesFor(q, o) = Mapped(F, q),
               ValuesFor(q, o) = <<>> <=> \A n \in DOMAIN q : q[n].opt # o
        PROVE  q \in T
    BY <1>1, <2>7
  <2> HIDE DEF T, W
  <2>5. CASE e.opt = o
    <3>1. F[e] = <<e.value>>
      BY <1>1, <2>5 DEF W, Worth
    <3>2. e.value \in Givens(S)
      BY DEF Givens
    <3>3. ValuesFor(q, o) = Mapped(F, q)
      BY <2>2, <2>3, <2>4, <2>5, <3>1, <3>2, AppendIsConcat
    <3>4. ValuesFor(q, o) \in Seq(Givens(S)) /\ Len(ValuesFor(q, o)) = Len(ValuesFor(occ, o)) + 1
      BY <2>2, <2>4, <2>5, <3>2, AppendProperties
    <3>5. ValuesFor(q, o) # <<>>
      BY <2>4, <3>4, LenProperties
    <3>6. ~\A n \in DOMAIN q : q[n].opt # o
      <4>1. PICK k \in DOMAIN q : q[k] = e
        BY <2>1
      <4>2. q[k].opt = o
        BY <2>5, <4>1
      <4> QED
        BY <4>2
    <3>7. ValuesFor(q, o) = <<>> <=> \A n \in DOMAIN q : q[n].opt # o
      BY <3>5, <3>6
    <3> QED
      BY <2>1, <2>7, <3>3, <3>4, <3>7 DEF q
  <2>6. CASE e.opt # o
    <3>1. F[e] = <<>>
      BY <1>1, <2>6 DEF W, Worth
    <3>2. Mapped(F, q) = Mapped(F, occ)
      BY <2>3, <2>4, <3>1, ConcatEmptySeq
    <3>3. (\A n \in DOMAIN q : q[n].opt # o) <=> \A n \in DOMAIN occ : occ[n].opt # o
      <4>1. PICK L \in Nat : L = Len(occ)
        BY <2>1
      <4>2. DOMAIN occ = 1 .. L /\ DOMAIN q = 1 .. L + 1 /\ q[L + 1] = e /\ (\A n \in 1 .. L : q[n] = occ[n])
        BY <2>1, <4>1
      <4>3. 1 .. L + 1 = (1 .. L) \cup {L + 1}
        OBVIOUS
      <4>4. (\A n \in DOMAIN q : q[n].opt # o) <=> (q[L + 1].opt # o /\ \A n \in 1 .. L : q[n].opt # o)
        BY <4>2, <4>3
      <4>5. \A n \in 1 .. L : q[n].opt = occ[n].opt
        BY <4>2
      <4> QED
        BY <2>6, <4>2, <4>4, <4>5
    <3>4. ValuesFor(q, o) = <<>> <=> \A n \in DOMAIN q : q[n].opt # o
      BY <2>2, <2>4, <2>6, <3>3
    <3>5. ValuesFor(q, o) = Mapped(F, q) /\ ValuesFor(q, o) \in Seq(Givens(S))
      BY <2>2, <2>4, <2>6, <3>2
    <3> QED
      BY <2>1, <2>7, <3>4, <3>5 DEF q
  <2> QED
    BY <2>5, <2>6 DEF q
<1> HIDE DEF T
<1>5. \A occ \in Seq(S) : occ \in T
  BY <1>3, <1>4, AllSequences
<1> QED
  BY <1>5 DEF T

(* The files an argument list names are what the map has for them.         *)
LEMMA FilesAre ==
  ASSUME NEW ws \in Seq(Line), NEW extra \in BOOLEAN
  PROVE  LET occ == Occurrences(ws, extra)
         IN  /\ FilesOf(occ) = ValuesFor(occ, "input-file")
             /\ \E S : FilesOf(occ) \in Seq(S)
             /\ FilesOf(occ) = <<>> <=> "input-file" \notin DOMAIN ValuesOf(occ)
             /\ "input-file" \in DOMAIN ValuesOf(occ) => ValuesOf(occ)["input-file"] = FilesOf(occ)
<1> DEFINE o == "input-file"
           occ == Occurrences(ws, extra)
           S == {occ[n] : n \in DOMAIN occ}
<1>1. PICK N \in Nat : N = Len(ws) /\ DOMAIN ws = 1 .. N
  BY LenProperties
<1>2. DOMAIN occ = 1 .. N
  BY <1>1 DEF Occurrences
<1>3. occ \in [1 .. N -> S]
  BY <1>2 DEF Occurrences
<1>4. occ \in Seq(S) /\ DOMAIN occ = 1 .. Len(occ)
  <2>1. PICK f \in [1 .. N -> S] : f = occ
    BY <1>3
  <2> HIDE DEF occ, S
  <2>2. f \in Seq(S)
    BY SeqDef
  <2> QED
    BY <2>1, <2>2, LenProperties
<1>5. FilesOf(occ) = Mapped(Worth(S, o), occ)
  <2>1. \A n \in DOMAIN occ : (IF occ[n].opt = "input-file" THEN <<occ[n].value>> ELSE <<>>) = Worth(S, o)[occ[n]]
    BY DEF Worth
  <2> HIDE DEF occ, S
  <2>2. [n \in DOMAIN occ |-> IF occ[n].opt = "input-file" THEN <<occ[n].value>> ELSE <<>>]
          = [n \in 1 .. Len(occ) |-> Worth(S, o)[occ[n]]]
    BY <1>4, <2>1
  <2> QED
    BY <2>2 DEF FilesOf, Mapped
<1> HIDE DEF occ, S
<1>6. /\ ValuesFor(occ, o) \in Seq(Givens(S))
      /\ Mapped(Worth(S, o), occ) = ValuesFor(occ, o)
      /\ ValuesFor(occ, o) = <<>> <=> \A n \in DOMAIN occ : occ[n].opt # o
  BY <1>4, ValuesForIs
<1>7. o \notin DOMAIN ValuesOf(occ) <=> \A n \in DOMAIN occ : occ[n].opt # o
  BY DEF ValuesOf
<1>8. o \in DOMAIN ValuesOf(occ) => ValuesOf(occ)[o] = ValuesFor(occ, o)
  BY DEF ValuesOf
<1>9. \E R : FilesOf(occ) \in Seq(R)
  BY <1>5, <1>6
<1> QED
  BY <1>5, <1>6, <1>7, <1>8, <1>9 DEF occ

-----------------------------------------------------------------------------
(* The file entries of a page.                                             *)
FileToken == {t \in Token : t[1] = "file"}
Shown(p)  == Only(p, {k \in DOMAIN p : p[k][1] = "file"})

LEMMA ShownNone == Shown(<<>>) = <<>>
  BY OnlyNone DEF Shown

LEMMA ShownStep ==
  ASSUME NEW p \in Seq(Token), NEW t \in Token
  PROVE  /\ Shown(p) \in Seq(Token)
         /\ Shown(Append(p, t)) = IF t[1] = "file" THEN Append(Shown(p), t) ELSE Shown(p)
<1> DEFINE q == Append(p, t)
           N == {n \in DOMAIN p : p[n][1] = "file"}
           M == {n \in DOMAIN q : q[n][1] = "file"}
<1>1. Len(q) = Len(p) + 1 /\ Len(p) \in Nat
      /\ q[Len(p) + 1] = t /\ (\A n \in 1 .. Len(p) : q[n] = p[n])
      /\ DOMAIN p = 1 .. Len(p) /\ DOMAIN q = 1 .. Len(p) + 1
  BY AppendProperties, LenProperties
<1> HIDE DEF q
<1>2. \A n \in 1 .. Len(p) : n \in M <=> n \in N
  BY <1>1
<1>3. Len(p) + 1 \in M <=> t[1] = "file"
  BY <1>1
<1>4. Shown(q) = Only(q, M) /\ Shown(p) = Only(p, N)
  BY DEF Shown
<1> HIDE DEF N, M
<1>5. Only(q, M) = IF Len(p) + 1 \in M THEN Append(Only(p, N), t) ELSE Only(p, N)
  BY <1>2, OnlyStep DEF q
<1>6. Only(p, N) \in Seq(Token)
  BY OnlyIs
<1> QED
  BY <1>3, <1>4, <1>5, <1>6 DEF q

LEMMA ShownConcat ==
  ASSUME NEW p \in Seq(Token)
  PROVE  \A q \in Seq(Token) : Shown(p \o q) = Shown(p) \o Shown(q)
<1> DEFINE T == {q \in Seq(Token) : Shown(p \o q) = Shown(p) \o Shown(q)}
<1>0. Shown(p) \in Seq(Token)
  BY OnlyIs DEF Shown
<1>1. <<>> \in T
  <2>1. p \o <<>> = p /\ Shown(p) \o <<>> = Shown(p)
    BY <1>0, ConcatEmptySeq
  <2>2. <<>> \in Seq(Token)
    OBVIOUS
  <2> QED
    BY <2>1, <2>2, ShownNone
<1>2. ASSUME NEW q \in Seq(Token), NEW t \in Token, q \in T PROVE Append(q, t) \in T
  <2>1. PICK r \in Seq(Token) : r = p \o q
    BY ConcatProperties
  <2>2. p \o Append(q, t) = Append(r, t)
    <3>1. Append(q, t) = q \o <<t>> /\ Append(r, t) = r \o <<t>>
      BY AppendIsConcat
    <3>2. <<t>> \in Seq(Token)
      OBVIOUS
    <3>3. p \o (q \o <<t>>) = (p \o q) \o <<t>>
      BY <3>2, ConcatAssociative
    <3> QED
      BY <2>1, <3>1, <3>3
  <2>3. PICK x \in Seq(Token), y \in Seq(Token) : x = Shown(p) /\ y = Shown(q)
    BY <1>0, ShownStep
  <2>4. Shown(r) = x \o y
    BY <1>2, <2>1, <2>3
  <2>5. Append(x \o y, t) = x \o Append(y, t)
    <3>1. <<t>> \in Seq(Token) /\ x \o y \in Seq(Token)
      BY ConcatProperties
    <3>2. Append(x \o y, t) = (x \o y) \o <<t>> /\ Append(y, t) = y \o <<t>>
      BY <3>1, AppendIsConcat
    <3>3. x \o (y \o <<t>>) = (x \o y) \o <<t>>
      BY <3>1, ConcatAssociative
    <3> QED
      BY <3>2, <3>3
  <2>6. Shown(Append(q, t)) = IF t[1] = "file" THEN Append(y, t) ELSE y
    BY <2>3, ShownStep
  <2>7. Shown(Append(r, t)) = IF t[1] = "file" THEN Append(x \o y, t) ELSE x \o y
    BY <2>4, ShownStep
  <2>8. Shown(Append(r, t)) = x \o Shown(Append(q, t))
    BY <2>5, <2>6, <2>7
  <2>9. Append(q, t) \in Seq(Token)
    BY AppendProperties
  <2> QED
    BY <2>2, <2>3, <2>8, <2>9
<1> HIDE DEF T
<1>3. \A q \in Seq(Token) : q \in T
  BY <1>1, <1>2, AllSequences
<1> QED
  BY <1>3 DEF T

LEMMA ShownAway ==
  \A p \in Seq(Token \ FileToken) : Shown(p) = <<>>
<1> DEFINE T == {p \in Seq(Token \ FileToken) : Shown(p) = <<>>}
<1>1. <<>> \in T
  BY ShownNone
<1>2. ASSUME NEW p \in Seq(Token \ FileToken), NEW t \in Token \ FileToken, p \in T PROVE Append(p, t) \in T
  <2>1. p \in Seq(Token)
    <3>1. Len(p) \in Nat /\ p \in [1 .. Len(p) -> Token \ FileToken]
      BY LenProperties
    <3>2. PICK n \in Nat : n = Len(p)
      BY <3>1
    <3>3. p \in [1 .. n -> Token]
      BY <3>1, <3>2
    <3> QED
      BY <3>3, SeqDef
  <2>2. t \in Token /\ t[1] # "file"
    BY DEF FileToken
  <2>3. Append(p, t) \in Seq(Token \ FileToken)
    BY AppendProperties
  <2> QED
    BY <1>2, <2>1, <2>2, <2>3, ShownStep
<1> HIDE DEF T
<1>3. \A p \in Seq(Token \ FileToken) : p \in T
  BY <1>1, <1>2, AllSequences
<1> QED
  BY <1>3 DEF T

LEMMA FileTokens ==
  /\ \A m \in TokenName \ {"file"} : Mark(m) \in Token \ FileToken
  /\ \A u, n \in Nat : Link(u, n) \in Token \ FileToken /\ Panel(u, n) \in Token \ FileToken
  /\ \A u \in Nat : FileEntry(u) \in Token /\ FileEntry(u)[1] = "file" /\ FileEntry(u)[2] = u
<1>1. \A u \in Nat : FileEntry(u) \in Token /\ FileEntry(u)[1] = "file" /\ FileEntry(u)[2] = u
  BY TokensTyped DEF FileEntry
<1>2. \A u, n \in Nat : Link(u, n) \in Token \ FileToken /\ Panel(u, n) \in Token \ FileToken
  BY TokensTyped DEF Link, Panel, FileToken
<1>3. \A m \in TokenName \ {"file"} : Mark(m) \in Token \ FileToken
  BY TokensTyped DEF Mark, FileToken
<1> QED
  BY <1>1, <1>2, <1>3

LEMMA PlacesShown ==
  ASSUME NEW fs \in Seq(Place)
  PROVE  Shown(Links(fs)) = <<>> /\ Shown(Panels(fs)) = <<>>
<1>1. PICK N \in Nat : N = Len(fs)
  BY LenProperties
<1>2. DOMAIN fs = 1 .. N /\ \A k \in 1 .. N : fs[k][1] \in Nat /\ fs[k][2] \in Nat
  BY <1>1, LenProperties DEF Place
<1>3. Links(fs) \in [1 .. N -> Token \ FileToken] /\ Panels(fs) \in [1 .. N -> Token \ FileToken]
  BY <1>2, FileTokens DEF Links, Panels
<1>4. Links(fs) \in Seq(Token \ FileToken) /\ Panels(fs) \in Seq(Token \ FileToken)
  BY <1>3, SeqDef
<1> QED
  BY <1>4, ShownAway

LEMMA MarksShown ==
  Shown(Top) = <<>> /\ Shown(Middle) = <<>> /\ Shown(Bottom) = <<>>
<1>2. Top \in Seq(Token \ FileToken) /\ Middle \in Seq(Token \ FileToken) /\ Bottom \in Seq(Token \ FileToken)
  <2> DEFINE here == {"title", "index.css", "text", "header", "removed", "NAV_START", "NAV_END",
                      "TAB_PANEL_LIST_START", "TAB_PANEL_LIST_END"}
  <2>1. \A m \in here : m \in TokenName \ {"file"}
    BY DEF TokenName
  <2>2. \A m \in here : Mark(m) \in Token \ FileToken
    BY <2>1, FileTokens
  <2>3. /\ Top = << Mark("title"), Mark("index.css"), Mark("text"), Mark("header"), Mark("text"),
                    Mark("removed"), Mark("NAV_START") >>
        /\ Middle = << Mark("NAV_END"), Mark("text"), Mark("removed"), Mark("TAB_PANEL_LIST_START") >>
        /\ Bottom = << Mark("TAB_PANEL_LIST_END"), Mark("text") >>
    BY DEF Top, Middle, Bottom, Marks
  <2> QED
    BY <2>2, <2>3
<1> QED
  BY <1>2, ShownAway

LEMMA EntriesShown ==
  ASSUME NEW us, UnitsOK(us), NEW v \in 1 .. Len(us)
  PROVE  Shown(Entries(us, v, Len(us) + 1, 0)) = <<FileEntry(v)>>
<1> DEFINE fs == Listed(us, v, Len(us) + 1, 0)
           f == FileEntry(v)
           s == Mark("FUNCTION_START")
           e == Mark("FUNCTION_END")
<1>1. At(us, Len(us) + 1, 0) /\ v \in Nat \ {0} /\ v <= Len(us) + 1
  BY DEF UnitsOK, At
<1>2. fs \in Seq(Place)
  BY <1>1, ListedFacts
<1>3. Links(fs) \in Seq(Token) /\ Shown(Links(fs)) = <<>>
  <2>1. \A m \in TokenName : m # "link" => Links(fs) \in Seq(Free(m))
    BY <1>2, LinksFacts
  <2>2. Links(fs) \in Seq(Free("file"))
    BY <2>1 DEF TokenName
  <2> QED
    BY <1>2, <2>2, FreeIsToken, PlacesShown
<1>4. /\ f \in Token /\ f[1] = "file" /\ s \in Token /\ e \in Token
      /\ s[1] # "file" /\ e[1] # "file"
  <2>1. v \in Nat /\ "FUNCTION_START" \in TokenName \ {"file"} /\ "FUNCTION_END" \in TokenName \ {"file"}
    BY <1>1 DEF TokenName
  <2> QED
    BY <2>1, FileTokens DEF FileToken
<1>5. Entries(us, v, Len(us) + 1, 0) = (<<f, s>> \o Links(fs)) \o <<e>>
  BY DEF Entries
<1> HIDE DEF f, s, e
<1>6. Shown(<<f>>) = <<f>> /\ Shown(<<f, s>>) = <<f>> /\ Shown(<<e>>) = <<>>
  <2>1. <<>> \in Seq(Token) /\ <<f>> \in Seq(Token) /\ <<f>> = Append(<<>>, f)
        /\ <<f, s>> = Append(<<f>>, s) /\ <<e>> = Append(<<>>, e)
    BY <1>4
  <2>2. Shown(Append(<<>>, f)) = Append(<<>>, f)
    BY <1>4, <2>1, ShownNone, ShownStep
  <2>3. Shown(Append(<<f>>, s)) = <<f>>
    BY <1>4, <2>1, <2>2, ShownStep
  <2>4. Shown(Append(<<>>, e)) = <<>>
    BY <1>4, <2>1, ShownNone, ShownStep
  <2> QED
    BY <2>1, <2>2, <2>3, <2>4
<1>7. PICK a \in Seq(Token), c \in Seq(Token), x \in Seq(Token) : a = <<f, s>> /\ c = <<e>> /\ x = <<f>>
  <2>1. <<f, s>> \in Seq(Token)
    BY <1>4
  <2>2. <<e>> \in Seq(Token)
    BY <1>4
  <2>3. <<f>> \in Seq(Token)
    BY <1>4
  <2> QED
    BY <2>1, <2>2, <2>3
<1>8. PICK b \in Seq(Token) : b = Links(fs)
  BY <1>3
<1>9. Shown(a \o b) = x
  <2>1. Shown(a \o b) = Shown(a) \o Shown(b)
    BY ShownConcat
  <2>2. Shown(a \o b) = x \o <<>>
    BY <1>3, <1>6, <1>7, <1>8, <2>1
  <2> QED
    BY <2>2, ConcatEmptySeq
<1>10. Shown((a \o b) \o c) = x
  <2>1. a \o b \in Seq(Token)
    BY ConcatProperties
  <2>2. Shown((a \o b) \o c) = Shown(a \o b) \o Shown(c)
    BY <2>1, ShownConcat
  <2>3. Shown((a \o b) \o c) = x \o <<>>
    BY <1>6, <1>7, <1>9, <2>2
  <2> QED
    BY <2>3, ConcatEmptySeq
<1> QED
  BY <1>5, <1>7, <1>8, <1>10 DEF f

FileEntries(k) == [v \in 1 .. k |-> FileEntry(v)]

LEMMA NavigationShown ==
  ASSUME NEW us, UnitsOK(us)
  PROVE  Shown(Navigation(us, Len(us) + 1, 0)) = FileEntries(Len(us))
<1>1. PICK N \in Nat : N = Len(us)
  BY DEF UnitsOK
<1> DEFINE B == Chapters(us, N, N + 1, 0)
           T == {k \in Nat : k <= N => Shown(Flat(B, k)) = FileEntries(k)}
<1>2. At(us, N + 1, 0)
  BY <1>1 DEF At
<1>3. B \in [1 .. N -> Seq(Token)]
  <2>1. N <= N + 1
    OBVIOUS
  <2> QED
    BY <1>2, <2>1, ChaptersType
<1>4. \A k \in 1 .. N : B[k] = Entries(us, k, N + 1, 0)
  BY DEF Chapters
<1>5. Navigation(us, Len(us) + 1, 0) = Flat(B, N)
  <2>1. [i \in 1 .. N |-> B[i]] = [v \in 1 .. N |-> Entries(us, v, N + 1, 0)]
    BY <1>4
  <2>2. (N + 1) - 1 = N
    OBVIOUS
  <2> HIDE DEF B
  <2> QED
    BY <1>1, <2>1, <2>2 DEF Navigation, Flat
<1> HIDE DEF B
<1>6. /\ \A k \in 0 .. N - 1 : Flat(B, k + 1) = Flat(B, k) \o B[k + 1]
      /\ \A k \in 0 .. N : Flat(B, k) \in Seq(Token)
  BY <1>3, FlattenPrefix
<1>7. 0 \in T
  <2>1. Flat(B, 0) = <<>>
    <3>1. [i \in 1 .. 0 |-> B[i]] = <<>>
      OBVIOUS
    <3> QED
      BY <3>1, FlattenEmpty DEF Flat
  <2>2. FileEntries(0) = <<>>
    BY DEF FileEntries
  <2> QED
    BY <2>1, <2>2, ShownNone
<1>8. ASSUME NEW k \in Nat, k \in T PROVE k + 1 \in T
  <2> SUFFICES ASSUME k + 1 <= N PROVE Shown(Flat(B, k + 1)) = FileEntries(k + 1)
    OBVIOUS
  <2>1. k \in 0 .. N - 1 /\ k \in 0 .. N /\ k + 1 \in 1 .. N /\ k <= N
    OBVIOUS
  <2>2. Shown(Flat(B, k)) = FileEntries(k)
    BY <1>8, <2>1
  <2> HIDE DEF T
  <2>3. PICK p \in Seq(Token) : p = Flat(B, k)
    BY <1>6, <2>1
  <2>4. PICK q \in Seq(Token) : q = B[k + 1]
    BY <1>3, <2>1
  <2>5. Shown(q) = <<FileEntry(k + 1)>>
    BY <1>1, <1>4, <2>1, <2>4, EntriesShown
  <2>6. Shown(Flat(B, k + 1)) = FileEntries(k) \o <<FileEntry(k + 1)>>
    <3>1. Flat(B, k + 1) = p \o q
      BY <1>6, <2>1, <2>3, <2>4
    <3>2. Shown(p \o q) = Shown(p) \o Shown(q)
      BY ShownConcat
    <3> QED
      BY <2>2, <2>3, <2>5, <3>1, <3>2
  <2>7. FileEntries(k) \in Seq(Token) /\ FileEntry(k + 1) \in Token
        /\ FileEntries(k + 1) = Append(FileEntries(k), FileEntry(k + 1))
    <3>1. \A v \in 1 .. k + 1 : FileEntry(v) \in Token
      BY FileTokens
    <3>2. FileEntries(k) \in [1 .. k -> Token] /\ FileEntries(k + 1) \in [1 .. k + 1 -> Token]
          /\ FileEntries(k + 1)[k + 1] = FileEntry(k + 1)
          /\ \A v \in 1 .. k : FileEntries(k + 1)[v] = FileEntries(k)[v]
      BY <3>1 DEF FileEntries
    <3> QED
      BY <3>2, LongerByOne
  <2> QED
    BY <2>6, <2>7, AppendIsConcat
<1> HIDE DEF T
<1>9. \A k \in Nat : k \in T
  BY <1>7, <1>8, AllNumbers
<1>10. N \in T
  BY <1>9
<1> QED
  BY <1>1, <1>5, <1>10 DEF T

LEMMA PageShown ==
  ASSUME NEW us, UnitsOK(us)
  PROVE  Shown(PageAt(us, Len(us) + 1, 0)) = FileEntries(Len(us))
<1>1. At(us, Len(us) + 1, 0) /\ 1 \in Nat \ {0} /\ 1 <= Len(us) + 1
  BY DEF UnitsOK, At
<1> DEFINE fs == Listed(us, 1, Len(us) + 1, 0)
           nav == Navigation(us, Len(us) + 1, 0)
<1>2. fs \in Seq(Place)
  BY <1>1, ListedFacts
<1>3. PICK a \in Seq(Token), b \in Seq(Token), c \in Seq(Token), d \in Seq(Token), e \in Seq(Token) :
        a = Top /\ b = nav /\ c = Middle /\ d = Panels(fs) /\ e = Bottom
  BY <1>1, PiecesTyped
<1>4. Shown(a) = <<>> /\ Shown(c) = <<>> /\ Shown(d) = <<>> /\ Shown(e) = <<>>
  BY <1>2, <1>3, MarksShown, PlacesShown
<1>5. Shown(b) = FileEntries(Len(us))
  BY <1>3, NavigationShown
<1>6. PageAt(us, Len(us) + 1, 0) = (((a \o b) \o c) \o d) \o e
  BY <1>3 DEF PageAt, Whole
<1>7. PICK x \in Seq(Token) : x = Shown(b)
  BY OnlyIs DEF Shown
<1>8. ASSUME NEW p \in Seq(Token), NEW q \in Seq(Token), Shown(p) = x, Shown(q) = <<>>
      PROVE  p \o q \in Seq(Token) /\ Shown(p \o q) = x
  <2>1. Shown(p \o q) = Shown(p) \o Shown(q)
    BY <1>8, ShownConcat
  <2>2. Shown(p \o q) = x \o <<>>
    BY <2>1, <1>8, Zenon
  <2> QED
    BY <2>2, ConcatEmptySeq, ConcatProperties
<1>9. a \o b \in Seq(Token) /\ Shown(a \o b) = x
  <2>1. Shown(a \o b) = Shown(a) \o Shown(b)
    BY ShownConcat
  <2>2. Shown(a \o b) = <<>> \o x
    BY <2>1, <1>4, <1>7, Zenon
  <2> QED
    BY <2>2, ConcatEmptySeq, ConcatProperties
<1>10. (a \o b) \o c \in Seq(Token) /\ Shown((a \o b) \o c) = x
  BY <1>4, <1>8, <1>9
<1>11. ((a \o b) \o c) \o d \in Seq(Token) /\ Shown(((a \o b) \o c) \o d) = x
  BY <1>4, <1>8, <1>10
<1>12. Shown((((a \o b) \o c) \o d) \o e) = x
  BY <1>4, <1>8, <1>11
<1> QED
  BY <1>5, <1>6, <1>7, <1>12

(* The files of the map are those asked for.                               *)
LEMMA AskedFor ==
  ASSUME ReadingInv, stage = "configured", Asked("input-file")
  PROVE  /\ values["input-file"] = FilesAsked
         /\ \E S : values["input-file"] \in Seq(S)
<1> DEFINE o == "input-file"
           own == FromCommandLine
           add == Occurrences(Response, FALSE)
<1>1. values = AllValues
  BY DEF ReadingInv
<1>2. Tokens = Response
  BY <1>1, WordsAre
<1>3. argv \in Seq(Line) /\ Response \in Seq(Line)
  <2>1. argv \in Seq(Line)
    BY CommandLinesAssumption DEF ReadingInv, Line, Symbol
  <2>2. FileWords \in Seq(Line) /\ <<>> \in Seq(Line)
    BY FileWordsAre DEF ReadingInv
  <2> QED
    BY <2>1, <2>2 DEF Response
<1>4. /\ \E S : FilesOf(own) \in Seq(S)
      /\ FilesOf(own) = <<>> <=> o \notin DOMAIN ValuesOf(own)
      /\ o \in DOMAIN ValuesOf(own) => ValuesOf(own)[o] = FilesOf(own)
  BY <1>3, FilesAre DEF FromCommandLine
<1>5. /\ \E S : FilesOf(add) \in Seq(S)
      /\ o \in DOMAIN ValuesOf(add) => ValuesOf(add)[o] = FilesOf(add)
  BY <1>3, FilesAre
<1>6. FilesAsked = IF FilesOf(own) # <<>> THEN FilesOf(own) ELSE FilesOf(add)
  BY <1>2 DEF FilesAsked
<1>7. values = Beneath(ValuesOf(own), ValuesOf(add)) /\ o \in DOMAIN values
  BY <1>1 DEF AllValues, OwnValues, Asked
<1> HIDE DEF own, add
<1>8. \/ o \in DOMAIN ValuesOf(own) /\ values[o] = ValuesOf(own)[o]
      \/ o \notin DOMAIN ValuesOf(own) /\ o \in DOMAIN ValuesOf(add) /\ values[o] = ValuesOf(add)[o]
  BY <1>7 DEF Beneath
<1> QED
  BY <1>4, <1>5, <1>6, <1>8

-----------------------------------------------------------------------------
(* The report is about the files asked for.                                *)
SourceInv ==
  /\ ReadingInv /\ ListingInv
  /\ phase # "idle" =>
       /\ stage = "configured" /\ Asked("input-file")
       /\ units = ParsedUnits(values["input-file"])

LEMMA ParsedOK ==
  ASSUME NEW S, NEW files \in Seq(S), \A k \in DOMAIN files : files[k] \in DOMAIN Contents
  PROVE  UnitsOK(ParsedUnits(files)) /\ Len(ParsedUnits(files)) = Len(files)
<1>1. PICK N \in Nat : N = Len(files) /\ DOMAIN files = 1 .. N
  BY LenProperties
<1>2. DOMAIN ParsedUnits(files) = 1 .. N
  BY <1>1 DEF ParsedUnits
<1>3. Len(ParsedUnits(files)) = N
  BY <1>1 DEF ParsedUnits
<1>4. ASSUME NEW k \in 1 .. N PROVE ParsedUnits(files)[k].functions \in Seq(FunctionName)
  <2>1. ParsedUnits(files)[k].functions = Contents[files[k]]
    BY <1>1 DEF ParsedUnits
  <2>2. files[k] \in DOMAIN Contents
    BY <1>1
  <2> QED
    BY <2>1, <2>2, ContentsAssumption
<1> QED
  BY <1>1, <1>2, <1>3, <1>4 DEF UnitsOK

LEMMA SourceInit == Init => SourceInv
<1> SUFFICES ASSUME Init PROVE SourceInv
  OBVIOUS
<1>1. phase = "idle" /\ unit = 1 /\ fn = 0
  BY DEF Init, ReportInit
<1> QED
  BY <1>1, ReadingInit DEF SourceInv, ListingInv

LEMMA SourceStep == SourceInv /\ [Next]_vars => SourceInv'
<1> SUFFICES ASSUME SourceInv, [Next]_vars PROVE SourceInv'
  OBVIOUS
<1>0. ReadingInv /\ ListingInv
  BY DEF SourceInv
<1>1. CASE Configure
  <2>1. ConfigNext /\ units' = units /\ phase' = phase /\ unit' = unit /\ fn' = fn /\ page' = page /\ edits' = edits
    BY <1>1 DEF Configure, reportVars
  <2>2. ReadingInv'
    BY <1>0, <2>1, ReadingStep
  <2>3. stage # "configured"
    BY <2>1 DEF ConfigNext, ReadCommandLine, ReadConf, NoResponseFile, LoadResponseFile, ToggleQuote,
                EndToken, TakeCharacter, EndLine, SplitComplete, StoreResponse, TellOutcome, InLine
  <2>4. phase = "idle"
    BY <2>3 DEF SourceInv
  <2>5. ListingInv'
    BY <1>0, <2>1 DEF ListingInv
  <2> QED
    BY <2>1, <2>2, <2>4, <2>5 DEF SourceInv
<1>2. CASE UNCHANGED <<configVars, reportVars>>
  <2>1. ReadingInv'
    <3>1. /\ argv' = argv /\ file' = file /\ conf' = conf /\ stage' = stage /\ values' = values
          /\ lines' = lines /\ at' = at /\ pos' = pos /\ quoted' = quoted /\ token' = token /\ args' = args
      BY <1>2 DEF configVars, given, reader
    <3> QED
      BY <1>0, <3>1, ReadingStays
  <2>2. units' = units /\ phase' = phase /\ unit' = unit /\ fn' = fn /\ page' = page /\ edits' = edits
        /\ stage' = stage /\ values' = values
    BY <1>2 DEF reportVars, configVars
  <2>3. ListingInv'
    BY <1>0, <2>2 DEF ListingInv
  <2> QED
    BY <2>1, <2>2, <2>3 DEF SourceInv, Asked
<1>3. CASE PrintProgram
  <2> DEFINE files == values["input-file"]
  <2>1. /\ stage = "configured" /\ Asked("input-file") /\ Readable
        /\ StartReport(ParsedUnits(files)) /\ UNCHANGED configVars
    BY <1>3 DEF PrintProgram
  <2>2. PICK S : files \in Seq(S)
    BY <1>0, <2>1, AskedFor
  <2>3. \A k \in DOMAIN files : files[k] \in DOMAIN Contents
    BY <2>1 DEF Readable, SX!ToSet
  <2>4. phase' = "units" /\ units' = ParsedUnits(files)
    BY <2>1 DEF StartReport
  <2>5. stage' = stage /\ values' = values /\ ReadingInv'
    <3>1. /\ argv' = argv /\ file' = file /\ conf' = conf /\ stage' = stage /\ values' = values
          /\ lines' = lines /\ at' = at /\ pos' = pos /\ quoted' = quoted /\ token' = token /\ args' = args
      BY <2>1 DEF configVars, given, reader
    <3> QED
      BY <1>0, <3>1, ReadingStays
  <2>6. ListingInv'
    <3> HIDE DEF files
    <3>1. UnitsOK(ParsedUnits(files))
      BY <2>2, <2>3, ParsedOK
    <3>2. PICK us : us = ParsedUnits(files)
      OBVIOUS
    <3> QED
      BY <1>0, <2>1, <3>1, <3>2, StartLists
  <2> QED
    BY <2>1, <2>4, <2>5, <2>6 DEF SourceInv, Asked
<1>4. CASE ReportStep
  <2>1. WriteReport /\ UNCHANGED configVars
    BY <1>4 DEF ReportStep
  <2>2. ListingInv'
    BY <1>0, <2>1, ReportLists
  <2>3. phase # "idle" /\ units' = units
    BY <2>1 DEF WriteReport, PrintFile, PrintFunction, FilePrinted, StreamOut, ApplyEdit, IndexWritten
  <2>4. stage' = stage /\ values' = values /\ ReadingInv'
    <3>1. /\ argv' = argv /\ file' = file /\ conf' = conf /\ stage' = stage /\ values' = values
          /\ lines' = lines /\ at' = at /\ pos' = pos /\ quoted' = quoted /\ token' = token /\ args' = args
      BY <2>1 DEF configVars, given, reader
    <3> QED
      BY <1>0, <3>1, ReadingStays
  <2> QED
    BY <2>2, <2>3, <2>4 DEF SourceInv, Asked
<1>5. Configure \/ PrintProgram \/ ReportStep \/ UNCHANGED <<configVars, reportVars>>
  BY DEF Next, Run, NothingToDo, ParseFails, PrintNoProgram, Return, vars
<1> QED
  BY <1>1, <1>2, <1>3, <1>4, <1>5

LEMMA SourceAlways == Spec => []SourceInv
  BY SourceInit, SourceStep, PTL DEF Spec

(* However many files and functions there are, whatever they are called,   *)
(* and in whatever order the queued edits match what earlier ones have put *)
(* in, the index page is the template with its names filled in and its     *)
(* samples gone, and every file, link and panel in its place.              *)
THEOREM IndexPageIsWhole == Spec => []IndexPageWhole
<1>1. SourceInv => IndexPageWhole
  BY ListingWhole DEF SourceInv
<1> QED
  BY <1>1, SourceAlways, PTL

(* The file entries of the page are those of the files asked for, as often *)
(* as given and in that order.                                             *)
THEOREM ReportShowsWhatWasAsked == Spec => []ReportShowsFilesAsked
<1>1. SourceInv => ReportShowsFilesAsked
  <2> SUFFICES ASSUME SourceInv, phase = "written"
               PROVE  [k \in DOMAIN Shown(page) |-> units[Shown(page)[k][2]].file] = FilesAsked
    BY DEF ReportShowsFilesAsked, Shown
  <2> DEFINE files == values["input-file"]
  <2>1. /\ ReadingInv /\ ListingInv /\ stage = "configured" /\ Asked("input-file")
        /\ units = ParsedUnits(files)
    BY DEF SourceInv
  <2>2. files = FilesAsked
    BY <2>1, AskedFor
  <2>3. PICK S : files \in Seq(S)
    BY <2>1, AskedFor
  <2>4. UnitsOK(units) /\ page = PageAt(units, Len(units) + 1, 0)
    <3>1. UnitsOK(units) /\ Leads(page, <<>>, PageAt(units, Len(units) + 1, 0))
      BY <2>1 DEF ListingInv
    <3> QED
      BY <3>1, LeadsNone
  <2> HIDE DEF files
  <2>5. PICK N \in Nat : N = Len(units) /\ DOMAIN units = 1 .. N
    BY <2>4 DEF UnitsOK
  <2>6. Shown(page) = FileEntries(N)
    BY <2>4, <2>5, PageShown
  <2>7. DOMAIN files = 1 .. N
    BY <2>1, <2>5 DEF ParsedUnits
  <2>8. \A k \in 1 .. N : units[k].file = files[k]
    BY <2>1, <2>7 DEF ParsedUnits
  <2>9. [k \in DOMAIN FileEntries(N) |-> units[FileEntries(N)[k][2]].file] = [k \in 1 .. N |-> files[k]]
    <3>1. DOMAIN FileEntries(N) = 1 .. N /\ \A k \in 1 .. N : FileEntries(N)[k] = FileEntry(k)
      BY DEF FileEntries
    <3>2. \A k \in 1 .. N : FileEntry(k)[2] = k
      BY FileTokens
    <3> QED
      BY <2>8, <3>1, <3>2
  <2>10. files = [k \in 1 .. N |-> files[k]]
    BY <2>3, <2>7
  <2> QED
    BY <2>2, <2>6, <2>9, <2>10
<1> QED
  BY <1>1, SourceAlways, PTL

-----------------------------------------------------------------------------
(* The pictures.  A picture there is of a function already printed, and no *)
(* namesake was drawn after it.                                            *)

Printed(g) == g[1] < unit \/ (g[1] = unit /\ g[2] < fn)
CurrentOf(f) ==
  LET shown == Namesakes(f) \cap drawn IN
    IF shown = {} THEN picture[f] \in {Nowhere, Earlier}
    ELSE picture[f] \in shown /\ \A g \in shown : NotAfter(g, picture[f])

PictureInv ==
  /\ unit \in Nat /\ fn \in Nat
  /\ \A u \in DOMAIN units : \A n \in DOMAIN units[u].functions :
       units[u].functions[n] \in FunctionName
  /\ drawn \in SUBSET (Nat \X Nat) /\ \A g \in drawn : Printed(g)
  /\ phase = "idle" => drawn = {}
  /\ DOMAIN picture = FunctionName
  /\ \A f \in FunctionName : CurrentOf(f)

LEMMA InitPicture == Init => PictureInv
<1> SUFFICES ASSUME Init PROVE PictureInv
  OBVIOUS
<1>1. /\ units = <<>> /\ unit = 1 /\ fn = 0 /\ drawn = {} /\ phase = "idle"
      /\ picture = [f \in FunctionName |-> Nowhere]
  BY DEF Init, ReportInit
<1>2. DOMAIN units = {}
  BY <1>1
<1> QED
  BY <1>1, <1>2 DEF PictureInv, CurrentOf

(* The steps that draw nothing and go to no earlier function.              *)
LEMMA QuietGood ==
  ASSUME PictureInv, units' = units, drawn' = drawn, picture' = picture,
         unit' \in Nat, fn' \in Nat, phase' # "idle",
         (unit' = unit /\ fn' >= fn) \/ unit' = unit + 1
  PROVE  PictureInv'
<1>1. \A g \in drawn : Printed(g)'
  <2> SUFFICES ASSUME NEW g \in drawn PROVE g[1] < unit' \/ (g[1] = unit' /\ g[2] < fn')
    BY DEF Printed
  <2>1. g[1] \in Nat /\ g[2] \in Nat /\ Printed(g)
    BY DEF PictureInv
  <2> QED
    BY <2>1 DEF PictureInv, Printed
<1>2. \A f \in FunctionName : CurrentOf(f)'
  BY DEF PictureInv, CurrentOf, Namesakes, Functions, Name
<1> QED
  BY <1>1, <1>2 DEF PictureInv

LEMMA DrawGood ==
  ASSUME PictureInv, PrintFunction, DrawPicture(unit, fn)
  PROVE  PictureInv'
<1> DEFINE n == Name(unit, fn)
           g == <<unit, fn>>
<1>1. /\ phase = "units" /\ unit \in DOMAIN units /\ fn \in DOMAIN units[unit].functions
      /\ fn' = fn + 1 /\ phase' = phase /\ units' = units /\ unit' = unit
      /\ picture' = [picture EXCEPT ![n] = g] /\ drawn' = drawn \cup {g}
  BY DEF PrintFunction, DrawPicture
<1>2. unit \in Nat /\ fn \in Nat
  BY DEF PictureInv
<1>3. n \in FunctionName
  BY <1>1 DEF PictureInv, Name
<1>4. /\ DOMAIN picture' = FunctionName /\ picture'[n] = g
      /\ \A f \in FunctionName : f # n => picture'[f] = picture[f]
  BY <1>1, <1>3 DEF PictureInv
<1>5. \A f : g \in Namesakes(f) <=> f = n
  <2>1. g \in Functions(units)
    <3> DEFINE here == {unit} \X DOMAIN units[unit].functions
    <3>1. g \in here
      BY <1>1
    <3>2. here \subseteq Functions(units)
      BY <1>1, Zenon DEF Functions
    <3> QED
      BY <3>1, <3>2
  <2> QED
    BY <2>1 DEF Namesakes
<1>6. \A f : Namesakes(f)' = Namesakes(f)
  BY <1>1 DEF Namesakes, Functions, Name
<1>7. \A h \in drawn : h[1] \in Nat /\ h[2] \in Nat /\ Printed(h)
  BY DEF PictureInv
<1>8. g \in Nat \X Nat /\ g[1] = unit /\ g[2] = fn
  BY <1>2
<1> HIDE DEF n, g
<1>9. \A h \in drawn' : Printed(h)' /\ NotAfter(h, g)
  <2> TAKE h \in drawn'
  <2>1. CASE h = g
    BY <1>1, <1>2, <1>8, <2>1 DEF Printed, NotAfter
  <2>2. CASE h \in drawn
    BY <1>1, <1>2, <1>7, <1>8, <2>2 DEF Printed, NotAfter
  <2> QED
    BY <1>1, <2>1, <2>2
<1>10. ASSUME NEW f \in FunctionName
       PROVE  CurrentOf(f)'
  <2>1. CASE f = n
    <3>1. g \in Namesakes(f) \cap drawn'
      BY <1>1, <1>5, <2>1
    <3>2. picture'[f] = g
      BY <1>4, <2>1
    <3> QED
      BY <1>6, <1>9, <3>1, <3>2 DEF CurrentOf, NotAfter
  <2>2. CASE f # n
    <3>1. Namesakes(f) \cap drawn' = Namesakes(f) \cap drawn
      BY <1>1, <1>5, <2>2
    <3>2. picture'[f] = picture[f]
      BY <1>4, <2>2
    <3>3. CurrentOf(f)
      BY DEF PictureInv
    <3> QED
      BY <1>6, <3>1, <3>2, <3>3 DEF CurrentOf, NotAfter
  <2> QED
    BY <2>1, <2>2
<1>11. drawn' \in SUBSET (Nat \X Nat)
  BY <1>1, <1>8 DEF PictureInv
<1> QED
  BY <1>1, <1>2, <1>4, <1>9, <1>10, <1>11 DEF PictureInv

LEMMA ReportStepGood == PictureInv /\ WriteReport => PictureInv'
<1> SUFFICES ASSUME PictureInv, WriteReport PROVE PictureInv'
  OBVIOUS
<1>0. unit \in Nat /\ fn \in Nat
  BY DEF PictureInv
<1>1. CASE PrintFile
  BY <1>0, <1>1, QuietGood DEF PrintFile
<1>2. CASE PrintFunction
  <2>1. CASE DotFails
    BY <1>0, <1>2, <2>1, QuietGood DEF PrintFunction, DotFails
  <2>2. CASE DrawPicture(unit, fn)
    BY <1>2, <2>2, DrawGood
  <2> QED
    BY <1>2, <2>1, <2>2 DEF PrintFunction
<1>3. CASE FilePrinted
  BY <1>0, <1>3, QuietGood DEF FilePrinted
<1>4. CASE StreamOut \/ ApplyEdit \/ IndexWritten
  BY <1>0, <1>4, QuietGood DEF StreamOut, ApplyEdit, IndexWritten
<1> QED
  BY <1>1, <1>2, <1>3, <1>4 DEF WriteReport

(* The report starts with what an earlier one has left.                    *)
LEMMA StartGood == PictureInv /\ PrintProgram => PictureInv'
<1> SUFFICES ASSUME PictureInv, PrintProgram PROVE PictureInv'
  OBVIOUS
<1> DEFINE files == values["input-file"]
<1>1. /\ phase = "idle" /\ phase' = "units" /\ units' = ParsedUnits(files)
      /\ picture' \in [FunctionName -> {Nowhere, Earlier}]
      /\ unit' = unit /\ fn' = fn /\ drawn' = drawn
  BY DEF PrintProgram, StartReport
<1>2. drawn = {}
  BY <1>1 DEF PictureInv
<1>3. \A u \in DOMAIN files : files[u] \in DOMAIN Contents
  BY DEF PrintProgram, Readable, SX!ToSet
<1>4. \A u \in DOMAIN units' : \A n \in DOMAIN units'[u].functions :
        units'[u].functions[n] \in FunctionName
  <2> TAKE u \in DOMAIN units'
  <2>1. u \in DOMAIN files /\ units'[u].functions = Contents[files[u]]
    BY <1>1 DEF ParsedUnits
  <2>2. Contents[files[u]] \in Seq(FunctionName)
    BY <1>3, <2>1, ContentsAssumption
  <2> QED
    BY <2>1, <2>2
<1>5. \A f \in FunctionName : CurrentOf(f)'
  BY <1>1, <1>2 DEF CurrentOf
<1> QED
  BY <1>1, <1>2, <1>4, <1>5 DEF PictureInv

(* Whichever of its functions dot cannot draw, and whatever pictures are   *)
(* in the directory from an earlier report: the picture a panel shows is   *)
(* of a function of this report with that name, the last one drawn; it is  *)
(* an old one only if dot drew none of that name.                          *)
THEOREM PicturesStayCurrent == Spec => []PicturesAreCurrent
<1>1. PictureInv /\ [Next]_vars => PictureInv'
  <2> SUFFICES ASSUME PictureInv, [Next]_vars PROVE PictureInv'
    OBVIOUS
  <2>1. CASE PrintProgram
    BY <2>1, StartGood
  <2>2. CASE ReportStep
    BY <2>2, ReportStepGood DEF ReportStep
  <2>3. CASE UNCHANGED reportVars
    <3>1. UNCHANGED <<phase, units, unit, fn, picture, drawn>>
      BY <2>3 DEF reportVars
    <3> QED
      BY <3>1 DEF PictureInv, Printed, CurrentOf, Namesakes, Functions, Name
  <2>4. PrintProgram \/ ReportStep \/ UNCHANGED reportVars
    BY DEF Next, Run, Configure, NothingToDo, ParseFails, PrintNoProgram, Return, vars
  <2> QED
    BY <2>1, <2>2, <2>3, <2>4
<1>2. PictureInv => PicturesAreCurrent
  BY DEF PictureInv, CurrentOf, PicturesAreCurrent
<1> QED
  BY <1>1, <1>2, InitPicture, PTL DEF Spec
=============================================================================
