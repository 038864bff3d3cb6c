----------------------------- MODULE KahnProofs -----------------------------
(***************************************************************************)
(* Proofs about the printer.  Of any program: the printer's variables are  *)
(* well typed, and its call set and call stack say the same, so that       *)
(* recursion is noticed.  Of an orderly program: a vertex is visited after *)
(* those before it, and when the walk ends nothing is left over.           *)
(*                                                                         *)
(* The last two rest on how the frames of the stack share the one map of   *)
(* counts and the one stack of edges: a forward edge is gone once its      *)
(* source has been visited and waits for no call, a vertex not yet visited *)
(* has as many edges remaining as are not gone, what is pending of an      *)
(* inner frame lies above what is pending of an outer one, and a           *)
(* function's EXIT is not reached before all of the function is visited.   *)
(***************************************************************************)
EXTENDS KahnPrint, SequenceTheorems, FiniteSetTheorems, WellFoundedInduction, TLAPS

-----------------------------------------------------------------------------
(* The inductive invariant: besides the agreement of set and stack, that   *)
(* no function is on the stack twice, without which a return would take a  *)
(* function out of the set that another frame still stands for.            *)

Called(c) == {Callee(prog, c[n]) : n \in 2 .. Len(c)}

CalledOnce(c) ==
  \A m, n \in 2 .. Len(c) : Callee(prog, c[m]) = Callee(prog, c[n]) => m = n

CallInv ==
  /\ calls \in Seq(CallSites(prog) \cup {NoCall})
  /\ Len(calls) >= 1 /\ calls[1] = NoCall
  /\ entered = Called(calls) /\ CalledOnce(calls)
  /\ IsFiniteSet(entered) /\ Cardinality(entered) = Len(calls) - 1

(* What a step of the printer does to the two.                             *)
Push(v) ==
  /\ v \in Resolved(prog) /\ Callee(prog, v) \notin entered
  /\ calls' = Append(calls, v)
  /\ entered' = entered \cup {Callee(prog, v)}

Pop ==
  /\ Last(calls) # NoCall
  /\ calls' = Front(calls)
  /\ entered' = entered \ {Callee(prog, Last(calls))}

LEMMA VisitCases ==
  ASSUME Visit
  PROVE  /\ prog' = prog
         /\ Pop \/ (\E v : Push(v)) \/ UNCHANGED <<calls, entered>>
<1> DEFINE v == Last(pending).to
<1>1. prog' = prog
  BY DEF Visit, given
<1>2. \/ UNCHANGED <<calls, entered>>
      \/ Pop
      \/ calls' = CallsAt(v) /\ entered' = EnteredAt(v)
  BY DEF Visit, Pop
<1> HIDE DEF v
<1>3. CASE calls' = CallsAt(v) /\ entered' = EnteredAt(v)
  <2>1. CASE v \notin Resolved(prog)
    <3>1. calls' = calls /\ entered' = entered
      BY <1>3, <2>1 DEF CallsAt, EnteredAt, IsResolvedCall
    <3> QED
      BY <1>1, <3>1
  <2>2. CASE v \in Resolved(prog) /\ Callee(prog, v) \in entered
    <3>1. calls' = calls
      BY <1>3, <2>2 DEF CallsAt, IsResolvedCall, Recursive
    <3>2. entered' = entered \cup {Callee(prog, v)}
      BY <1>3, <2>2 DEF EnteredAt, IsResolvedCall
    <3>3. entered' = entered
      BY <2>2, <3>2
    <3> QED
      BY <1>1, <3>1, <3>3
  <2>3. CASE v \in Resolved(prog) /\ Callee(prog, v) \notin entered
    <3>1. calls' = Append(calls, v)
      BY <1>3, <2>3 DEF CallsAt, IsResolvedCall, Recursive
    <3>2. entered' = entered \cup {Callee(prog, v)}
      BY <1>3, <2>3 DEF EnteredAt, IsResolvedCall
    <3>3. Push(v)
      BY <2>3, <3>1, <3>2 DEF Push
    <3> QED
      BY <1>1, <3>3
  <2> QED
    BY <1>1, <2>1, <2>2, <2>3
<1> QED
  BY <1>1, <1>2, <1>3

LEMMA PushGood ==
  ASSUME CallInv, prog' = prog, NEW v, Push(v)
  PROVE  CallInv'
<1> DEFINE S == CallSites(prog) \cup {NoCall}
           f == Callee(prog, v)
<1>1. calls \in Seq(S) /\ Len(calls) \in Nat /\ v \in S
  BY LenProperties DEF CallInv, Push, Resolved
<1>2. /\ calls' \in Seq(S)
      /\ Len(calls') = Len(calls) + 1
      /\ calls'[Len(calls) + 1] = v
      /\ \A n \in 1 .. Len(calls) : calls'[n] = calls[n]
  BY <1>1 DEF Push
<1>3. f \notin Called(calls)
  BY DEF CallInv, Push
<1>4. Called(calls)' = Called(calls) \cup {f}
  <2>1. 2 .. Len(calls') = (2 .. Len(calls)) \cup {Len(calls) + 1}
    BY <1>1, <1>2 DEF CallInv
  <2> QED
    BY <1>1, <1>2, <2>1 DEF Called
<1>5. CalledOnce(calls)'
  <2> SUFFICES ASSUME NEW m \in 2 .. Len(calls'), NEW n \in 2 .. Len(calls'),
                      Callee(prog, calls'[m]) = Callee(prog, calls'[n])
               PROVE  m = n
    BY DEF CalledOnce
  <2>1. \A k \in 2 .. Len(calls) : Callee(prog, calls[k]) # f
    BY <1>3 DEF Called
  <2>2. CASE m \in 2 .. Len(calls) /\ n \in 2 .. Len(calls)
    BY <1>1, <1>2, <2>2 DEF CallInv, CalledOnce
  <2>3. CASE m = Len(calls) + 1 \/ n = Len(calls) + 1
    BY <1>1, <1>2, <2>1, <2>3
  <2> QED
    BY <1>1, <1>2, <2>2, <2>3
<1>6. IsFiniteSet(entered') /\ Cardinality(entered') = Len(calls') - 1
  <2>1. /\ IsFiniteSet(entered) /\ Cardinality(entered) = Len(calls) - 1
        /\ f \notin entered /\ entered' = entered \cup {f}
    BY DEF CallInv, Push
  <2>2. /\ IsFiniteSet(entered \cup {f})
        /\ Cardinality(entered \cup {f}) = Cardinality(entered) + 1
    BY <2>1, FS_AddElement
  <2> QED
    BY <1>1, <1>2, <2>1, <2>2
<1> QED
  BY <1>1, <1>2, <1>4, <1>5, <1>6 DEF CallInv, Push

LEMMA PopGood ==
  ASSUME CallInv, prog' = prog, Pop
  PROVE  CallInv'
<1> DEFINE S == CallSites(prog) \cup {NoCall}
           k == Len(calls)
           f == Callee(prog, Last(calls))
<1>1. calls \in Seq(S) /\ k \in Nat /\ k >= 2
  <2>1. calls \in Seq(S) /\ k \in Nat
    BY LenProperties DEF CallInv
  <2> QED
    BY <2>1 DEF CallInv, Pop, Last
<1>2. /\ calls' \in Seq(S)
      /\ Len(calls') = k - 1
      /\ \A n \in 1 .. k - 1 : calls'[n] = calls[n]
  <2>1. \A n \in 1 .. k - 1 : calls[n] \in S
    BY <1>1, ElementOfSeq
  <2>2. /\ SubSeq(calls, 1, k - 1) \in Seq(S)
        /\ Len(SubSeq(calls, 1, k - 1)) = k - 1
        /\ \A n \in 1 .. k - 1 : SubSeq(calls, 1, k - 1)[n] = calls[n]
    <3> DEFINE m == k - 1
    <3>1. m \in Nat /\ m \in Int /\ 1 <= m
      BY <1>1
    <3>2. \A n \in 1 .. m : calls[n] \in S
      BY <2>1
    <3> HIDE DEF m
    <3>3. /\ SubSeq(calls, 1, m) \in Seq(S)
          /\ Len(SubSeq(calls, 1, m)) = IF 1 <= m THEN m - 1 + 1 ELSE 0
          /\ \A n \in 1 .. m - 1 + 1 : SubSeq(calls, 1, m)[n] = calls[1 + n - 1]
      BY <3>1, <3>2, SubSeqProperties
    <3>4. /\ SubSeq(calls, 1, m) \in Seq(S)
          /\ Len(SubSeq(calls, 1, m)) = m
          /\ \A n \in 1 .. m : SubSeq(calls, 1, m)[n] = calls[n]
      BY <3>1, <3>3
    <3> QED
      BY <3>4 DEF m
  <2> QED
    BY <2>2 DEF Pop, Front
<1>3. f = Callee(prog, calls[k]) /\ f \in Called(calls)
  BY <1>1 DEF Last, Called
<1>4. \A n \in 2 .. k - 1 : Callee(prog, calls[n]) # f
  BY <1>1, <1>3 DEF CallInv, CalledOnce
<1>5. Called(calls)' = Called(calls) \ {f}
  <2>1. 2 .. k = (2 .. k - 1) \cup {k} /\ 2 .. Len(calls') = 2 .. k - 1
    BY <1>1, <1>2
  <2>2. Called(calls)' = {Callee(prog, calls[n]) : n \in 2 .. k - 1}
    BY <1>1, <1>2, <2>1 DEF Called
  <2>3. Called(calls) = {Callee(prog, calls[n]) : n \in 2 .. k - 1} \cup {f}
    BY <1>3, <2>1 DEF Called
  <2> QED
    BY <1>4, <2>2, <2>3
<1>6. CalledOnce(calls)'
  BY <1>1, <1>2 DEF CallInv, CalledOnce
<1>7. IsFiniteSet(entered') /\ Cardinality(entered') = Len(calls') - 1
  <2>1. /\ IsFiniteSet(entered) /\ Cardinality(entered) = k - 1
        /\ f \in entered /\ entered' = entered \ {f}
    BY <1>3 DEF CallInv, Pop
  <2>2. /\ IsFiniteSet(entered \ {f})
        /\ Cardinality(entered \ {f}) = Cardinality(entered) - 1
    BY <2>1, FS_RemoveElement
  <2> QED
    BY <1>1, <1>2, <2>1, <2>2
<1> QED
  BY <1>1, <1>2, <1>5, <1>6, <1>7 DEF CallInv, Pop

LEMMA CallInvStep == CallInv /\ [Next]_vars => CallInv'
<1> SUFFICES ASSUME CallInv, [Next]_vars PROVE CallInv'
  OBVIOUS
<1>1. CASE Visit
  <2>1. CASE UNCHANGED <<calls, entered>>
    BY <1>1, <2>1, VisitCases DEF CallInv, Called, CalledOnce
  <2> QED
    BY <1>1, <2>1, VisitCases, PushGood, PopGood
<1>2. CASE Finish \/ Printout \/ UNCHANGED vars
  BY <1>2 DEF Finish, Printout, vars, given, CallInv, Called, CalledOnce
<1> QED
  BY <1>1, <1>2 DEF Next, Printing

LEMMA CallInvInit == Init => CallInv
<1> SUFFICES ASSUME Init PROVE CallInv
  OBVIOUS
<1>1. calls = <<NoCall>> /\ entered = {}
  BY DEF Init
<1>2. Called(calls) = {} /\ CalledOnce(calls) /\ Len(calls) = 1
  BY <1>1 DEF Called, CalledOnce
<1>3. IsFiniteSet(entered) /\ Cardinality(entered) = 0
  BY <1>1, FS_EmptySet
<1> QED
  BY <1>1, <1>2, <1>3 DEF CallInv

THEOREM CallInvariant == Spec => []CallInv
  BY CallInvInit, CallInvStep, PTL DEF Spec

(* AreWeRecursing's answer is right at every call of every program, and in *)
(* every order: m_call_set holds the functions the frames above the first  *)
(* stand for, each of which has one frame.                                 *)
THEOREM CallSetIsTheStack == Spec => []CallSetMatchesStack
<1>1. CallInv => CallSetMatchesStack
  BY DEF CallInv, Called, CallSetMatchesStack
<1> QED
  BY <1>1, CallInvariant, PTL

-----------------------------------------------------------------------------
(* Programs whose printing is in order: a resolved call goes on by one     *)
(* edge that is no back edge, the function printed is not called, ENTRY    *)
(* has no forward edge into it and EXIT none out of it, and where EXIT can *)
(* be reached at all each statement leads to it.                           *)

FIn(v)    == {e \in InEdges(edges, v) : e.kind \in {"plain", "impossible"}}
CallIn(v) == \E e \in InEdges(edges, v) : e.kind = "call"
Own(f)    == {v \in VerticesOf(prog) : v[1] = f}

ClosedBackwards(S) ==
  \A e \in edges : e.kind \in {"plain", "impossible"} /\ e.to \in S => e.from \in S

CallGoesOn(c) ==
  \E a \in prog[c[1]].arcs : a.kind = "plain" /\ {b \in prog[c[1]].arcs : b.from = c[2]} = {a}

Orderly ==
  /\ \A c \in Resolved(prog) : Callee(prog, c) # target /\ CallGoesOn(c)
  /\ \A f \in DOMAIN prog :
       /\ FIn(EntryOf(f)) = {}
       /\ \A a \in prog[f].arcs : a.from # 1
       /\ FIn(ExitOf(f)) # {} =>
            \A S \in SUBSET Own(f) : ExitOf(f) \in S /\ ClosedBackwards(S) => S = Own(f)

GivenOK == prog \in Programs /\ edges = EdgesOf(prog) /\ target \in Printed \cap DOMAIN prog

(* What an edge may be.                                                    *)
OwnForm(p, e) ==
  \E f \in DOMAIN p : \E a \in p[f].arcs :
    /\ e.from = <<f, a.from>> /\ e.to = <<f, a.to>> /\ e.kind = a.kind /\ a.kind \in ArcKind
    /\ e = [from |-> e.from, to |-> e.to, kind |-> e.kind, call |-> NoCall]
CallForm(p, e) ==
  /\ e.kind = "call" /\ e.call \in Resolved(p)
  /\ e = [from |-> e.call, to |-> EntryOf(Callee(p, e.call)), kind |-> "call", call |-> e.call]
ReturnForm(p, e) ==
  /\ e.kind = "return" /\ e.call \in Resolved(p)
  /\ e = [from |-> ExitOf(Callee(p, e.call)), to |-> ReturnPoint(p, e.call),
           kind |-> "return", call |-> e.call]

LEMMA EdgeForms ==
  ASSUME NEW p \in Programs, NEW e \in EdgesOf(p)
  PROVE  OwnForm(p, e) \/ CallForm(p, e) \/ ReturnForm(p, e)
<1>1. CASE e \in OwnEdges(p)
  <2>1. PICK f \in DOMAIN p : \E a \in p[f].arcs :
          e = [from |-> <<f, a.from>>, to |-> <<f, a.to>>, kind |-> a.kind, call |-> NoCall]
    BY <1>1 DEF OwnEdges
  <2> QED
    BY <2>1, ProgramsAssumption DEF OwnForm
<1>2. CASE e \in LinkEdges(p)
  <2>1. PICK c \in Resolved(p) :
          \/ e = [from |-> c, to |-> EntryOf(Callee(p, c)), kind |-> "call", call |-> c]
          \/ e = [from |-> ExitOf(Callee(p, c)), to |-> ReturnPoint(p, c),
                  kind |-> "return", call |-> c]
    BY <1>2 DEF LinkEdges
  <2> QED
    BY <2>1 DEF CallForm, ReturnForm
<1> QED
  BY <1>1, <1>2 DEF EdgesOf

LEMMA EdgeEnds ==
  ASSUME NEW p \in Programs, NEW e \in EdgesOf(p)
  PROVE  /\ e.from \in VerticesOf(p) /\ e.to \in VerticesOf(p)
         /\ e.kind \in EdgeKind
<1>1. e.from \in VerticesOf(p) /\ e.to \in VerticesOf(p)
  BY DEF VerticesOf
<1>2. e.kind \in EdgeKind
  BY EdgeForms DEF OwnForm, CallForm, ReturnForm, EdgeKind
<1> QED
  BY <1>1, <1>2

LEMMA CallFacts ==
  ASSUME NEW p, NEW c \in Resolved(p)
  PROVE  /\ c[1] \in DOMAIN p /\ c[2] \in DOMAIN p[c[1]].calls /\ c = <<c[1], c[2]>>
         /\ Callee(p, c) \in DOMAIN p /\ c \in CallSites(p)
<1>1. c \in CallSites(p) /\ Callee(p, c) \in DOMAIN p
  BY DEF Resolved
<1>2. PICK f \in DOMAIN p : \E n \in DOMAIN p[f].calls : c = <<f, n>>
  BY <1>1 DEF CallSites
<1> QED
  BY <1>1, <1>2

(* Every call has its edge, and its return.                                *)
LEMMA LinksThere ==
  ASSUME NEW p, NEW c \in Resolved(p)
  PROVE  /\ [from |-> c, to |-> EntryOf(Callee(p, c)), kind |-> "call", call |-> c] \in EdgesOf(p)
         /\ [from |-> ExitOf(Callee(p, c)), to |-> ReturnPoint(p, c),
             kind |-> "return", call |-> c] \in EdgesOf(p)
<1> DEFINE Two(x) ==
      {[from |-> x, to |-> EntryOf(Callee(p, x)), kind |-> "call", call |-> x],
       [from |-> ExitOf(Callee(p, x)), to |-> ReturnPoint(p, x), kind |-> "return", call |-> x]}
<1>1. LinkEdges(p) = UNION {Two(x) : x \in Resolved(p)}
  BY DEF LinkEdges
<1>2. Two(c) \subseteq LinkEdges(p)
  <2> HIDE DEF Two
  <2> QED
    BY <1>1
<1>3. Two(c) \subseteq EdgesOf(p)
  BY <1>2 DEF EdgesOf
<1> QED
  BY <1>3

LEMMA OwnThere ==
  ASSUME NEW p, NEW f \in DOMAIN p, NEW a \in p[f].arcs
  PROVE  [from |-> <<f, a.from>>, to |-> <<f, a.to>>, kind |-> a.kind, call |-> NoCall] \in EdgesOf(p)
<1> DEFINE Edge(x) == [from |-> <<f, x.from>>, to |-> <<f, x.to>>, kind |-> x.kind, call |-> NoCall]
           All(g) == {[from |-> <<g, x.from>>, to |-> <<g, x.to>>, kind |-> x.kind, call |-> NoCall]
                        : x \in p[g].arcs}
<1>1. OwnEdges(p) = UNION {All(g) : g \in DOMAIN p}
  BY DEF OwnEdges
<1>2. Edge(a) \in All(f)
  OBVIOUS
<1> HIDE DEF All, Edge
<1>3. Edge(a) \in OwnEdges(p)
  BY <1>1, <1>2
<1>4. Edge(a) \in EdgesOf(p)
  BY <1>3 DEF EdgesOf
<1> QED
  BY <1>4 DEF Edge

-----------------------------------------------------------------------------
(* Degrees.                                                                *)

LEMMA EdgesAreFinite ==
  ASSUME GivenOK, NEW v
  PROVE  /\ IsFiniteSet(edges) /\ IsFiniteSet(OutEdges(edges, v)) /\ IsFiniteSet(InEdges(edges, v))
         /\ IsFiniteSet(FIn(v)) /\ Cardinality(FIn(v)) \in Nat
<1>1. IsFiniteSet(edges)
  BY ProgramsAssumption DEF GivenOK
<1>2. /\ OutEdges(edges, v) \in SUBSET edges /\ InEdges(edges, v) \in SUBSET edges
      /\ FIn(v) \in SUBSET edges
  BY DEF OutEdges, InEdges, FIn
<1> QED
  BY <1>1, <1>2, FS_Subset, FS_CardinalityType

LEMMA DegreeIs ==
  ASSUME GivenOK, NEW v
  PROVE  /\ FilteredInDegree(v) \in Nat
         /\ FilteredInDegree(v) = Cardinality(FIn(v)) + IF CallIn(v) THEN 1 ELSE 0
<1>1. FilteredInDegree(v) = Cardinality(FIn(v)) + IF CallIn(v) THEN 1 ELSE 0
  BY DEF FilteredInDegree, FIn, CallIn
<1>2. Cardinality(FIn(v)) \in Nat
  BY EdgesAreFinite
<1> QED
  BY <1>1, <1>2

(* An order lists the edges out of its vertex, each of them once.          *)
LEMMA OrderLists ==
  ASSUME GivenOK, NEW v, NEW s \in Orderings(OutEdges(edges, v))
  PROVE  /\ Len(s) \in Nat /\ DOMAIN s = 1 .. Len(s)
         /\ \A n \in 1 .. Len(s) : s[n] \in OutEdges(edges, v)
         /\ \A m, n \in 1 .. Len(s) : s[m] = s[n] => m = n
         /\ \A e \in OutEdges(edges, v) : \E n \in 1 .. Len(s) : s[n] = e
<1> DEFINE S == OutEdges(edges, v)
           n == Cardinality(S)
<1>1. IsFiniteSet(S) /\ n \in Nat
  BY EdgesAreFinite, FS_CardinalityType
<1>2. s \in [1 .. n -> S] /\ \A i, j \in 1 .. n : s[i] = s[j] => i = j
  BY DEF Orderings
<1> HIDE DEF S
<1>3. s \in Injection(1 .. n, S)
  BY <1>2 DEF Injection, IsInjective
<1>4. Cardinality(1 .. n) = n
  <2> HIDE DEF n
  <2>1. Cardinality(1 .. n) = IF 1 > n THEN 0 ELSE n - 1 + 1
    BY <1>1, FS_Interval
  <2> QED
    BY <1>1, <2>1
<1>5. s \in Surjection(1 .. n, S)
  BY <1>1, <1>3, <1>4, FS_Injection DEF n
<1> HIDE DEF n
<1>6. Len(s) = n /\ DOMAIN s = 1 .. n
  BY <1>1, <1>2
<1>7. \A e \in S : \E k \in 1 .. n : s[k] = e
  BY <1>5 DEF Surjection
<1> QED
  BY <1>1, <1>2, <1>6, <1>7 DEF S

-----------------------------------------------------------------------------
(* Removing the edges out of a vertex, one by one.                         *)

LEMMA Least ==
  ASSUME NEW S \in SUBSET Nat, S # {}
  PROVE  \E m \in S : \A n \in S : m <= n
<1>1. PICK m \in S : \A n \in S : ~(<<n, m>> \in OpToRel(<, Nat))
  BY NatLessThanWellFounded, WFMin
<1>2. \A n \in S : ~(n < m)
  BY <1>1 DEF OpToRel
<1> QED
  BY <1>2

(* What Removal has come to after each edge.  The recursion that defines   *)
(* it has a solution: a piece exists for every length, and two pieces      *)
(* agree where both are defined.                                           *)
Untouched         == [map |-> remaining, pushed |-> <<>>]
Onward(out, x, n) == IF Walked(out[n]) THEN RemoveEdge(x, out[n]) ELSE x
Piece(out, g, n)  ==
  g[0] = Untouched /\ \A i \in 1 .. n : g[i] = Onward(out, g[i - 1], i)

LEMMA PiecesExist ==
  ASSUME NEW out
  PROVE  \A n \in Nat : \E g : Piece(out, g, n)
<1> SUFFICES ASSUME NEW k \in Nat, ~ \E g : Piece(out, g, k) PROVE FALSE
  OBVIOUS
<1> DEFINE bad == {n \in Nat : ~ \E g : Piece(out, g, n)}
<1>1. PICK n \in bad : \A m \in bad : n <= m
  <2>1. bad \in SUBSET Nat /\ bad # {}
    OBVIOUS
  <2> HIDE DEF bad
  <2> QED
    BY <2>1, Least
<1>2. n # 0
  <2>1. Piece(out, [i \in {0} |-> Untouched], 0)
    BY DEF Piece
  <2> QED
    BY <2>1
<1>3. n \in Nat /\ n - 1 \in Nat /\ n - 1 \notin bad
  BY <1>1, <1>2
<1>4. PICK g : Piece(out, g, n - 1)
  BY <1>3
<1> DEFINE h == [i \in 0 .. n |-> IF i = n THEN Onward(out, g[n - 1], n) ELSE g[i]]
<1>5. h[0] = Untouched
  BY <1>2, <1>3, <1>4 DEF Piece
<1>6. ASSUME NEW i \in 1 .. n PROVE h[i] = Onward(out, h[i - 1], i)
  <2>1. i - 1 \in 0 .. n /\ i - 1 # n /\ i \in 0 .. n
    BY <1>3
  <2>2. h[i - 1] = g[i - 1]
    BY <2>1
  <2>3. CASE i = n
    BY <2>1, <2>2, <2>3
  <2>4. CASE i # n
    <3>1. i \in 1 .. n - 1
      BY <1>3, <2>4
    <3> QED
      BY <1>4, <2>1, <2>2, <2>4, <3>1 DEF Piece
  <2> QED
    BY <2>3, <2>4
<1>7. Piece(out, h, n)
  BY <1>5, <1>6 DEF Piece
<1> QED
  BY <1>1, <1>7

LEMMA PiecesAgree ==
  ASSUME NEW out, NEW g, NEW h, NEW m \in Nat, NEW n \in Nat,
         Piece(out, g, m), Piece(out, h, n), NEW k \in Nat, k <= m, k <= n
  PROVE  g[k] = h[k]
<1> SUFFICES ASSUME g[k] # h[k] PROVE FALSE
  OBVIOUS
<1> DEFINE bad == {i \in Nat : i <= m /\ i <= n /\ g[i] # h[i]}
<1>1. PICK i \in bad : \A j \in bad : i <= j
  <2>1. bad \in SUBSET Nat /\ bad # {}
    OBVIOUS
  <2> HIDE DEF bad
  <2> QED
    BY <2>1, Least
<1>2. i # 0
  BY <1>1 DEF Piece
<1>3. i - 1 \in Nat /\ i - 1 <= m /\ i - 1 <= n /\ i \in 1 .. m /\ i \in 1 .. n
  BY <1>1, <1>2
<1>4. g[i - 1] = h[i - 1]
  BY <1>1, <1>3
<1> QED
  BY <1>1, <1>3, <1>4 DEF Piece

LEMMA RemovalSteps ==
  ASSUME NEW out, Len(out) \in Nat
  PROVE  \E g : Piece(out, g, Len(out)) /\ Removal(out) = g[Len(out)]
<1> DEFINE N == Len(out)
           Solves(f) == f = [n \in 0 .. N |-> IF n = 0 THEN Untouched ELSE Onward(out, f[n - 1], n)]
<1>1. PICK g : Piece(out, g, N)
  BY PiecesExist
<1> DEFINE F == [n \in 0 .. N |-> g[n]]
<1>2. Solves(F)
  <2>1. F[0] = Untouched
    BY <1>1 DEF Piece
  <2>2. ASSUME NEW n \in 0 .. N, n # 0 PROVE F[n] = Onward(out, F[n - 1], n)
    <3>1. n \in 1 .. N /\ n - 1 \in 0 .. N
      BY <2>2
    <3> QED
      BY <1>1, <3>1 DEF Piece
  <2> QED
    BY <2>1, <2>2
<1> DEFINE C == CHOOSE f : Solves(f)
<1>3. Removal(out) = C[N]
  BY DEF Removal, Untouched, Onward
<1> HIDE DEF F, Solves
<1>4. Solves(C)
  BY <1>2
<1>5. Piece(out, C, N)
  <2>1. C = [n \in 0 .. N |-> IF n = 0 THEN Untouched ELSE Onward(out, C[n - 1], n)]
    BY <1>4 DEF Solves
  <2> HIDE DEF C
  <2>2. C[0] = Untouched
    BY <2>1
  <2>3. ASSUME NEW i \in 1 .. N PROVE C[i] = Onward(out, C[i - 1], i)
    BY <2>1
  <2> QED
    BY <2>2, <2>3 DEF Piece
<1> HIDE DEF C
<1> QED
  BY <1>3, <1>5

-----------------------------------------------------------------------------
(* What one removal, and what all of them, do to the count of a vertex.    *)

MapTyped(m) == m \in [DOMAIN m -> Int \ {0}] /\ DOMAIN m \subseteq VerticesOf(prog)
AccTyped(acc, S) == MapTyped(acc.map) /\ acc.pushed \in Seq(S)

LEMMA RemainingTyped ==
  ASSUME GivenOK, NEW m, MapTyped(m), NEW v
  PROVE  Remaining(m, v) \in Int
  BY DegreeIs DEF Remaining, MapTyped

LEMMA PutTyped ==
  ASSUME NEW m, MapTyped(m), NEW v \in VerticesOf(prog), NEW n \in Int
  PROVE  /\ MapTyped(PutRemaining(m, v, n))
         /\ \A w : w # v =>
              /\ w \in DOMAIN PutRemaining(m, v, n) <=> w \in DOMAIN m
              /\ w \in DOMAIN m => PutRemaining(m, v, n)[w] = m[w]
         /\ n = 0 => v \notin DOMAIN PutRemaining(m, v, n)
         /\ n # 0 => v \in DOMAIN PutRemaining(m, v, n) /\ PutRemaining(m, v, n)[v] = n
<1> DEFINE D == IF n = 0 THEN DOMAIN m \ {v} ELSE DOMAIN m \cup {v}
           P == PutRemaining(m, v, n)
<1>1. P = [w \in D |-> IF w = v THEN n ELSE m[w]]
  BY DEF PutRemaining
<1> HIDE DEF P
<1>2. DOMAIN P = D /\ \A w \in D : P[w] = IF w = v THEN n ELSE m[w]
  BY <1>1
<1>3. D \subseteq VerticesOf(prog) /\ (n = 0 => v \notin D) /\ \A w \in D : w # v => w \in DOMAIN m
  BY DEF MapTyped
<1>4. \A w \in D : (IF w = v THEN n ELSE m[w]) \in Int \ {0}
  <2> SUFFICES ASSUME NEW w \in D PROVE (IF w = v THEN n ELSE m[w]) \in Int \ {0}
    OBVIOUS
  <2>1. CASE w = v
    BY <1>3, <2>1
  <2>2. CASE w # v
    BY <1>3, <2>2 DEF MapTyped
  <2> QED
    BY <2>1, <2>2
<1>5. MapTyped(P)
  <2>1. P \in [D -> Int \ {0}]
    BY <1>1, <1>4
  <2> QED
    BY <1>2, <1>3, <2>1 DEF MapTyped
<1>6. \A w : w # v => (w \in D <=> w \in DOMAIN m)
  OBVIOUS
<1>7. n # 0 => v \in D
  OBVIOUS
<1> HIDE DEF D
<1>8. \A w : w # v => (w \in DOMAIN P <=> w \in DOMAIN m) /\ (w \in DOMAIN m => P[w] = m[w])
  BY <1>2, <1>6
<1>9. (n = 0 => v \notin DOMAIN P) /\ (n # 0 => v \in DOMAIN P /\ P[v] = n)
  BY <1>2, <1>3, <1>7
<1> QED
  BY <1>5, <1>8, <1>9 DEF P

LEMMA RemoveTyped ==
  ASSUME GivenOK, NEW S, NEW acc, AccTyped(acc, S), NEW e \in S, e \in edges
  PROVE  LET n == Remaining(acc.map, e.to) - 1
             r == RemoveEdge(acc, e)
         IN  /\ n \in Int /\ AccTyped(r, S)
             /\ r.map = PutRemaining(acc.map, e.to, n)
             /\ r.pushed = IF n = 0 THEN Append(acc.pushed, e) ELSE acc.pushed
<1> DEFINE n == Remaining(acc.map, e.to) - 1
           r == RemoveEdge(acc, e)
<1>1. n \in Int
  BY RemainingTyped DEF AccTyped
<1>2. e.to \in VerticesOf(prog)
  BY EdgeEnds DEF GivenOK
<1>3. /\ r.map = PutRemaining(acc.map, e.to, n)
      /\ r.pushed = IF n = 0 THEN Append(acc.pushed, e) ELSE acc.pushed
  BY DEF RemoveEdge
<1> HIDE DEF n, r
<1>4. MapTyped(r.map)
  BY <1>1, <1>2, <1>3, PutTyped DEF AccTyped
<1>5. Append(acc.pushed, e) \in Seq(S) /\ acc.pushed \in Seq(S)
  BY DEF AccTyped
<1>6. r.pushed \in Seq(S)
  BY <1>3, <1>5
<1>7. AccTyped(r, S)
  BY <1>4, <1>6 DEF AccTyped
<1> QED
  BY <1>1, <1>3, <1>7 DEF n, r

(* k of the edges into w have been removed, out of those that remained.    *)
SameAt(m, w) ==
  (w \in DOMAIN m <=> w \in DOMAIN remaining) /\ (w \in DOMAIN remaining => m[w] = remaining[w])
None(s, w) == \A i \in 1 .. Len(s) : s[i].to # w
Once(s, w) == \E i \in 1 .. Len(s) : s[i].to = w /\ \A j \in 1 .. Len(s) : s[j].to = w => j = i

Counted(acc, w, k) ==
  /\ k = 0 => SameAt(acc.map, w) /\ None(acc.pushed, w)
  /\ 0 < k /\ k < Remaining(remaining, w) =>
       /\ w \in DOMAIN acc.map /\ acc.map[w] = Remaining(remaining, w) - k
       /\ None(acc.pushed, w)
  /\ 0 < k /\ k = Remaining(remaining, w) => w \notin DOMAIN acc.map /\ Once(acc.pushed, w)

LEMMA CountedOther ==
  ASSUME GivenOK, NEW S, NEW acc, AccTyped(acc, S), NEW e \in S, e \in edges,
         NEW w, NEW k \in Nat, e.to # w, Counted(acc, w, k)
  PROVE  Counted(RemoveEdge(acc, e), w, k)
<1> DEFINE r == RemoveEdge(acc, e)
           n == Remaining(acc.map, e.to) - 1
           p == acc.pushed
<1>1. /\ n \in Int
      /\ r.map = PutRemaining(acc.map, e.to, n)
      /\ r.pushed = IF n = 0 THEN Append(p, e) ELSE p
  BY RemoveTyped
<1>2. e.to \in VerticesOf(prog)
  BY EdgeEnds DEF GivenOK
<1> HIDE DEF n, r
<1>3. (w \in DOMAIN r.map <=> w \in DOMAIN acc.map) /\ (w \in DOMAIN acc.map => r.map[w] = acc.map[w])
  BY <1>1, <1>2, PutTyped DEF AccTyped
<1>4. p \in Seq(S) /\ Len(p) \in Nat
  BY LenProperties DEF AccTyped
<1>5. /\ Len(Append(p, e)) = Len(p) + 1
      /\ \A i \in 1 .. Len(p) : Append(p, e)[i] = p[i]
      /\ Append(p, e)[Len(p) + 1] = e
  BY <1>4
<1> HIDE DEF p
<1>6. /\ None(p, w) => None(r.pushed, w)
      /\ Once(p, w) => Once(r.pushed, w)
  <2>1. CASE n # 0
    BY <1>1, <2>1
  <2>2. CASE n = 0
    <3> DEFINE q == Append(p, e)
    <3> HIDE DEF q
    <3>1. \A i \in 1 .. Len(q) : i \in 1 .. Len(p) \/ q[i].to # w
      BY <1>4, <1>5 DEF q
    <3>2. \A i \in 1 .. Len(p) : i \in 1 .. Len(q) /\ q[i] = p[i]
      BY <1>4, <1>5 DEF q
    <3>3. None(p, w) => None(q, w)
      BY <3>1, <3>2 DEF None
    <3>4. Once(p, w) => Once(q, w)
      BY <3>1, <3>2 DEF Once
    <3> QED
      BY <1>1, <2>2, <3>3, <3>4 DEF q
  <2> QED
    BY <2>1, <2>2
<1>7. Counted(r, w, k)
  <2>1. SameAt(acc.map, w) => SameAt(r.map, w)
    BY <1>3 DEF SameAt
  <2>2. acc.pushed = p
    BY DEF p
  <2> QED
    BY <1>3, <1>6, <2>1, <2>2 DEF Counted
<1> QED
  BY <1>7 DEF r

LEMMA CountedOne ==
  ASSUME GivenOK, MapTyped(remaining), NEW S, NEW acc, AccTyped(acc, S), NEW e \in S, e \in edges,
         NEW w, NEW k \in Nat, e.to = w, Counted(acc, w, k), k + 1 <= Remaining(remaining, w)
  PROVE  Counted(RemoveEdge(acc, e), w, k + 1)
<1> DEFINE r == RemoveEdge(acc, e)
           n == Remaining(acc.map, e.to) - 1
           p == acc.pushed
           R == Remaining(remaining, w)
<1>1. /\ n \in Int
      /\ r.map = PutRemaining(acc.map, e.to, n)
      /\ r.pushed = IF n = 0 THEN Append(p, e) ELSE p
  BY RemoveTyped
<1>2. w \in VerticesOf(prog) /\ R \in Int
  BY EdgeEnds, RemainingTyped DEF GivenOK
<1>3. Remaining(acc.map, w) = R - k /\ None(p, w)
  <2>1. CASE k = 0
    BY <1>2, <2>1 DEF Counted, SameAt, Remaining
  <2>2. CASE k # 0
    <3>1. 0 < k /\ k < R
      BY <1>2, <2>2
    <3>2. w \in DOMAIN acc.map /\ acc.map[w] = R - k /\ None(p, w)
      BY <3>1 DEF Counted
    <3> QED
      BY <3>2 DEF Remaining
  <2> QED
    BY <2>1, <2>2
<1>4. n = R - k - 1
  BY <1>2, <1>3
<1> HIDE DEF n, r, R
<1>5. /\ n = 0 => w \notin DOMAIN r.map
      /\ n # 0 => w \in DOMAIN r.map /\ r.map[w] = n
  BY <1>1, <1>2, PutTyped DEF AccTyped
<1>6. p \in Seq(S) /\ Len(p) \in Nat
  BY LenProperties DEF AccTyped
<1>7. /\ Len(Append(p, e)) = Len(p) + 1
      /\ \A i \in 1 .. Len(p) : Append(p, e)[i] = p[i]
      /\ Append(p, e)[Len(p) + 1] = e
  BY <1>6
<1> HIDE DEF p
<1>8. n = 0 => Once(r.pushed, w)
  <2> SUFFICES ASSUME n = 0 PROVE Once(r.pushed, w)
    OBVIOUS
  <2> DEFINE q == Append(p, e)
             i == Len(p) + 1
  <2> HIDE DEF q
  <2>1. i \in 1 .. Len(q) /\ q[i].to = w
    BY <1>6, <1>7 DEF q
  <2>2. \A j \in 1 .. Len(q) : q[j].to = w => j = i
    <3>1. \A j \in 1 .. Len(q) : j \in 1 .. Len(p) \/ j = i
      BY <1>6, <1>7 DEF q
    <3>2. \A j \in 1 .. Len(p) : q[j].to # w
      BY <1>3, <1>7 DEF None, q
    <3> QED
      BY <3>1, <3>2
  <2>3. r.pushed = q
    BY <1>1 DEF q
  <2> QED
    BY <2>1, <2>2, <2>3 DEF Once
<1>9. n # 0 => None(r.pushed, w)
  BY <1>1, <1>3
<1>10. k + 1 # 0 /\ 0 < k + 1
  OBVIOUS
<1>11. /\ 0 < k + 1 /\ k + 1 < R => n # 0 /\ n = R - (k + 1)
       /\ 0 < k + 1 /\ k + 1 = R => n = 0
  BY <1>2, <1>4 DEF R
<1> DEFINE K == k + 1
<1> HIDE DEF K
<1>12. Counted(r, w, K)
  <2>1. K # 0
    BY <1>10 DEF K
  <2>2. /\ 0 < K /\ K < Remaining(remaining, w) =>
             /\ w \in DOMAIN r.map /\ r.map[w] = Remaining(remaining, w) - K
             /\ None(r.pushed, w)
    BY <1>5, <1>9, <1>11 DEF K, R
  <2>3. 0 < K /\ K = Remaining(remaining, w) => w \notin DOMAIN r.map /\ Once(r.pushed, w)
    BY <1>5, <1>8, <1>11 DEF K, R
  <2> QED
    BY <2>1, <2>2, <2>3 DEF Counted
<1> QED
  BY <1>12 DEF r, K

(* The edges walked from v to w, and those of them among the first n.      *)
Into(v, w) == {e \in OutEdges(edges, v) : Walked(e) /\ e.to = w}
WalkedFrom(v) == {e \in OutEdges(edges, v) : Walked(e)}
Prefix(s, w, n) == {e \in edges : Walked(e) /\ e.to = w /\ \E i \in 1 .. n : s[i] = e}
Fits(v, w) == Into(v, w) = {} \/ Cardinality(Into(v, w)) <= Remaining(remaining, w)

LEMMA PrefixGrows ==
  ASSUME GivenOK, NEW v, NEW s \in Orderings(OutEdges(edges, v)), NEW w, NEW n \in 1 .. Len(s)
  PROVE  /\ Cardinality(Prefix(s, w, n)) \in Nat /\ Cardinality(Prefix(s, w, n - 1)) \in Nat
         /\ ~ (Walked(s[n]) /\ s[n].to = w) => Prefix(s, w, n) = Prefix(s, w, n - 1)
         /\ Walked(s[n]) /\ s[n].to = w =>
              Cardinality(Prefix(s, w, n)) = Cardinality(Prefix(s, w, n - 1)) + 1
<1> DEFINE P == Prefix(s, w, n)
           Q == Prefix(s, w, n - 1)
<1>1. IsFiniteSet(P) /\ IsFiniteSet(Q)
  <2>1. IsFiniteSet(edges)
    BY EdgesAreFinite
  <2>2. P \in SUBSET edges /\ Q \in SUBSET edges
    BY DEF Prefix
  <2> HIDE DEF P, Q
  <2> QED
    BY <2>1, <2>2, FS_Subset
<1>2. Cardinality(P) \in Nat /\ Cardinality(Q) \in Nat
  <2> HIDE DEF P, Q
  <2> QED
    BY <1>1, FS_CardinalityType
<1>3. /\ Len(s) \in Nat /\ s[n] \in edges
      /\ \A i, j \in 1 .. Len(s) : s[i] = s[j] => i = j
  <2>1. /\ Len(s) \in Nat
        /\ \A i \in 1 .. Len(s) : s[i] \in OutEdges(edges, v)
        /\ \A i, j \in 1 .. Len(s) : s[i] = s[j] => i = j
    BY OrderLists
  <2>2. s[n] \in OutEdges(edges, v)
    BY <2>1
  <2> QED
    BY <2>1, <2>2 DEF OutEdges
<1>4. \A i : i \in 1 .. n <=> i \in 1 .. n - 1 \/ i = n
  BY <1>3
<1>5. CASE ~ (Walked(s[n]) /\ s[n].to = w)
  <2>1. P = Q
    BY <1>4, <1>5 DEF Prefix
  <2> QED
    BY <1>2, <1>5, <2>1
<1>6. CASE Walked(s[n]) /\ s[n].to = w
  <2>1. P = Q \cup {s[n]}
    BY <1>3, <1>4, <1>6 DEF Prefix
  <2>2. \A i \in 1 .. n - 1 : i \in 1 .. Len(s) /\ n \in 1 .. Len(s) /\ i # n
    BY <1>3
  <2>3. s[n] \notin Q
    BY <1>3, <2>2 DEF Prefix
  <2> HIDE DEF P, Q
  <2>4. Cardinality(P) = Cardinality(Q) + 1
    BY <1>1, <2>1, <2>3, FS_AddElement
  <2> QED
    BY <1>2, <1>6, <2>4 DEF P, Q
<1> QED
  BY <1>5, <1>6

LEMMA PrefixFits ==
  ASSUME GivenOK, MapTyped(remaining), NEW v, NEW s \in Orderings(OutEdges(edges, v)),
         NEW w, Fits(v, w),
         NEW n \in 1 .. Len(s), Walked(s[n]), s[n].to = w
  PROVE  Cardinality(Prefix(s, w, n - 1)) + 1 <= Remaining(remaining, w)
<1>1. /\ Len(s) \in Nat
      /\ \A i \in 1 .. Len(s) : s[i] \in OutEdges(edges, v)
  BY OrderLists
<1>2. s[n] \in Into(v, w)
  BY <1>1 DEF Into
<1>3. Prefix(s, w, n) \in SUBSET Into(v, w)
  <2>1. \A i \in 1 .. n : i \in 1 .. Len(s)
    BY <1>1
  <2> QED
    BY <1>1, <2>1 DEF Prefix, Into
<1>4. IsFiniteSet(Into(v, w))
  <2>1. IsFiniteSet(OutEdges(edges, v)) /\ Into(v, w) \in SUBSET OutEdges(edges, v)
    BY EdgesAreFinite DEF Into
  <2> QED
    BY <2>1, FS_Subset
<1>5. Cardinality(Prefix(s, w, n)) <= Cardinality(Into(v, w)) /\ Cardinality(Into(v, w)) \in Nat
  BY <1>3, <1>4, FS_Subset, FS_CardinalityType
<1>6. Cardinality(Into(v, w)) <= Remaining(remaining, w)
  BY <1>2 DEF Fits
<1>7. /\ Cardinality(Prefix(s, w, n)) = Cardinality(Prefix(s, w, n - 1)) + 1
      /\ Cardinality(Prefix(s, w, n)) \in Nat /\ Cardinality(Prefix(s, w, n - 1)) \in Nat
  BY PrefixGrows
<1>8. Remaining(remaining, w) \in Int
  BY RemainingTyped
<1> QED
  BY <1>5, <1>6, <1>7, <1>8

(* After all edges out of v have been examined, in whatever order, each    *)
(* vertex has lost as many as are walked into it, and is pushed if these   *)
(* were all.                                                               *)
LEMMA RemovalCounts ==
  ASSUME GivenOK, MapTyped(remaining), NEW v, NEW s \in Orderings(OutEdges(edges, v))
  PROVE  /\ AccTyped(Removal(s), WalkedFrom(v))
         /\ \A w : Fits(v, w) => Counted(Removal(s), w, Cardinality(Into(v, w)))
<1> DEFINE N == Len(s)
           S == WalkedFrom(v)
<1>1. /\ N \in Nat
      /\ \A n \in 1 .. N : s[n] \in OutEdges(edges, v)
      /\ \A e \in OutEdges(edges, v) : \E n \in 1 .. N : s[n] = e
  BY OrderLists
<1>2. PICK g : Piece(s, g, N) /\ Removal(s) = g[N]
  BY <1>1, RemovalSteps
<1> DEFINE Good(n) == /\ AccTyped(g[n], S)
                      /\ \A w : Fits(v, w) => Counted(g[n], w, Cardinality(Prefix(s, w, n)))
<1>3. Good(0)
  <2>1. g[0] = Untouched
    BY <1>2 DEF Piece
  <2>2. AccTyped(g[0], S)
    <3>1. <<>> \in Seq(S)
      OBVIOUS
    <3> HIDE DEF S
    <3> QED
      BY <2>1, <3>1 DEF AccTyped, Untouched
  <2>3. ASSUME NEW w PROVE Counted(g[0], w, Cardinality(Prefix(s, w, 0)))
    <3>1. Prefix(s, w, 0) = {}
      BY DEF Prefix
    <3>2. Cardinality(Prefix(s, w, 0)) = 0
      BY <3>1, FS_EmptySet
    <3>3. g[0].map = remaining /\ g[0].pushed = <<>> /\ Len(<<>>) = 0
      BY <2>1 DEF Untouched
    <3>4. SameAt(g[0].map, w) /\ None(g[0].pushed, w)
      BY <3>3 DEF SameAt, None
    <3>5. Counted(g[0], w, 0)
      BY <3>4 DEF Counted
    <3> QED
      BY <3>2, <3>5
  <2> QED
    BY <2>2, <2>3
<1>4. ASSUME NEW n \in 1 .. N, Good(n - 1) PROVE Good(n)
  <2>1. s[n] \in OutEdges(edges, v) /\ s[n] \in edges
    BY <1>1 DEF OutEdges
  <2>2. g[n] = Onward(s, g[n - 1], n)
    BY <1>2 DEF Piece
  <2>3. AccTyped(g[n - 1], S) /\ \A w : Fits(v, w) => Counted(g[n - 1], w, Cardinality(Prefix(s, w, n - 1)))
    BY <1>4
  <2>4. CASE ~ Walked(s[n])
    <3>1. g[n] = g[n - 1]
      BY <2>2, <2>4 DEF Onward
    <3>2. ASSUME NEW w PROVE Prefix(s, w, n) = Prefix(s, w, n - 1)
      BY <2>4, PrefixGrows
    <3> HIDE DEF S
    <3> QED
      BY <2>3, <3>1, <3>2
  <2>5. CASE Walked(s[n])
    <3>1. g[n] = RemoveEdge(g[n - 1], s[n])
      BY <2>2, <2>5 DEF Onward
    <3>2. s[n] \in S
      BY <2>1, <2>5 DEF WalkedFrom
    <3> HIDE DEF S
    <3>3. AccTyped(g[n], S)
      BY <2>1, <2>3, <3>1, <3>2, RemoveTyped
    <3>4. ASSUME NEW w, Fits(v, w) PROVE Counted(g[n], w, Cardinality(Prefix(s, w, n)))
      <4>1. Counted(g[n - 1], w, Cardinality(Prefix(s, w, n - 1))) /\ Cardinality(Prefix(s, w, n - 1)) \in Nat
        BY <2>3, <3>4, PrefixGrows
      <4>2. CASE s[n].to # w
        <5>1. Prefix(s, w, n) = Prefix(s, w, n - 1)
          BY <4>2, PrefixGrows
        <5>2. Counted(g[n], w, Cardinality(Prefix(s, w, n - 1)))
          BY <2>1, <2>3, <3>1, <3>2, <4>1, <4>2, CountedOther
        <5> QED
          BY <5>1, <5>2
      <4>3. CASE s[n].to = w
        <5>1. Cardinality(Prefix(s, w, n)) = Cardinality(Prefix(s, w, n - 1)) + 1
          BY <2>5, <4>3, PrefixGrows
        <5>2. Cardinality(Prefix(s, w, n - 1)) + 1 <= Remaining(remaining, w)
          BY <2>5, <3>4, <4>3, PrefixFits
        <5>3. Counted(g[n], w, Cardinality(Prefix(s, w, n - 1)) + 1)
          BY <2>1, <2>3, <3>1, <3>2, <4>1, <4>3, <5>2, CountedOne
        <5> QED
          BY <5>1, <5>3
      <4> QED
        BY <4>2, <4>3
    <3> QED
      BY <3>3, <3>4
  <2> QED
    BY <2>4, <2>5
<1> HIDE DEF Good
<1>5. Good(N)
  <2> SUFFICES ASSUME ~ Good(N) PROVE FALSE
    OBVIOUS
  <2> DEFINE bad == {n \in Nat : n <= N /\ ~ Good(n)}
  <2>1. PICK n \in bad : \A m \in bad : n <= m
    <3>1. bad \in SUBSET Nat /\ bad # {}
      BY <1>1
    <3> HIDE DEF bad
    <3> QED
      BY <3>1, Least
  <2>2. n # 0
    BY <1>3, <2>1
  <2>3. n - 1 \in Nat /\ n - 1 <= N /\ n \in 1 .. N /\ n - 1 \notin bad
    BY <1>1, <2>1, <2>2
  <2>4. Good(n - 1)
    BY <2>3
  <2> QED
    BY <1>4, <2>1, <2>3, <2>4
<1>6. ASSUME NEW w PROVE Prefix(s, w, N) = Into(v, w)
  <2> HIDE DEF N
  <2> QED
    BY <1>1 DEF Prefix, Into, OutEdges
<1> QED
  BY <1>2, <1>5, <1>6 DEF Good

-----------------------------------------------------------------------------
(* Types, and what a visit does.                                           *)

OrderTyped(o) == \A v \in DOMAIN o : v \in VerticesOf(prog) /\ o[v] \in Orderings(OutEdges(edges, v))

TypeInv ==
  /\ GivenOK
  /\ visits \in [VerticesOf(prog) -> Nat]
  /\ pending \in Seq(edges \cup {EntrySelfEdge(target)})
  /\ MapTyped(remaining) /\ OrderTyped(order)
  /\ level \in Int /\ entered \subseteq DOMAIN prog
  /\ status \in {"running", "done", "crashed", "exhausted"}

(* The end of a visit of v: the print is over, or a call has returned, or  *)
(* the walk goes on, perhaps in another function.                          *)
Ends(v) ==
  v = ExitOf(v[1]) /\ Last(calls) = NoCall /\ status' = "crashed" /\ UNCHANGED <<calls, entered>>
Returns(v) ==
  /\ v = ExitOf(v[1]) /\ Last(calls) # NoCall /\ status' = "running"
  /\ calls' = Front(calls) /\ entered' = entered \ {Callee(prog, Last(calls))}
GoesOn(v) ==
  v # ExitOf(v[1]) /\ status' = "running" /\ calls' = CallsAt(v) /\ entered' = EnteredAt(v)

VisitOf(v, s) ==
  /\ status = "running" /\ pending # <<>> /\ v = Last(pending).to
  /\ UNCHANGED given
  /\ visits' = [visits EXCEPT ![v] = @ + 1]
  /\ remaining' = Removal(s).map
  /\ \/ status' = "exhausted" /\ UNCHANGED <<pending, calls, entered>>
     \/ /\ pending' = Front(pending) \o Removal(s).pushed
        /\ Ends(v) \/ Returns(v) \/ GoesOn(v)

LEMMA LastPending ==
  ASSUME TypeInv, pending # <<>>
  PROVE  /\ Len(pending) \in Nat /\ Len(pending) >= 1
         /\ Last(pending) = pending[Len(pending)]
         /\ Last(pending) \in edges \cup {EntrySelfEdge(target)}
         /\ Last(pending).to \in VerticesOf(prog)
<1> DEFINE S == edges \cup {EntrySelfEdge(target)}
<1>1. pending \in Seq(S)
  BY DEF TypeInv
<1> HIDE DEF S
<1>2. Len(pending) \in Nat /\ Len(pending) >= 1
  BY <1>1
<1>3. Last(pending) = pending[Len(pending)] /\ Last(pending) \in S
  BY <1>1, <1>2 DEF Last
<1>4. CASE Last(pending) \in edges
  BY <1>2, <1>3, <1>4, EdgeEnds DEF S, TypeInv, GivenOK
<1>5. CASE Last(pending) = EntrySelfEdge(target)
  <2>1. EntryOf(target) \in VerticesOf(prog)
    BY DEF TypeInv, GivenOK, VerticesOf
  <2> QED
    BY <1>2, <1>3, <1>5, <2>1 DEF S, EntrySelfEdge
<1> QED
  BY <1>3, <1>4, <1>5 DEF S

LEMMA OpenedTyped ==
  ASSUME GivenOK, NEW e
  PROVE  Opened(e) \in Int
<1> DEFINE fid == FilteredInDegree(e.to)
<1>1. fid \in Nat
  BY DegreeIs
<1> HIDE DEF fid
<1>2. (IF e.to = EntryOf(e.to[1]) THEN 1 ELSE 0) \in Int
  OBVIOUS
<1>3. (IF fid = 1 /\ IsDecision(e.from) THEN 1 ELSE IF fid > 2 THEN 2 - fid ELSE 0) \in Int
  BY <1>1
<1> QED
  BY <1>2, <1>3 DEF Opened, fid

LEMMA VisitParts ==
  ASSUME TypeInv, Visit
  PROVE  /\ \E v \in VerticesOf(prog) : \E s \in Orderings(OutEdges(edges, v)) : VisitOf(v, s)
         /\ OrderTyped(order') /\ level' \in Int
<1> DEFINE e == Last(pending)
           v == e.to
<1>1. v \in VerticesOf(prog) /\ status = "running" /\ pending # <<>>
  BY LastPending DEF Visit
<1>2. PICK o \in OrdersWith(edges, order, v) : \E r \in {Removal(o[v])} :
       /\ order' = o
       /\ remaining' = r.map
       /\ IF Len(pending) - 1 + Len(r.pushed) > MaxPending
          THEN /\ status' = "exhausted"
               /\ UNCHANGED <<pending, calls, entered, level>>
          ELSE /\ pending' = Front(pending) \o r.pushed
               /\ IF v = ExitOf(v[1]) /\ Last(calls) = NoCall
                  THEN /\ status' = "crashed"
                       /\ level' = level + Opened(e)
                       /\ UNCHANGED <<calls, entered>>
                  ELSE /\ calls'   = IF v = ExitOf(v[1]) THEN Front(calls) ELSE CallsAt(v)
                       /\ entered' = IF v = ExitOf(v[1]) THEN entered \ {Callee(prog, Last(calls))}
                                     ELSE EnteredAt(v)
                       /\ level'   = level + Opened(e)
                                     - (IF v = ExitOf(v[1]) THEN 1 ELSE 0)
                                     - (IF v = ExitOf(target) THEN 0 ELSE Closed(r.pushed))
                       /\ UNCHANGED status
  BY DEF Visit
<1>3. OrderTyped(o) /\ o[v] \in Orderings(OutEdges(edges, v))
  <2> HIDE DEF v
  <2>1. OrderTyped(order)
    BY DEF TypeInv
  <2>2. CASE v \in DOMAIN order
    <3>1. o = order
      BY <1>2, <2>2 DEF OrdersWith
    <3> QED
      BY <2>1, <2>2, <3>1 DEF OrderTyped
  <2>3. CASE v \notin DOMAIN order
    <3>1. PICK s \in Orderings(OutEdges(edges, v)) :
             o = [w \in DOMAIN order \cup {v} |-> IF w = v THEN s ELSE order[w]]
      BY <1>2, <2>3 DEF OrdersWith
    <3>2. DOMAIN o = DOMAIN order \cup {v} /\ o[v] = s /\ \A w \in DOMAIN order : o[w] = order[w]
      BY <2>3, <3>1
    <3> QED
      BY <1>1, <2>1, <3>2 DEF OrderTyped
  <2> QED
    BY <2>2, <2>3
<1> DEFINE r == Removal(o[v])
<1>4. Opened(e) \in Int /\ Closed(r.pushed) \in Int /\ level \in Int
  BY OpenedTyped DEF Closed, TypeInv
<1>5. level' \in Int
  <2> HIDE DEF r, e
  <2>1. \/ level' = level
        \/ level' = level + Opened(e)
        \/ level' = level + Opened(e) - (IF v = ExitOf(v[1]) THEN 1 ELSE 0)
                    - (IF v = ExitOf(target) THEN 0 ELSE Closed(r.pushed))
    BY <1>2 DEF r
  <2> QED
    BY <1>4, <2>1
<1>6. UNCHANGED given /\ visits' = [visits EXCEPT ![v] = @ + 1]
  BY DEF Visit
<1>7. VisitOf(v, o[v])
  <2>1. remaining' = r.map
    BY <1>2
  <2>2. \/ status' = "exhausted" /\ UNCHANGED <<pending, calls, entered>>
        \/ /\ pending' = Front(pending) \o r.pushed
           /\ Ends(v) \/ Returns(v) \/ GoesOn(v)
    <3> HIDE DEF v, r
    <3>1. CASE Len(pending) - 1 + Len(r.pushed) > MaxPending
      BY <1>2, <3>1 DEF r
    <3>2. CASE ~ (Len(pending) - 1 + Len(r.pushed) > MaxPending)
      <4>1. pending' = Front(pending) \o r.pushed
        BY <1>2, <3>2 DEF r
      <4>2. CASE v = ExitOf(v[1]) /\ Last(calls) = NoCall
        BY <1>2, <3>2, <4>1, <4>2 DEF r, Ends
      <4>3. CASE v = ExitOf(v[1]) /\ Last(calls) # NoCall
        BY <1>1, <1>2, <3>2, <4>1, <4>3 DEF r, Returns
      <4>4. CASE v # ExitOf(v[1])
        BY <1>1, <1>2, <3>2, <4>1, <4>4 DEF r, GoesOn
      <4> QED
        BY <4>2, <4>3, <4>4
    <3> QED
      BY <3>1, <3>2
  <2> QED
    BY <1>1, <1>6, <2>1, <2>2 DEF VisitOf
<1>8. order' = o
  BY <1>2
<1> QED
  BY <1>1, <1>3, <1>5, <1>7, <1>8

LEMMA FrontIs ==
  ASSUME NEW S, NEW s \in Seq(S), s # <<>>
  PROVE  /\ Front(s) \in Seq(S) /\ Len(Front(s)) = Len(s) - 1
         /\ \A n \in 1 .. Len(s) - 1 : Front(s)[n] = s[n]
<1> DEFINE m == Len(s) - 1
<1>1. Len(s) \in Nat /\ m \in Nat /\ m \in Int
  BY EmptySeq, LenProperties
<1>2. \A n \in 1 .. m : s[n] \in S
  BY <1>1, ElementOfSeq
<1>3. 1 <= m + 1
  BY <1>1
<1> HIDE DEF m
<1>4. CASE m >= 1
  <2>1. /\ SubSeq(s, 1, m) \in Seq(S)
        /\ Len(SubSeq(s, 1, m)) = IF 1 <= m THEN m - 1 + 1 ELSE 0
        /\ \A n \in 1 .. m - 1 + 1 : SubSeq(s, 1, m)[n] = s[1 + n - 1]
    BY <1>1, <1>2, <1>4, SubSeqProperties
  <2>2. /\ SubSeq(s, 1, m) \in Seq(S)
        /\ Len(SubSeq(s, 1, m)) = m
        /\ \A n \in 1 .. m : SubSeq(s, 1, m)[n] = s[n]
    BY <1>1, <1>4, <2>1
  <2> QED
    BY <2>2 DEF Front, m
<1>5. CASE m = 0
  <2>1. SubSeq(s, 1, 0) = <<>>
    BY <1>1
  <2>2. Front(s) = <<>>
    BY <1>5, <2>1 DEF Front, m
  <2>3. Len(s) - 1 = 0 /\ <<>> \in Seq(S) /\ Len(<<>>) = 0
    BY <1>5 DEF m
  <2>4. \A n \in 1 .. 0 : FALSE
    OBVIOUS
  <2>5. \A n \in 1 .. Len(s) - 1 : Front(s)[n] = s[n]
    BY <2>3, <2>4
  <2> QED
    BY <2>2, <2>3, <2>5
<1> QED
  BY <1>1, <1>4, <1>5

(* The edges pending after a visit are those before it but for the last,   *)
(* and after them what has been pushed.                                    *)
After(p, q) ==
  /\ q \in Seq(edges \cup {EntrySelfEdge(target)})
  /\ Len(q) \in Nat /\ Len(p) \in Nat /\ Len(q) = Len(pending) - 1 + Len(p)
  /\ \A i \in 1 .. Len(pending) - 1 : i \in 1 .. Len(q) /\ q[i] = pending[i]
  /\ \A i \in 1 .. Len(p) : Len(pending) - 1 + i \in 1 .. Len(q)
                            /\ q[Len(pending) - 1 + i] = p[i]
  /\ \A j \in 1 .. Len(q) : \/ j \in 1 .. Len(pending) - 1
                            \/ j >= Len(pending) /\ \E i \in 1 .. Len(p) : j = Len(pending) - 1 + i

LEMMA PendingAfter ==
  ASSUME TypeInv, pending # <<>>, NEW p \in Seq(edges), NEW q, q = Front(pending) \o p
  PROVE  After(p, q)
<1> DEFINE S == edges \cup {EntrySelfEdge(target)}
           F == Front(pending)
<1>1. pending \in Seq(S)
  BY DEF TypeInv
<1>2. p \in Seq(S) /\ Len(p) \in Nat /\ Len(pending) \in Nat /\ Len(pending) >= 1
  BY LastPending, SeqMonotonic
<1> HIDE DEF S
<1>3. /\ F \in Seq(S) /\ Len(F) = Len(pending) - 1
      /\ \A i \in 1 .. Len(pending) - 1 : F[i] = pending[i]
  BY <1>1, FrontIs
<1> HIDE DEF F
<1>4. q = F \o p
  BY DEF F
<1>5. /\ q \in Seq(S) /\ Len(q) = Len(F) + Len(p)
      /\ \A i \in 1 .. Len(F) + Len(p) : q[i] = IF i <= Len(F) THEN F[i] ELSE p[i - Len(F)]
  <2>1. p \in Seq(S) /\ F \in Seq(S)
    BY <1>2, <1>3
  <2>2. /\ F \o p \in Seq(S) /\ Len(F \o p) = Len(F) + Len(p)
        /\ \A i \in 1 .. Len(F) + Len(p) : (F \o p)[i] = IF i <= Len(F) THEN F[i] ELSE p[i - Len(F)]
    BY <2>1, ConcatProperties
  <2> QED
    BY <1>4, <2>2
<1>6. /\ Len(q) \in Nat /\ Len(q) = Len(pending) - 1 + Len(p)
  BY <1>2, <1>3, <1>5
<1>7. \A i \in 1 .. Len(pending) - 1 : i \in 1 .. Len(q) /\ q[i] = pending[i]
  BY <1>2, <1>3, <1>5
<1>8. \A i \in 1 .. Len(p) : Len(pending) - 1 + i \in 1 .. Len(q) /\ q[Len(pending) - 1 + i] = p[i]
  <2> SUFFICES ASSUME NEW i \in 1 .. Len(p)
               PROVE  Len(pending) - 1 + i \in 1 .. Len(q) /\ q[Len(pending) - 1 + i] = p[i]
    OBVIOUS
  <2> DEFINE j == Len(pending) - 1 + i
  <2>1. j \in 1 .. Len(F) + Len(p) /\ ~ (j <= Len(F)) /\ j - Len(F) = i
    BY <1>2, <1>3
  <2> HIDE DEF j
  <2>2. q[j] = p[j - Len(F)]
    BY <1>5, <2>1
  <2>3. j \in 1 .. Len(q) /\ q[j] = p[i]
    BY <1>5, <2>1, <2>2
  <2> QED
    BY <2>3 DEF j
<1>9. \A j \in 1 .. Len(q) : \/ j \in 1 .. Len(pending) - 1
                             \/ j >= Len(pending) /\ \E i \in 1 .. Len(p) : j = Len(pending) - 1 + i
  <2> SUFFICES ASSUME NEW j \in 1 .. Len(q), j \notin 1 .. Len(pending) - 1
               PROVE  j >= Len(pending) /\ \E i \in 1 .. Len(p) : j = Len(pending) - 1 + i
    OBVIOUS
  <2>1. j >= Len(pending) /\ j - Len(pending) + 1 \in 1 .. Len(p)
           /\ j = Len(pending) - 1 + (j - Len(pending) + 1)
    BY <1>2, <1>6
  <2> QED
    BY <2>1
<1> QED
  BY <1>2, <1>5, <1>6, <1>7, <1>8, <1>9 DEF S, After

LEMMA PushedTyped ==
  ASSUME TypeInv, NEW v, NEW s \in Orderings(OutEdges(edges, v))
  PROVE  /\ MapTyped(Removal(s).map)
         /\ Removal(s).pushed \in Seq(WalkedFrom(v)) /\ Removal(s).pushed \in Seq(edges)
<1>1. AccTyped(Removal(s), WalkedFrom(v))
  BY RemovalCounts DEF TypeInv
<1>2. WalkedFrom(v) \subseteq edges
  BY DEF WalkedFrom, OutEdges
<1> QED
  BY <1>1, <1>2, SeqMonotonic DEF AccTyped

LEMMA TypeInvVisit ==
  ASSUME TypeInv, Visit
  PROVE  TypeInv'
<1>1. PICK v \in VerticesOf(prog) : \E s \in Orderings(OutEdges(edges, v)) : VisitOf(v, s)
  BY VisitParts
<1>2. PICK s \in Orderings(OutEdges(edges, v)) : VisitOf(v, s)
  BY <1>1
<1>3. prog' = prog /\ edges' = edges /\ target' = target
  BY <1>2 DEF VisitOf, given
<1>4. GivenOK'
  BY <1>3 DEF TypeInv, GivenOK
<1>5. visits' \in [VerticesOf(prog) -> Nat]
  <2>1. visits \in [VerticesOf(prog) -> Nat] /\ visits' = [visits EXCEPT ![v] = @ + 1]
    BY <1>2 DEF VisitOf, TypeInv
  <2> QED
    BY <2>1
<1>6. pending' \in Seq(edges \cup {EntrySelfEdge(target)})
  <2>1. CASE UNCHANGED pending
    BY <2>1 DEF TypeInv
  <2>2. CASE pending' = Front(pending) \o Removal(s).pushed
    <3> DEFINE p == Removal(s).pushed
    <3>1. p \in Seq(edges) /\ pending # <<>>
      BY <1>2, PushedTyped DEF VisitOf
    <3> HIDE DEF p
    <3>2. pending' = Front(pending) \o p
      BY <2>2 DEF p
    <3> QED
      BY <3>1, <3>2, PendingAfter DEF After
  <2> QED
    BY <1>2, <2>1, <2>2 DEF VisitOf
<1>7. MapTyped(remaining)'
  <2>1. MapTyped(Removal(s).map) /\ remaining' = Removal(s).map
    BY <1>2, PushedTyped DEF VisitOf
  <2> HIDE DEF Removal
  <2> QED
    BY <1>3, <2>1 DEF MapTyped
<1>8. OrderTyped(order)' /\ level' \in Int
  <2>1. OrderTyped(order') /\ level' \in Int
    BY VisitParts
  <2> QED
    BY <1>3, <2>1 DEF OrderTyped
<1>9. entered' \subseteq DOMAIN prog
  <2>1. EnteredAt(v) \subseteq DOMAIN prog
    BY DEF EnteredAt, IsResolvedCall, Resolved, TypeInv
  <2> QED
    BY <1>2, <2>1 DEF VisitOf, Ends, Returns, GoesOn, TypeInv
<1>10. status' \in {"running", "done", "crashed", "exhausted"}
  BY <1>2 DEF VisitOf, Ends, Returns, GoesOn
<1>11. edges' \cup {EntrySelfEdge(target)'} = edges \cup {EntrySelfEdge(target)}
  BY <1>3 DEF EntrySelfEdge
<1> QED
  BY <1>3, <1>4, <1>5, <1>6, <1>7, <1>8, <1>9, <1>10, <1>11 DEF TypeInv

LEMMA TypeInvStep == TypeInv /\ [Next]_vars => TypeInv'
<1> SUFFICES ASSUME TypeInv, [Next]_vars PROVE TypeInv'
  OBVIOUS
<1>1. CASE Finish \/ Printout \/ UNCHANGED vars
  <2>1. /\ UNCHANGED <<prog, edges, target, order, pending, remaining, entered, level, visits>>
        /\ status' = "done" \/ status' = status
    BY <1>1 DEF Finish, Printout, vars, given
  <2> QED
    BY <2>1 DEF TypeInv, GivenOK, MapTyped, OrderTyped, EntrySelfEdge
<1> QED
  BY <1>1, TypeInvVisit DEF Next, Printing

LEMMA TypeInvInit == Init => TypeInv
<1> SUFFICES ASSUME Init PROVE TypeInv
  OBVIOUS
<1>1. GivenOK
  BY DEF Init, GivenOK
<1>2. visits \in [VerticesOf(prog) -> Nat] /\ level \in Int /\ entered \subseteq DOMAIN prog
  BY DEF Init
<1>3. pending \in Seq(edges \cup {EntrySelfEdge(target)})
  BY DEF Init
<1>4. MapTyped(remaining) /\ OrderTyped(order)
  BY DEF Init, MapTyped, OrderTyped
<1> QED
  BY <1>1, <1>2, <1>3, <1>4 DEF TypeInv, Init

LEMMA TypeInvHolds == Spec => []TypeInv
  BY TypeInvInit, TypeInvStep, PTL DEF Spec

(* The printer's variables are well typed: what is pending are edges of    *)
(* the program, and no entry of the map of counts is ever zero.            *)
THEOREM PrintTypeCorrect == Spec => []TypeOK
<1>1. ASSUME TypeInv, CallInv PROVE TypeOK
  <2>1. DOMAIN visits = VerticesOf(prog) /\ \A v \in VerticesOf(prog) : visits[v] \in Nat
    BY <1>1 DEF TypeInv
  <2>2. prog \in Programs /\ target \in Printed /\ edges = EdgesOf(prog)
    BY <1>1 DEF TypeInv, GivenOK
  <2>3. \A e \in edges : e.from \in VerticesOf(prog) /\ e.to \in VerticesOf(prog) /\ e.kind \in EdgeKind
    BY <2>2, EdgeEnds
  <2>4. \A n \in DOMAIN pending : pending[n].to \in VerticesOf(prog)
    <3> SUFFICES ASSUME NEW n \in DOMAIN pending PROVE pending[n].to \in VerticesOf(prog)
      OBVIOUS
    <3>1. pending[n] \in edges \cup {EntrySelfEdge(target)}
      BY <1>1 DEF TypeInv
    <3>2. EntrySelfEdge(target).to \in VerticesOf(prog)
      BY <1>1 DEF TypeInv, GivenOK, VerticesOf, EntrySelfEdge
    <3> QED
      BY <2>3, <3>1, <3>2
  <2>5. /\ DOMAIN remaining \subseteq VerticesOf(prog)
        /\ \A v \in DOMAIN remaining : remaining[v] \in Int \ {0}
    BY <1>1 DEF TypeInv, MapTyped
  <2>6. \A n \in DOMAIN calls : calls[n] \in CallSites(prog) \cup {NoCall}
    BY <1>1 DEF CallInv
  <2> QED
    BY <1>1, <2>1, <2>2, <2>3, <2>4, <2>5, <2>6 DEF TypeOK, TypeInv, OrderTyped
<1> QED
  BY <1>1, TypeInvHolds, CallInvariant, PTL

-----------------------------------------------------------------------------
(* How far the print of an orderly program has got, between two visits.    *)

(* In the activation of its function that began last, v has been visited;  *)
(* it is pending; it waits for a call to return.                           *)
Begun(v)     == visits[v] = visits[EntryOf(v[1])]
IsPending(v) == \E n \in 1 .. Len(pending) : pending[n].to = v
Waiting(v)   == \E n \in 2 .. Len(calls) : calls[n] = v

(* The function a frame is in; functions with a frame; those among them    *)
(* whose ENTRY has been visited.                                           *)
Fn(n)     == IF n = 1 THEN target ELSE Callee(prog, calls[n])
Active(f) == \E n \in 1 .. Len(calls) : f = Fn(n)
Open(f)   == Active(f) /\ ~ IsPending(EntryOf(f))

(* The forward edges into v that have been removed.                        *)
Passed(v) == Begun(v) /\ ~ Waiting(v)
Gone(v)   == {e \in FIn(v) : Passed(e.from)}

ClosedVertex(v) ==
  /\ Begun(v) /\ v \notin DOMAIN remaining
  /\ IsPending(v) => v = EntryOf(v[1]) /\ Active(v[1])

OpenVertex(v) ==
  \/ v = EntryOf(v[1]) /\ v \notin DOMAIN remaining
  \/ /\ v # EntryOf(v[1]) /\ Begun(v)
     /\ v \notin DOMAIN remaining /\ Gone(v) = FIn(v) /\ ~ IsPending(v)
  \/ /\ v # EntryOf(v[1]) /\ visits[v] = visits[EntryOf(v[1])] - 1
     /\ \/ v \notin DOMAIN remaining /\ Gone(v) = FIn(v) /\ FIn(v) # {} /\ IsPending(v)
        \/ /\ Remaining(remaining, v) = Cardinality(FIn(v)) - Cardinality(Gone(v))
           /\ Gone(v) = FIn(v) => FIn(v) = {}
           /\ ~ IsPending(v)

VerticesInv ==
  \A v \in VerticesOf(prog) : IF Open(v[1]) THEN OpenVertex(v) ELSE ClosedVertex(v)

(* Each vertex is pending once; those of an inner frame lie on top.        *)
PendingInv ==
  /\ \A i, j \in 1 .. Len(pending) : pending[i].to = pending[j].to => i = j
  /\ \A i \in 1 .. Len(pending) : Active(pending[i].to[1])
  /\ \A i, j \in 1 .. Len(pending) : i < j =>
       \A m, n \in 1 .. Len(calls) :
          pending[i].to[1] = Fn(m) /\ pending[j].to[1] = Fn(n) => m <= n

(* A frame's call is in an outer frame, m, and has been visited.  Nothing  *)
(* is pending in the frames between, and none of those was called from     *)
(* within m.                                                               *)
CalledFrom(n, m) ==
  /\ calls[n][1] = Fn(m) /\ Begun(calls[n]) /\ Open(Fn(m))
  /\ \A k \in m + 1 .. n - 1 : \A i \in 1 .. Len(pending) : pending[i].to[1] # Fn(k)
  /\ \A k \in 2 .. n - 1 : \A j \in 1 .. k - 1 : calls[k][1] = Fn(j) => ~ (j < m /\ m < k)
FramesInv ==
  \A n \in 2 .. Len(calls) :
    calls[n] \in Resolved(prog) /\ \E m \in 1 .. n - 1 : CalledFrom(n, m)

Running == TypeInv /\ CallInv /\ Orderly /\ VerticesInv /\ PendingInv /\ FramesInv

-----------------------------------------------------------------------------
(* Vertices, and the edges walked out of them.                             *)

LEMMA Ends01 ==
  ASSUME NEW f
  PROVE  /\ EntryOf(f)[1] = f /\ ExitOf(f)[1] = f
         /\ EntryOf(f)[2] = 0 /\ ExitOf(f)[2] = 1 /\ EntryOf(f) # ExitOf(f)
  BY DEF EntryOf, ExitOf

LEMMA VertexIn ==
  ASSUME GivenOK, NEW v \in VerticesOf(prog)
  PROVE  v[1] \in DOMAIN prog /\ EntryOf(v[1]) \in VerticesOf(prog)
<1>1. \A f \in DOMAIN prog : EntryOf(f) \in VerticesOf(prog)
  BY DEF VerticesOf
<1>2. CASE \E f \in DOMAIN prog : v = EntryOf(f) \/ v = ExitOf(f)
  BY <1>1, <1>2, Ends01
<1>3. CASE \E e \in edges : v = e.from \/ v = e.to
  <2>1. PICK e \in EdgesOf(prog) : v = e.from \/ v = e.to
    BY <1>3 DEF GivenOK
  <2>2. CASE OwnForm(prog, e)
    BY <1>1, <2>1, <2>2 DEF OwnForm
  <2>3. CASE CallForm(prog, e)
    BY <1>1, <2>1, <2>3, CallFacts, Ends01 DEF CallForm
  <2>4. CASE ReturnForm(prog, e)
    <3>1. ReturnPoint(prog, e.call)[1] = e.call[1]
      BY DEF ReturnPoint
    <3> QED
      BY <1>1, <2>1, <2>4, <3>1, CallFacts, Ends01 DEF ReturnForm
  <2> QED
    BY <2>1, <2>2, <2>3, <2>4, EdgeForms DEF GivenOK
<1> QED
  BY <1>2, <1>3 DEF VerticesOf, GivenOK

LEMMA ForwardWithin ==
  ASSUME GivenOK, NEW v, NEW e \in FIn(v)
  PROVE  /\ e \in edges /\ e.to = v /\ e.kind \in {"plain", "impossible"}
         /\ e.from \in VerticesOf(prog) /\ e.from[1] = v[1]
<1>1. e \in EdgesOf(prog) /\ e.to = v /\ e.kind \in {"plain", "impossible"}
  BY DEF FIn, InEdges, GivenOK
<1>2. OwnForm(prog, e)
  BY <1>1, EdgeForms DEF CallForm, ReturnForm, GivenOK
<1> QED
  BY <1>1, <1>2, EdgeEnds DEF OwnForm, GivenOK

LEMMA SitesAreNoEnds ==
  ASSUME GivenOK, NEW c \in Resolved(prog)
  PROVE  /\ c[1] \in DOMAIN prog /\ c \in VerticesOf(prog)
         /\ c # EntryOf(c[1]) /\ c # ExitOf(c[1]) /\ c # NoCall
         /\ Callee(prog, c) \in DOMAIN prog
<1>1. /\ c[1] \in DOMAIN prog /\ c[2] \in DOMAIN prog[c[1]].calls /\ c = <<c[1], c[2]>>
      /\ Callee(prog, c) \in DOMAIN prog /\ c \in CallSites(prog)
  BY CallFacts
<1>2. c[2] \notin {0, 1} /\ NoCall \notin CallSites(prog)
  BY <1>1, ProgramsAssumption DEF GivenOK
<1>3. [from |-> c, to |-> EntryOf(Callee(prog, c)), kind |-> "call", call |-> c] \in EdgesOf(prog)
  BY LinksThere
<1>4. c \in VerticesOf(prog)
  BY <1>3, EdgeEnds DEF GivenOK
<1> QED
  BY <1>1, <1>2, <1>4, Ends01

(* Edges walked when no call is made: all forward ones.                    *)
LEMMA WalkedWithin ==
  ASSUME GivenOK, NEW v, v # ExitOf(v[1]), IsResolvedCall(v) => Recursive(v)
  PROVE  \A w : Into(v, w) = {e \in FIn(w) : e.from = v}
<1>1. ASSUME NEW e \in OutEdges(edges, v) PROVE Walked(e) <=> e.kind \in {"plain", "impossible"}
  <2>1. e \in EdgesOf(prog) /\ e.from = v
    BY DEF OutEdges, GivenOK
  <2>2. CASE OwnForm(prog, e)
    <3>1. e.kind \in ArcKind
      BY <2>2 DEF OwnForm
    <3> QED
      BY <2>1, <3>1 DEF Walked, ArcKind
  <2>3. CASE CallForm(prog, e)
    <3>1. e.kind = "call" /\ e.call = v /\ v \in Resolved(prog)
      BY <2>1, <2>3 DEF CallForm
    <3>2. Recursive(v)
      BY <3>1 DEF IsResolvedCall
    <3> QED
      BY <2>1, <3>1, <3>2 DEF Walked
  <2>4. CASE ReturnForm(prog, e)
    <3>1. v = ExitOf(Callee(prog, e.call))
      BY <2>1, <2>4 DEF ReturnForm
    <3> QED
      BY <3>1, Ends01
  <2> QED
    BY <2>1, <2>2, <2>3, <2>4, EdgeForms DEF GivenOK
<1> QED
  BY <1>1 DEF Into, FIn, OutEdges, InEdges

CallEdge(c)   == [from |-> c, to |-> EntryOf(Callee(prog, c)), kind |-> "call", call |-> c]
ReturnEdge(c) ==
  [from |-> ExitOf(Callee(prog, c)), to |-> ReturnPoint(prog, c), kind |-> "return", call |-> c]

(* Edges walked when a call is made: the call's.                           *)
LEMMA WalkedCall ==
  ASSUME GivenOK, NEW v, v \in Resolved(prog), ~ Recursive(v), CallGoesOn(v)
  PROVE  \A w : Into(v, w) = IF w = EntryOf(Callee(prog, v)) THEN {CallEdge(v)} ELSE {}
<1>1. /\ CallEdge(v) \in edges /\ CallEdge(v).from = v /\ CallEdge(v).kind = "call"
      /\ CallEdge(v).to = EntryOf(Callee(prog, v))
  BY LinksThere DEF CallEdge, GivenOK
<1>2. CallEdge(v) \in OutEdges(edges, v) /\ Walked(CallEdge(v))
  BY <1>1 DEF OutEdges, Walked
<1>3. ASSUME NEW e \in OutEdges(edges, v), Walked(e) PROVE e = CallEdge(v)
  <2>1. e \in EdgesOf(prog) /\ e.from = v
    BY DEF OutEdges, GivenOK
  <2>2. CASE OwnForm(prog, e)
    <3>1. PICK f \in DOMAIN prog : \E a \in prog[f].arcs : e.from = <<f, a.from>> /\ e.kind = a.kind
      BY <2>2 DEF OwnForm
    <3>2. PICK a \in prog[f].arcs : v = <<f, a.from>> /\ e.kind = a.kind
      BY <2>1, <3>1
    <3>3. a.from = v[2] /\ f = v[1]
      BY <3>2
    <3>4. PICK b \in prog[v[1]].arcs :
            b.kind = "plain" /\ {x \in prog[v[1]].arcs : x.from = v[2]} = {b}
      BY DEF CallGoesOn
    <3>5. a = b
      BY <3>2, <3>3, <3>4
    <3>6. e.kind = "plain"
      BY <3>2, <3>4, <3>5
    <3> QED
      BY <1>3, <2>1, <3>6 DEF Walked, IsResolvedCall
  <2>3. CASE CallForm(prog, e)
    <3>1. e = [from |-> e.call, to |-> EntryOf(Callee(prog, e.call)), kind |-> "call", call |-> e.call]
      BY <2>3 DEF CallForm
    <3>2. e.call = v
      BY <2>1, <3>1
    <3> QED
      BY <3>1, <3>2 DEF CallEdge
  <2>4. CASE ReturnForm(prog, e)
    <3>1. v = ExitOf(Callee(prog, e.call))
      BY <2>1, <2>4 DEF ReturnForm
    <3> QED
      BY <3>1, SitesAreNoEnds, Ends01
  <2> QED
    BY <2>1, <2>2, <2>3, <2>4, EdgeForms DEF GivenOK
<1> QED
  BY <1>1, <1>2, <1>3 DEF Into

(* Edges walked at an EXIT: the return of the innermost call.              *)
LEMMA WalkedReturn ==
  ASSUME GivenOK, CallInv, Orderly, NEW f \in DOMAIN prog
  PROVE  /\ Last(calls) = NoCall => \A w : Into(ExitOf(f), w) = {}
         /\ Last(calls) \in Resolved(prog) /\ Callee(prog, Last(calls)) = f =>
              \A w : Into(ExitOf(f), w) =
                       IF w = ReturnPoint(prog, Last(calls)) THEN {ReturnEdge(Last(calls))} ELSE {}
<1> DEFINE v == ExitOf(f)
           c == Last(calls)
<1>1. v[1] = f /\ v \notin Resolved(prog)
  BY SitesAreNoEnds, Ends01
<1>2. CallsAt(v) = calls
  BY <1>1 DEF CallsAt, IsResolvedCall
<1> HIDE DEF c
<1>3. ASSUME NEW e \in OutEdges(edges, v), Walked(e)
      PROVE  e = ReturnEdge(c) /\ c \in Resolved(prog)
  <2>1. e \in EdgesOf(prog) /\ e.from = v
    BY DEF OutEdges, GivenOK
  <2>2. CASE OwnForm(prog, e)
    <3>1. PICK g \in DOMAIN prog : \E a \in prog[g].arcs : e.from = <<g, a.from>>
      BY <2>2 DEF OwnForm
    <3>2. PICK a \in prog[g].arcs : v = <<g, a.from>>
      BY <2>1, <3>1
    <3>3. a.from = 1
      BY <3>2, Ends01
    <3> QED
      BY <3>3 DEF Orderly
  <2>3. CASE CallForm(prog, e)
    <3>1. v \in Resolved(prog)
      BY <2>1, <2>3 DEF CallForm
    <3> QED
      BY <1>1, <3>1
  <2>4. CASE ReturnForm(prog, e)
    <3>1. e.kind = "return" /\ e.call \in Resolved(prog)
      BY <2>4 DEF ReturnForm
    <3>2. e.call = Last(CallsAt(e.from))
      BY <1>3, <3>1 DEF Walked
    <3>3. e.call = c
      BY <1>2, <2>1, <3>2 DEF c
    <3> QED
      BY <2>4, <3>1, <3>3 DEF ReturnForm, ReturnEdge
  <2> QED
    BY <2>1, <2>2, <2>3, <2>4, EdgeForms DEF GivenOK
<1>4. CASE c = NoCall
  <2>1. c \notin Resolved(prog)
    BY <1>4, SitesAreNoEnds
  <2> QED
    BY <1>3, <1>4, <2>1 DEF Into, c
<1>5. ASSUME c \in Resolved(prog), Callee(prog, c) = f
      PROVE  \A w : Into(v, w) = IF w = ReturnPoint(prog, c) THEN {ReturnEdge(c)} ELSE {}
  <2>1. /\ ReturnEdge(c) \in edges /\ ReturnEdge(c).from = v /\ ReturnEdge(c).kind = "return"
        /\ ReturnEdge(c).to = ReturnPoint(prog, c) /\ ReturnEdge(c).call = c
    BY <1>5, LinksThere DEF ReturnEdge, GivenOK
  <2>2. ReturnEdge(c) \in OutEdges(edges, v)
    BY <2>1 DEF OutEdges
  <2>3. Walked(ReturnEdge(c))
    BY <1>2, <2>1 DEF Walked, c
  <2> QED
    BY <1>3, <2>1, <2>2, <2>3 DEF Into
<1> QED
  BY <1>4, <1>5, SitesAreNoEnds DEF c

-----------------------------------------------------------------------------
(* The vertex a visit takes, and what the visit does to those pending.     *)

LEMMA Taken ==
  ASSUME Running, NEW v, pending # <<>>, v = Last(pending).to
  PROVE  /\ v \in VerticesOf(prog) /\ v[1] \in DOMAIN prog
         /\ EntryOf(v[1]) \in VerticesOf(prog)
         /\ Active(v[1]) /\ IsPending(v) /\ v \notin DOMAIN remaining
         /\ v = EntryOf(v[1]) => ~ Open(v[1]) /\ FIn(v) = {}
         /\ v # EntryOf(v[1]) =>
              /\ Open(v[1]) /\ ~ Begun(v) /\ visits[v] = visits[EntryOf(v[1])] - 1
              /\ Gone(v) = FIn(v) /\ FIn(v) # {}
<1>1. /\ v \in VerticesOf(prog) /\ Len(pending) \in Nat /\ Len(pending) >= 1
      /\ v = pending[Len(pending)].to
  BY LastPending DEF Running
<1>2. v[1] \in DOMAIN prog /\ EntryOf(v[1]) \in VerticesOf(prog)
  BY <1>1, VertexIn DEF Running, TypeInv
<1>3. Active(v[1]) /\ IsPending(v)
  BY <1>1 DEF IsPending, Running, PendingInv
<1>4. visits[v] \in Nat /\ visits[EntryOf(v[1])] \in Nat
  BY <1>1, <1>2 DEF Running, TypeInv
<1>5. CASE v = EntryOf(v[1])
  <2>1. ~ Open(v[1])
    BY <1>3, <1>5 DEF Open
  <2>2. FIn(EntryOf(v[1])) = {}
    BY <1>2 DEF Running, Orderly
  <2>3. FIn(v) = {}
    BY <1>5, <2>2
  <2>4. ClosedVertex(v)
    BY <1>1, <2>1 DEF Running, VerticesInv
  <2>5. v \notin DOMAIN remaining
    BY <2>4 DEF ClosedVertex
  <2> QED
    BY <1>1, <1>2, <1>3, <1>5, <2>1, <2>3, <2>5
<1>6. CASE v # EntryOf(v[1])
  <2>1. ~ ClosedVertex(v)
    BY <1>3, <1>6 DEF ClosedVertex
  <2>2. Open(v[1]) /\ OpenVertex(v)
    BY <1>1, <2>1 DEF Running, VerticesInv
  <2>3. /\ visits[v] = visits[EntryOf(v[1])] - 1
        /\ v \notin DOMAIN remaining /\ Gone(v) = FIn(v) /\ FIn(v) # {}
    BY <1>3, <1>6, <2>2 DEF OpenVertex
  <2>4. ~ Begun(v)
    BY <1>4, <2>3 DEF Begun
  <2> QED
    BY <1>1, <1>2, <1>3, <1>6, <2>2, <2>3, <2>4
<1> QED
  BY <1>5, <1>6

(* What is pushed becomes pending, the vertex taken no longer is, nothing  *)
(* else changes; nor do counts but those of the vertices walked to.        *)
LEMMA WalkEffect ==
  ASSUME Running, NEW v, pending # <<>>, v = Last(pending).to,
         NEW s \in Orderings(OutEdges(edges, v)),
         \A u : Into(v, u) # {} => Fits(v, u) /\ ~ IsPending(u),
         remaining' = Removal(s).map, pending' = Front(pending) \o Removal(s).pushed
  PROVE  /\ \A i, j \in 1 .. Len(pending') : pending'[i].to = pending'[j].to => i = j
         /\ \A j \in 1 .. Len(pending') :
              \/ j \in 1 .. Len(pending) - 1 /\ pending'[j] = pending[j]
              \/ j >= Len(pending) /\ Into(v, pending'[j].to) # {}
         /\ \A u : Into(v, u) = {} =>
              /\ SameAt(remaining', u)
              /\ IsPending(u)' <=> IsPending(u) /\ u # v
         /\ ~ IsPending(v)' /\ SameAt(remaining', v)
         /\ \A u : Into(v, u) # {} =>
              /\ Remaining(remaining, u) > Cardinality(Into(v, u)) =>
                   /\ ~ IsPending(u)' /\ u \in DOMAIN remaining'
                   /\ remaining'[u] = Remaining(remaining, u) - Cardinality(Into(v, u))
              /\ Remaining(remaining, u) <= Cardinality(Into(v, u)) =>
                   /\ IsPending(u)' /\ u \notin DOMAIN remaining'
                   /\ Remaining(remaining, u) = Cardinality(Into(v, u))
<1> DEFINE p == Removal(s).pushed
           m == Removal(s).map
           q == pending'
           P == Len(pending)
<1>1. GivenOK /\ TypeInv /\ PendingInv
  BY DEF Running, TypeInv
<1>2. p \in Seq(WalkedFrom(v)) /\ p \in Seq(edges)
  BY <1>1, PushedTyped
<1>3. /\ P \in Nat /\ P >= 1 /\ v = pending[P].to
  BY <1>1, LastPending
<1>4. \A u : Counted(Removal(s), u, Cardinality(Into(v, u)))
  <2>1. \A u : Fits(v, u)
    BY DEF Fits
  <2> QED
    BY <1>1, <2>1, RemovalCounts DEF TypeInv
<1>5. \A i \in 1 .. Len(p) : Into(v, p[i].to) # {}
  <2> SUFFICES ASSUME NEW i \in 1 .. Len(p) PROVE Into(v, p[i].to) # {}
    OBVIOUS
  <2> HIDE DEF p
  <2>1. p[i] \in WalkedFrom(v)
    BY <1>2, ElementOfSeq
  <2> QED
    BY <2>1 DEF WalkedFrom, Into
<1>6. \A u : Into(v, u) = {} => SameAt(m, u) /\ None(p, u)
  <2> SUFFICES ASSUME NEW u, Into(v, u) = {} PROVE SameAt(m, u) /\ None(p, u)
    OBVIOUS
  <2>1. Cardinality(Into(v, u)) = 0
    BY FS_EmptySet
  <2> QED
    BY <1>4, <2>1 DEF Counted
<1>7. \A u : Into(v, u) # {} =>
        /\ Remaining(remaining, u) > Cardinality(Into(v, u)) =>
             /\ u \in DOMAIN m /\ m[u] = Remaining(remaining, u) - Cardinality(Into(v, u))
             /\ None(p, u)
        /\ Remaining(remaining, u) <= Cardinality(Into(v, u)) =>
             /\ u \notin DOMAIN m /\ Once(p, u)
             /\ Remaining(remaining, u) = Cardinality(Into(v, u))
  <2> SUFFICES ASSUME NEW u, Into(v, u) # {}
      PROVE /\ Remaining(remaining, u) > Cardinality(Into(v, u)) =>
                 /\ u \in DOMAIN m /\ m[u] = Remaining(remaining, u) - Cardinality(Into(v, u))
                 /\ None(p, u)
            /\ Remaining(remaining, u) <= Cardinality(Into(v, u)) =>
                 /\ u \notin DOMAIN m /\ Once(p, u)
                 /\ Remaining(remaining, u) = Cardinality(Into(v, u))
    OBVIOUS
  <2> DEFINE k == Cardinality(Into(v, u))
             R == Remaining(remaining, u)
  <2>1. IsFiniteSet(Into(v, u))
    <3>1. IsFiniteSet(OutEdges(edges, v)) /\ Into(v, u) \in SUBSET OutEdges(edges, v)
      BY <1>1, EdgesAreFinite DEF Into
    <3> QED
      BY <3>1, FS_Subset
  <2>2. k \in Nat /\ k # 0
    BY <2>1, FS_CardinalityType, FS_EmptySet
  <2>3. R \in Int /\ k <= R
    BY <1>1, RemainingTyped DEF Fits, TypeInv
  <2>4. Counted(Removal(s), u, k)
    BY <1>4
  <2> HIDE DEF k, p, m
  <2>5. /\ 0 < k /\ k < R => u \in DOMAIN m /\ m[u] = R - k /\ None(p, u)
        /\ 0 < k /\ k = R => u \notin DOMAIN m /\ Once(p, u)
    BY <2>4 DEF Counted, p, m
  <2> HIDE DEF R
  <2>6. /\ R > k => u \in DOMAIN m /\ m[u] = R - k /\ None(p, u)
        /\ R <= k => u \notin DOMAIN m /\ Once(p, u) /\ R = k
    BY <2>2, <2>3, <2>5
  <2> QED
    BY <2>6 DEF k, R
<1> HIDE DEF p, m
<1>8. q = Front(pending) \o p /\ remaining' = m
  BY DEF p, m
<1>9. /\ Len(q) \in Nat /\ Len(p) \in Nat /\ Len(q) = P - 1 + Len(p)
      /\ \A i \in 1 .. P - 1 : i \in 1 .. Len(q) /\ q[i] = pending[i]
      /\ \A i \in 1 .. Len(p) : P - 1 + i \in 1 .. Len(q) /\ q[P - 1 + i] = p[i]
      /\ \A j \in 1 .. Len(q) : \/ j \in 1 .. P - 1
                                \/ j >= P /\ \E i \in 1 .. Len(p) : j = P - 1 + i
  <2>1. After(p, q)
    BY <1>1, <1>2, <1>8, PendingAfter
  <2> HIDE DEF q
  <2> QED
    BY <2>1, Zenon DEF After
<1> HIDE DEF q
<1>10. \A j \in 1 .. Len(q) :
         \/ j \in 1 .. P - 1 /\ q[j] = pending[j]
         \/ /\ j >= P /\ Into(v, q[j].to) # {}
            /\ \E i \in 1 .. Len(p) : j = P - 1 + i /\ q[j] = p[i]
  BY <1>5, <1>9
<1>11. \A u : None(p, u) => ((\E j \in 1 .. Len(q) : q[j].to = u) <=> IsPending(u) /\ u # v)
  <2> SUFFICES ASSUME NEW u, None(p, u)
               PROVE  (\E j \in 1 .. Len(q) : q[j].to = u) <=> IsPending(u) /\ u # v
    OBVIOUS
  <2>1. (\E j \in 1 .. Len(q) : q[j].to = u) <=> \E j \in 1 .. P - 1 : pending[j].to = u
    BY <1>9, <1>10 DEF None
  <2>2. \A j \in 1 .. P - 1 : j \in 1 .. P /\ P \in 1 .. P /\ j # P
    BY <1>3
  <2>3. \A j \in 1 .. P - 1 : pending[j].to # v
    BY <1>1, <1>3, <2>2 DEF PendingInv
  <2>4. \A j \in 1 .. P : j \in 1 .. P - 1 \/ j = P
    BY <1>3
  <2>5. IsPending(u) /\ u # v <=> \E j \in 1 .. P - 1 : pending[j].to = u
    BY <1>3, <2>2, <2>3, <2>4 DEF IsPending
  <2> QED
    BY <2>1, <2>5
<1>12. \A u : Once(p, u) => \E j \in 1 .. Len(q) : q[j].to = u
  BY <1>9 DEF Once
<1>13. Into(v, v) = {}
  <2>1. IsPending(v)
    BY Taken
  <2> QED
    BY <2>1
<1>14. ASSUME NEW i \in 1 .. Len(q), NEW j \in 1 .. Len(q), q[i].to = q[j].to PROVE i = j
  <2>1. CASE i \in 1 .. P - 1 /\ j \in 1 .. P - 1
    <3>1. q[i] = pending[i] /\ q[j] = pending[j] /\ i \in 1 .. P /\ j \in 1 .. P
      BY <1>3, <1>9, <2>1
    <3> QED
      BY <1>1, <1>14, <3>1 DEF PendingInv
  <2>2. \A a, b \in 1 .. Len(q) : a \in 1 .. P - 1 /\ b \notin 1 .. P - 1 => q[a].to # q[b].to
    <3> SUFFICES ASSUME NEW a \in 1 .. Len(q), NEW b \in 1 .. Len(q),
                        a \in 1 .. P - 1, b \notin 1 .. P - 1
                 PROVE  q[a].to # q[b].to
      OBVIOUS
    <3>1. Into(v, q[b].to) # {}
      BY <1>10
    <3>2. ~ IsPending(q[b].to)
      BY <3>1
    <3>3. q[a] = pending[a] /\ a \in 1 .. Len(pending)
      BY <1>3, <1>9
    <3>4. IsPending(q[a].to)
      BY <3>3 DEF IsPending
    <3> QED
      BY <3>2, <3>4
  <2>3. CASE i \notin 1 .. P - 1 /\ j \notin 1 .. P - 1
    <3>1. PICK a \in 1 .. Len(p) : i = P - 1 + a /\ q[i] = p[a]
      BY <1>10, <2>3
    <3>2. PICK b \in 1 .. Len(p) : j = P - 1 + b /\ q[j] = p[b]
      BY <1>10, <2>3
    <3> DEFINE u == q[i].to
    <3>3. p[a].to = u /\ p[b].to = u /\ Into(v, u) # {} /\ ~ None(p, u)
      <4>1. p[a].to = u /\ p[b].to = u
        BY <1>14, <3>1, <3>2
      <4>2. Into(v, p[a].to) # {}
        BY <1>5
      <4> QED
        BY <4>1, <4>2 DEF None
    <3> HIDE DEF u
    <3>4. Once(p, u)
      <4>1. Remaining(remaining, u) \in Int /\ Cardinality(Into(v, u)) \in Nat
        <5>1. IsFiniteSet(OutEdges(edges, v)) /\ Into(v, u) \in SUBSET OutEdges(edges, v)
          BY <1>1, EdgesAreFinite DEF Into
        <5>2. IsFiniteSet(Into(v, u))
          BY <5>1, FS_Subset
        <5> QED
          BY <1>1, <5>2, RemainingTyped, FS_CardinalityType DEF TypeInv
      <4> QED
        BY <1>7, <3>3, <4>1
    <3>5. a = b
      BY <3>3, <3>4 DEF Once
    <3> QED
      BY <3>1, <3>2, <3>5
  <2> QED
    BY <1>14, <2>1, <2>2, <2>3
<1>15. \A u : IsPending(u)' <=> \E j \in 1 .. Len(q) : q[j].to = u
  BY DEF IsPending, q
<1>16. \A u : SameAt(remaining', u) <=> SameAt(m, u)
  BY <1>8
<1>17. \A u : Into(v, u) = {} => SameAt(remaining', u) /\ (IsPending(u)' <=> IsPending(u) /\ u # v)
  BY <1>6, <1>11, <1>15, <1>16
<1>18. ~ IsPending(v)' /\ SameAt(remaining', v)
  BY <1>13, <1>17
<1>19. ASSUME NEW u, Into(v, u) # {}
       PROVE  /\ Remaining(remaining, u) > Cardinality(Into(v, u)) =>
                   /\ ~ IsPending(u)' /\ u \in DOMAIN remaining'
                   /\ remaining'[u] = Remaining(remaining, u) - Cardinality(Into(v, u))
              /\ Remaining(remaining, u) <= Cardinality(Into(v, u)) =>
                   /\ IsPending(u)' /\ u \notin DOMAIN remaining'
                   /\ Remaining(remaining, u) = Cardinality(Into(v, u))
  BY <1>7, <1>8, <1>11, <1>12, <1>15, <1>19
<1>20. /\ \A i, j \in 1 .. Len(pending') : pending'[i].to = pending'[j].to => i = j
       /\ \A j \in 1 .. Len(pending') :
            \/ j \in 1 .. Len(pending) - 1 /\ pending'[j] = pending[j]
            \/ j >= Len(pending) /\ Into(v, pending'[j].to) # {}
  BY <1>10, <1>14 DEF q
<1> QED
  BY <1>17, <1>18, <1>19, <1>20

-----------------------------------------------------------------------------
(* What a vertex needs so that the invariant holds of it after a visit.    *)

LEMMA SameForm ==
  ASSUME UNCHANGED given, NEW u
  PROVE  /\ FIn(u)' = FIn(u)
         /\ SameAt(remaining', u) =>
              /\ Remaining(remaining, u)' = Remaining(remaining, u)
              /\ u \in DOMAIN remaining' <=> u \in DOMAIN remaining
         /\ u \in DOMAIN remaining' => Remaining(remaining, u)' = remaining'[u]
<1>1. edges' = edges
  BY DEF given
<1>2. FIn(u)' = FIn(u) /\ FilteredInDegree(u)' = FilteredInDegree(u)
  BY <1>1 DEF FIn, FilteredInDegree
<1> QED
  BY <1>2 DEF SameAt, Remaining

LEMMA Kept ==
  ASSUME UNCHANGED given, NEW u, SameAt(remaining', u), visits'[u] = visits[u],
         visits'[EntryOf(u[1])] = visits[EntryOf(u[1])]
  PROVE  /\ (/\ ClosedVertex(u) /\ (IsPending(u)' => IsPending(u))
             /\ Active(u[1]) => Active(u[1])') => ClosedVertex(u)'
         /\ (/\ OpenVertex(u) /\ (IsPending(u)' <=> IsPending(u))
             /\ Gone(u)' = Gone(u)) => OpenVertex(u)'
<1>1. /\ FIn(u)' = FIn(u) /\ Remaining(remaining, u)' = Remaining(remaining, u)
      /\ u \in DOMAIN remaining' <=> u \in DOMAIN remaining
  BY SameForm
<1>2. Begun(u)' <=> Begun(u)
  BY DEF Begun
<1>3. ASSUME ClosedVertex(u), IsPending(u)' => IsPending(u), Active(u[1]) => Active(u[1])'
      PROVE  ClosedVertex(u)'
  BY <1>1, <1>2, <1>3 DEF ClosedVertex
<1>4. ASSUME OpenVertex(u), IsPending(u)' <=> IsPending(u), Gone(u)' = Gone(u)
      PROVE  OpenVertex(u)'
  <2>1. CASE u = EntryOf(u[1]) /\ u \notin DOMAIN remaining
    BY <1>1, <2>1 DEF OpenVertex
  <2>2. CASE /\ u # EntryOf(u[1]) /\ Begun(u)
             /\ u \notin DOMAIN remaining /\ Gone(u) = FIn(u) /\ ~ IsPending(u)
    BY <1>1, <1>2, <1>4, <2>2 DEF OpenVertex
  <2>3. CASE /\ u # EntryOf(u[1]) /\ visits[u] = visits[EntryOf(u[1])] - 1
             /\ \/ u \notin DOMAIN remaining /\ Gone(u) = FIn(u) /\ FIn(u) # {} /\ IsPending(u)
                \/ /\ Remaining(remaining, u) = Cardinality(FIn(u)) - Cardinality(Gone(u))
                   /\ Gone(u) = FIn(u) => FIn(u) = {}
                   /\ ~ IsPending(u)
    <3>1. visits'[u] = visits'[EntryOf(u[1])] - 1
      BY <2>3
    <3>2. CASE u \notin DOMAIN remaining /\ Gone(u) = FIn(u) /\ FIn(u) # {} /\ IsPending(u)
      BY <1>1, <1>4, <2>3, <3>1, <3>2 DEF OpenVertex
    <3>3. CASE /\ Remaining(remaining, u) = Cardinality(FIn(u)) - Cardinality(Gone(u))
               /\ Gone(u) = FIn(u) => FIn(u) = {}
               /\ ~ IsPending(u)
      <4>1. /\ Remaining(remaining, u)' = Cardinality(FIn(u)') - Cardinality(Gone(u)')
            /\ Gone(u)' = FIn(u)' => FIn(u)' = {}
            /\ ~ IsPending(u)'
        BY <1>1, <1>4, <3>3
      <4> QED
        BY <2>3, <3>1, <4>1 DEF OpenVertex
    <3> QED
      BY <2>3, <3>2, <3>3
  <2> QED
    BY <1>4, <2>1, <2>2, <2>3 DEF OpenVertex
<1> QED
  BY <1>3, <1>4

(* A vertex not yet visited, from which the edges I are removed after B.   *)
LEMMA Reached ==
  ASSUME GivenOK, UNCHANGED given, NEW u, u # EntryOf(u[1]),
         visits'[u] = visits'[EntryOf(u[1])] - 1,
         NEW B \in SUBSET FIn(u), NEW I \in SUBSET FIn(u), B \cap I = {},
         B = FIn(u) => FIn(u) = {},
         Remaining(remaining, u) = Cardinality(FIn(u)) - Cardinality(B),
         Gone(u)' = B \cup I,
         \/ I = {} /\ SameAt(remaining', u) /\ ~ IsPending(u)'
         \/ /\ I # {} /\ Remaining(remaining, u) > Cardinality(I) /\ ~ IsPending(u)'
            /\ u \in DOMAIN remaining'
            /\ remaining'[u] = Remaining(remaining, u) - Cardinality(I)
         \/ /\ I # {} /\ IsPending(u)' /\ u \notin DOMAIN remaining'
            /\ Remaining(remaining, u) = Cardinality(I)
  PROVE  OpenVertex(u)'
<1> DEFINE F == FIn(u)
<1>1. /\ IsFiniteSet(F) /\ IsFiniteSet(B) /\ IsFiniteSet(I)
      /\ Cardinality(F) \in Nat /\ Cardinality(B) \in Nat /\ Cardinality(I) \in Nat
  <2>1. IsFiniteSet(F)
    BY EdgesAreFinite
  <2> HIDE DEF F
  <2>2. B \in SUBSET F /\ I \in SUBSET F
    BY DEF F
  <2> QED
    BY <2>1, <2>2, FS_Subset, FS_CardinalityType
<1>2. Cardinality(B \cup I) = Cardinality(B) + Cardinality(I)
  <2>1. Cardinality(B \cap I) = 0
    BY FS_EmptySet
  <2>2. Cardinality(B \cup I) = Cardinality(B) + Cardinality(I) - Cardinality(B \cap I)
    BY <1>1, FS_Union
  <2> QED
    BY <1>1, <2>1, <2>2
<1>3. FIn(u)' = F
  BY SameForm
<1>4. CASE I = {} /\ SameAt(remaining', u) /\ ~ IsPending(u)'
  <2>1. Remaining(remaining, u)' = Remaining(remaining, u)
    BY <1>4, SameForm
  <2>2. Gone(u)' = B
    BY <1>4
  <2>3. /\ Remaining(remaining, u)' = Cardinality(FIn(u)') - Cardinality(Gone(u)')
        /\ Gone(u)' = FIn(u)' => FIn(u)' = {}
    BY <1>3, <2>1, <2>2
  <2> QED
    BY <1>4, <2>3 DEF OpenVertex
<1>5. CASE /\ I # {} /\ Remaining(remaining, u) > Cardinality(I) /\ ~ IsPending(u)'
           /\ u \in DOMAIN remaining'
           /\ remaining'[u] = Remaining(remaining, u) - Cardinality(I)
  <2>1. Remaining(remaining, u)' = Remaining(remaining, u) - Cardinality(I)
    BY <1>5, SameForm
  <2>2. Remaining(remaining, u)' = Cardinality(FIn(u)') - Cardinality(Gone(u)')
    BY <1>1, <1>2, <1>3, <2>1
  <2>3. Cardinality(B \cup I) < Cardinality(F)
    BY <1>1, <1>2, <1>5
  <2>4. Gone(u)' # FIn(u)'
    <3>1. B \cup I # F
      <4> HIDE DEF F
      <4> QED
        BY <1>1, <2>3
    <3> QED
      BY <1>3, <3>1
  <2> QED
    BY <1>5, <2>2, <2>4 DEF OpenVertex
<1>6. CASE /\ I # {} /\ IsPending(u)' /\ u \notin DOMAIN remaining'
           /\ Remaining(remaining, u) = Cardinality(I)
  <2>1. Cardinality(B \cup I) = Cardinality(F)
    BY <1>1, <1>2, <1>6
  <2>2. B \cup I = F
    <3>1. B \cup I \in SUBSET F
      OBVIOUS
    <3> HIDE DEF F
    <3> QED
      BY <1>1, <2>1, <3>1, FS_Subset
  <2>3. Gone(u)' = FIn(u)' /\ FIn(u)' # {}
    BY <1>3, <1>6, <2>2
  <2> QED
    BY <1>6, <2>3 DEF OpenVertex
<1> QED
  BY <1>4, <1>5, <1>6

-----------------------------------------------------------------------------
(* A visit that goes on within the function.                               *)

LEMMA OnlyEntriesCalled ==
  ASSUME GivenOK, NEW u, u # EntryOf(u[1])
  PROVE  FilteredInDegree(u) = Cardinality(FIn(u))
<1>1. ~ CallIn(u)
  <2> SUFFICES ASSUME NEW e \in InEdges(edges, u), e.kind = "call" PROVE FALSE
    BY DEF CallIn
  <2>1. e \in EdgesOf(prog) /\ e.to = u
    BY DEF InEdges, GivenOK
  <2>2. CallForm(prog, e)
    BY <2>1, EdgeForms DEF OwnForm, ReturnForm, ArcKind, GivenOK
  <2>3. u = EntryOf(Callee(prog, e.call))
    BY <2>1, <2>2 DEF CallForm
  <2> QED
    BY <2>3, Ends01
<1>2. Cardinality(FIn(u)) \in Nat
  BY EdgesAreFinite
<1> QED
  BY <1>1, <1>2, DegreeIs

LEMMA NotWaiting ==
  ASSUME Running, NEW v, pending # <<>>, v = Last(pending).to
  PROVE  ~ Waiting(v)
<1> SUFFICES ASSUME NEW n \in 2 .. Len(calls), calls[n] = v PROVE FALSE
  BY DEF Waiting
<1>1. v \in Resolved(prog) /\ Begun(v)
  BY DEF Running, FramesInv, CalledFrom
<1>2. v # EntryOf(v[1])
  BY <1>1, SitesAreNoEnds DEF Running, TypeInv
<1> QED
  BY <1>1, <1>2, Taken

(* The forward edges from v into u, and those removed before them.         *)
Steps(v, u)  == {e \in FIn(u) : e.from = v}
Before(v, u) == IF v = EntryOf(v[1]) THEN {} ELSE Gone(u)

LEMMA Ahead ==
  ASSUME Running, NEW v, pending # <<>>, v = Last(pending).to,
         NEW u \in VerticesOf(prog), u[1] = v[1], u # EntryOf(u[1]), u # v
  PROVE  /\ Before(v, u) \in SUBSET FIn(u) /\ Steps(v, u) \in SUBSET FIn(u)
         /\ Before(v, u) \cap Steps(v, u) = {}
         /\ \/ /\ v # EntryOf(v[1]) /\ Steps(v, u) = {} /\ OpenVertex(u)
               /\ Begun(u) \/ IsPending(u)
            \/ /\ ~ IsPending(u)
               /\ Remaining(remaining, u) = Cardinality(FIn(u)) - Cardinality(Before(v, u))
               /\ Before(v, u) = FIn(u) => FIn(u) = {}
               /\ v = EntryOf(v[1]) => visits[u] = visits[v]
               /\ v # EntryOf(v[1]) => visits[u] = visits[EntryOf(v[1])] - 1
               /\ Cardinality(Steps(v, u)) <= Remaining(remaining, u)
<1>1. GivenOK
  BY DEF Running, TypeInv
<1>2. /\ Before(v, u) \in SUBSET FIn(u) /\ Steps(v, u) \in SUBSET FIn(u)
  BY DEF Before, Steps, Gone
<1>3. Before(v, u) \cap Steps(v, u) = {}
  <2>1. CASE v = EntryOf(v[1])
    BY <2>1 DEF Before
  <2>2. CASE v # EntryOf(v[1])
    <3>1. ~ Begun(v)
      BY <2>2, Taken
    <3> QED
      BY <3>1 DEF Before, Steps, Gone, Passed
  <2> QED
    BY <2>1, <2>2
<1>4. ASSUME Remaining(remaining, u) = Cardinality(FIn(u)) - Cardinality(Before(v, u))
      PROVE  Cardinality(Steps(v, u)) <= Remaining(remaining, u)
  <2> DEFINE B == Before(v, u)
             I == Steps(v, u)
             F == FIn(u)
  <2>1. IsFiniteSet(F)
    BY <1>1, EdgesAreFinite
  <2>2. B \in SUBSET F /\ I \in SUBSET F /\ B \cap I = {}
    BY <1>2, <1>3
  <2> HIDE DEF B, I, F
  <2>3. B \cup I \in SUBSET F
    BY <2>2
  <2>4. /\ IsFiniteSet(B) /\ IsFiniteSet(I)
        /\ Cardinality(F) \in Nat /\ Cardinality(B) \in Nat /\ Cardinality(I) \in Nat
    BY <2>1, <2>2, FS_Subset, FS_CardinalityType
  <2>5. Cardinality(B \cup I) <= Cardinality(F)
    BY <2>1, <2>3, FS_Subset
  <2>6. Cardinality(B \cup I) = Cardinality(B) + Cardinality(I) - Cardinality(B \cap I)
    BY <2>4, FS_Union
  <2>7. Cardinality(B \cap I) = 0
    BY <2>2, FS_EmptySet
  <2>8. Cardinality(I) <= Cardinality(F) - Cardinality(B)
    BY <2>4, <2>5, <2>6, <2>7
  <2> QED
    BY <1>4, <2>8 DEF B, I, F
<1>5. CASE v = EntryOf(v[1])
  <2>1. ~ Open(u[1])
    BY <1>5, Taken
  <2>2. ClosedVertex(u)
    BY <2>1 DEF Running, VerticesInv
  <2>3. ~ IsPending(u) /\ visits[u] = visits[v] /\ u \notin DOMAIN remaining
    BY <1>5, <2>2 DEF ClosedVertex, Begun
  <2>4. Remaining(remaining, u) = Cardinality(FIn(u))
    BY <1>1, <2>3, OnlyEntriesCalled DEF Remaining
  <2>5. Before(v, u) = {}
    BY <1>5 DEF Before
  <2>6. Cardinality(Before(v, u)) = 0 /\ Cardinality(FIn(u)) \in Nat
    BY <1>1, <2>5, FS_EmptySet, EdgesAreFinite
  <2>7. Remaining(remaining, u) = Cardinality(FIn(u)) - Cardinality(Before(v, u))
    BY <2>4, <2>6
  <2> QED
    BY <1>2, <1>3, <1>4, <1>5, <2>3, <2>5, <2>7
<1>6. CASE v # EntryOf(v[1])
  <2>1. Open(u[1]) /\ ~ Begun(v)
    BY <1>6, Taken
  <2>2. OpenVertex(u)
    BY <2>1 DEF Running, VerticesInv
  <2>3. Before(v, u) = Gone(u)
    BY <1>6 DEF Before
  <2>4. CASE Gone(u) = FIn(u) /\ (Begun(u) \/ IsPending(u))
    <3>1. Steps(v, u) = {}
      BY <1>2, <1>3, <2>3, <2>4
    <3> QED
      BY <1>2, <1>3, <1>6, <2>2, <2>4, <3>1
  <2>5. CASE /\ visits[u] = visits[EntryOf(u[1])] - 1
             /\ Remaining(remaining, u) = Cardinality(FIn(u)) - Cardinality(Gone(u))
             /\ Gone(u) = FIn(u) => FIn(u) = {}
             /\ ~ IsPending(u)
    BY <1>2, <1>3, <1>4, <1>6, <2>3, <2>5
  <2> QED
    BY <2>2, <2>4, <2>5 DEF OpenVertex
<1> QED
  BY <1>5, <1>6

(* The visit's own vertex counts as passed from now on.                    *)
LEMMA VisitsAfter ==
  ASSUME TypeInv, NEW v \in VerticesOf(prog), visits' = [visits EXCEPT ![v] = @ + 1]
  PROVE  /\ visits'[v] = visits[v] + 1
         /\ \A w \in VerticesOf(prog) : visits[w] \in Nat /\ (w # v => visits'[w] = visits[w])
  BY DEF TypeInv

LEMMA BegunAfter ==
  ASSUME Running, NEW v, pending # <<>>, v = Last(pending).to,
         visits' = [visits EXCEPT ![v] = @ + 1],
         NEW w \in VerticesOf(prog)
  PROVE  /\ w[1] # v[1] => (Begun(w)' <=> Begun(w))
         /\ w[1] = v[1] => (Begun(w)' <=> w = v \/ (v # EntryOf(v[1]) /\ Begun(w)))
<1>1. /\ v \in VerticesOf(prog) /\ EntryOf(v[1]) \in VerticesOf(prog) /\ TypeInv
      /\ EntryOf(w[1]) \in VerticesOf(prog)
  BY Taken, VertexIn DEF Running, TypeInv
<1>2. /\ visits'[v] = visits[v] + 1
      /\ \A x \in VerticesOf(prog) : visits[x] \in Nat /\ (x # v => visits'[x] = visits[x])
  BY <1>1, VisitsAfter
<1>3. CASE w[1] # v[1]
  <2>1. EntryOf(w[1]) # v /\ w # v
    BY <1>3, Ends01
  <2> QED
    BY <1>1, <1>2, <1>3, <2>1 DEF Begun
<1>4. CASE w[1] = v[1] /\ v # EntryOf(v[1])
  <2>1. visits[v] = visits[EntryOf(v[1])] - 1
    BY <1>4, Taken
  <2>2. visits'[EntryOf(v[1])] = visits[EntryOf(v[1])]
    BY <1>1, <1>2, <1>4
  <2>3. CASE w = v
    BY <1>1, <1>2, <1>4, <2>1, <2>2, <2>3 DEF Begun
  <2>4. CASE w # v
    BY <1>1, <1>2, <1>4, <2>2, <2>4 DEF Begun
  <2> QED
    BY <1>4, <2>3, <2>4
<1>5. CASE w[1] = v[1] /\ v = EntryOf(v[1])
  <2>1. CASE w = v
    <3>1. EntryOf(w[1]) = w
      BY <1>5, <2>1
    <3> QED
      BY <1>5, <2>1, <3>1 DEF Begun
  <2>2. CASE w # v
    <3>1. ~ Open(w[1])
      BY <1>5, Taken
    <3>2. ClosedVertex(w)
      BY <3>1 DEF Running, VerticesInv
    <3>3. visits[w] = visits[EntryOf(w[1])] /\ EntryOf(w[1]) = v
      BY <1>5, <3>2 DEF ClosedVertex, Begun
    <3>4. visits'[w] = visits[w] /\ visits'[v] = visits[v] + 1 /\ visits[v] \in Nat
      BY <1>1, <1>2, <2>2
    <3>5. visits'[w] # visits'[EntryOf(w[1])]
      BY <3>3, <3>4
    <3> QED
      BY <1>5, <2>2, <3>5 DEF Begun
  <2> QED
    BY <2>1, <2>2
<1> QED
  BY <1>3, <1>4, <1>5

LEMMA FnOnce ==
  ASSUME Running
  PROVE  /\ Len(calls) \in Nat /\ Len(calls) >= 1
         /\ \A n \in 1 .. Len(calls) : Fn(n) \in DOMAIN prog
         /\ \A m, n \in 1 .. Len(calls) : Fn(m) = Fn(n) => m = n
<1>1. Len(calls) \in Nat /\ Len(calls) >= 1 /\ CalledOnce(calls)
  BY LenProperties DEF Running, CallInv
<1>2. \A n \in 2 .. Len(calls) : Fn(n) = Callee(prog, calls[n]) /\ Fn(n) # target /\ Fn(n) \in DOMAIN prog
  <2> SUFFICES ASSUME NEW n \in 2 .. Len(calls)
      PROVE Fn(n) = Callee(prog, calls[n]) /\ Fn(n) # target /\ Fn(n) \in DOMAIN prog
    OBVIOUS
  <2>1. calls[n] \in Resolved(prog)
    BY DEF Running, FramesInv
  <2>2. Callee(prog, calls[n]) # target /\ Callee(prog, calls[n]) \in DOMAIN prog
    BY <2>1, CallFacts DEF Running, Orderly
  <2> QED
    BY <2>2 DEF Fn
<1>3. Fn(1) = target /\ target \in DOMAIN prog
  BY DEF Fn, Running, TypeInv, GivenOK
<1>4. \A n \in 1 .. Len(calls) : n = 1 \/ n \in 2 .. Len(calls)
  BY <1>1
<1>5. \A n \in 1 .. Len(calls) : Fn(n) \in DOMAIN prog
  BY <1>2, <1>3, <1>4
<1>6. ASSUME NEW m \in 1 .. Len(calls), NEW n \in 1 .. Len(calls), Fn(m) = Fn(n) PROVE m = n
  <2>1. CASE m \in 2 .. Len(calls) /\ n \in 2 .. Len(calls)
    BY <1>1, <1>2, <1>6, <2>1 DEF CalledOnce
  <2>2. CASE m = 1 \/ n = 1
    BY <1>2, <1>3, <1>4, <1>6, <2>2
  <2> QED
    BY <1>4, <2>1, <2>2
<1> QED
  BY <1>1, <1>5, <1>6

LEMMA FrameKept ==
  ASSUME NEW n, NEW m, CalledFrom(n, m), n \in Nat, m \in Nat, 1 <= m, m < n,
         \A k \in 1 .. n : Fn(k)' = Fn(k) /\ calls'[k] = calls[k],
         NEW c, c = calls[n], Begun(c)', NEW g, g = Fn(m), Open(g)',
         \A k \in m + 1 .. n - 1 : \A i \in 1 .. Len(pending') : pending'[i].to[1] # Fn(k)
  PROVE  CalledFrom(n, m)'
<1>1. n \in 1 .. n /\ m \in 1 .. n
  OBVIOUS
<1>2. calls'[n] = c /\ Fn(m)' = g
  BY <1>1
<1>3. c[1] = g
  BY DEF CalledFrom
<1>4. \A k \in m + 1 .. n - 1 : k \in 1 .. n
  OBVIOUS
<1>5. \A k \in m + 1 .. n - 1 : \A i \in 1 .. Len(pending') : pending'[i].to[1] # Fn(k)'
  BY <1>4
<1>6. \A k \in 2 .. n - 1 : \A j \in 1 .. k - 1 : k \in 1 .. n /\ j \in 1 .. n
  OBVIOUS
<1>7. \A k \in 2 .. n - 1 : \A j \in 1 .. k - 1 : calls[k][1] = Fn(j) => ~ (j < m /\ m < k)
  BY DEF CalledFrom
<1>8. \A k \in 2 .. n - 1 : \A j \in 1 .. k - 1 : calls'[k][1] = Fn(j)' => ~ (j < m /\ m < k)
  <2> SUFFICES ASSUME NEW k \in 2 .. n - 1, NEW j \in 1 .. k - 1, calls'[k][1] = Fn(j)'
               PROVE  ~ (j < m /\ m < k)
    OBVIOUS
  <2>1. calls'[k] = calls[k] /\ Fn(j)' = Fn(j)
    BY <1>6
  <2> QED
    BY <1>7, <2>1
<1>9. Begun(calls[n])' /\ Open(Fn(m))'
  BY <1>2
<1> QED
  BY <1>2, <1>3, <1>5, <1>8, <1>9 DEF CalledFrom

-----------------------------------------------------------------------------
(* The visit goes on within the function: no call is made.                 *)
WithinVisit(v, s) ==
  /\ VisitOf(v, s) /\ GoesOn(v) /\ (IsResolvedCall(v) => Recursive(v))
  /\ pending' = Front(pending) \o Removal(s).pushed

LEMMA WithinSteps ==
  ASSUME Running, NEW v, NEW s \in Orderings(OutEdges(edges, v)), WithinVisit(v, s)
  PROVE  /\ calls' = calls
         /\ \A u : Into(v, u) = Steps(v, u)
         /\ \A u : Into(v, u) # {} =>
              /\ u \in VerticesOf(prog) /\ u[1] = v[1] /\ u # EntryOf(u[1]) /\ u # v
              /\ Fits(v, u) /\ ~ IsPending(u)
<1>1. /\ GivenOK /\ pending # <<>> /\ v = Last(pending).to /\ v # ExitOf(v[1])
      /\ calls' = CallsAt(v) /\ (IsResolvedCall(v) => Recursive(v))
  BY DEF WithinVisit, VisitOf, GoesOn, Running, TypeInv
<1>2. calls' = calls
  BY <1>1 DEF CallsAt
<1>3. \A u : Into(v, u) = Steps(v, u)
  BY <1>1, WalkedWithin DEF Steps
<1>4. ASSUME NEW u, Into(v, u) # {}
      PROVE  /\ u \in VerticesOf(prog) /\ u[1] = v[1] /\ u # EntryOf(u[1]) /\ u # v
             /\ Fits(v, u) /\ ~ IsPending(u)
  <2>1. PICK e \in FIn(u) : e.from = v
    BY <1>3, <1>4 DEF Steps
  <2>2. e \in edges /\ e.to = u /\ e.from[1] = u[1]
    BY <1>1, <2>1, ForwardWithin
  <2>3. u \in VerticesOf(prog) /\ u[1] = v[1]
    BY <1>1, <2>1, <2>2, EdgeEnds DEF GivenOK
  <2>4. u[1] \in DOMAIN prog
    BY <1>1, <2>3, VertexIn
  <2>5. FIn(EntryOf(u[1])) = {}
    BY <2>4 DEF Running, Orderly
  <2>6. u # EntryOf(u[1])
    BY <2>1, <2>5
  <2>7. u # v
    <3> SUFFICES ASSUME u = v PROVE FALSE
      OBVIOUS
    <3>1. Gone(v) = FIn(v) /\ ~ Begun(v)
      BY <1>1, <2>6, Taken
    <3>2. e \in Gone(v)
      BY <2>1, <3>1
    <3> QED
      BY <2>1, <3>1, <3>2 DEF Gone, Passed
  <2>8. ~ IsPending(u) /\ Cardinality(Steps(v, u)) <= Remaining(remaining, u)
    <3>1. Steps(v, u) # {}
      BY <1>3, <1>4
    <3> QED
      BY <1>1, <2>3, <2>6, <2>7, <3>1, Ahead
  <2> QED
    BY <1>3, <2>3, <2>6, <2>7, <2>8 DEF Fits
<1> QED
  BY <1>2, <1>3, <1>4

LEMMA WithinPassed ==
  ASSUME Running, NEW v, NEW s \in Orderings(OutEdges(edges, v)), WithinVisit(v, s),
         NEW u \in VerticesOf(prog)
  PROVE  /\ u[1] # v[1] => Gone(u)' = Gone(u)
         /\ u[1] = v[1] => Gone(u)' = Before(v, u) \cup Steps(v, u)
<1>1. /\ GivenOK /\ pending # <<>> /\ v = Last(pending).to /\ calls' = calls
      /\ visits' = [visits EXCEPT ![v] = @ + 1] /\ UNCHANGED given
  BY WithinSteps DEF WithinVisit, VisitOf, Running, TypeInv
<1>2. ~ Waiting(v) /\ \A w : Waiting(w)' <=> Waiting(w)
  BY <1>1, NotWaiting DEF Waiting
<1>3. \A e \in FIn(u) : e.from \in VerticesOf(prog) /\ e.from[1] = u[1]
  BY <1>1, ForwardWithin
<1>4. FIn(u)' = FIn(u)
  BY <1>1, SameForm
<1>5. CASE u[1] # v[1]
  <2>1. \A e \in FIn(u) : Passed(e.from)' <=> Passed(e.from)
    <3> SUFFICES ASSUME NEW e \in FIn(u) PROVE Passed(e.from)' <=> Passed(e.from)
      OBVIOUS
    <3> DEFINE w == e.from
    <3>1. w \in VerticesOf(prog) /\ w[1] # v[1]
      BY <1>3, <1>5
    <3> HIDE DEF w
    <3>2. Begun(w)' <=> Begun(w)
      BY <1>1, <3>1, BegunAfter
    <3>3. Passed(w)' <=> Passed(w)
      BY <1>2, <3>2 DEF Passed
    <3> QED
      BY <3>3 DEF w
  <2>2. Gone(u)' = {e \in FIn(u)' : Passed(e.from)'}
    BY DEF Gone
  <2> QED
    BY <1>4, <1>5, <2>1, <2>2 DEF Gone
<1>6. CASE u[1] = v[1]
  <2>1. \A e \in FIn(u) : Passed(e.from)' <=> e.from = v \/ (v # EntryOf(v[1]) /\ Passed(e.from))
    <3> SUFFICES ASSUME NEW e \in FIn(u)
                 PROVE  Passed(e.from)' <=> e.from = v \/ (v # EntryOf(v[1]) /\ Passed(e.from))
      OBVIOUS
    <3> DEFINE w == e.from
    <3>1. w \in VerticesOf(prog) /\ w[1] = v[1]
      BY <1>3, <1>6
    <3> HIDE DEF w
    <3>2. Begun(w)' <=> w = v \/ (v # EntryOf(v[1]) /\ Begun(w))
      BY <1>1, <3>1, BegunAfter
    <3>3. Waiting(w)' <=> Waiting(w)
      BY <1>2
    <3>4. v = EntryOf(v[1]) => ~ Waiting(v)
      BY <1>2
    <3>5. Passed(w)' <=> w = v \/ (v # EntryOf(v[1]) /\ Passed(w))
      BY <1>2, <3>2, <3>3 DEF Passed
    <3> QED
      BY <3>5 DEF w
  <2>2. Gone(u)' = {e \in FIn(u)' : Passed(e.from)'}
    BY DEF Gone
  <2>3. CASE v = EntryOf(v[1])
    BY <1>4, <1>6, <2>1, <2>2, <2>3 DEF Before, Steps
  <2>4. CASE v # EntryOf(v[1])
    BY <1>4, <1>6, <2>1, <2>2, <2>4 DEF Before, Steps, Gone
  <2> QED
    BY <2>3, <2>4
<1> QED
  BY <1>5, <1>6

LEMMA WithinVertices ==
  ASSUME Running, NEW v, NEW s \in Orderings(OutEdges(edges, v)), WithinVisit(v, s)
  PROVE  /\ VerticesInv'
         /\ \A f : Active(f)' <=> Active(f)
         /\ \A f \in DOMAIN prog : Open(f)' <=> Open(f) \/ f = v[1]
<1>1. /\ GivenOK /\ TypeInv /\ pending # <<>> /\ v = Last(pending).to /\ calls' = calls
      /\ visits' = [visits EXCEPT ![v] = @ + 1] /\ UNCHANGED given
      /\ remaining' = Removal(s).map /\ pending' = Front(pending) \o Removal(s).pushed
      /\ prog' = prog /\ target' = target
  BY WithinSteps DEF WithinVisit, VisitOf, Running, TypeInv, given
<1>2. \A u : Into(v, u) = Steps(v, u)
  BY WithinSteps
<1>3. \A u : Into(v, u) # {} =>
        /\ u \in VerticesOf(prog) /\ u[1] = v[1] /\ u # EntryOf(u[1]) /\ u # v
        /\ Fits(v, u) /\ ~ IsPending(u)
  BY WithinSteps
<1>4. /\ v \in VerticesOf(prog) /\ v[1] \in DOMAIN prog /\ EntryOf(v[1]) \in VerticesOf(prog)
      /\ Active(v[1]) /\ v \notin DOMAIN remaining
  BY <1>1, Taken
<1>5. /\ \A u : Into(v, u) = {} =>
           SameAt(remaining', u) /\ (IsPending(u)' <=> IsPending(u) /\ u # v)
      /\ ~ IsPending(v)' /\ SameAt(remaining', v)
      /\ \A u : Into(v, u) # {} =>
           /\ Remaining(remaining, u) > Cardinality(Into(v, u)) =>
                /\ ~ IsPending(u)' /\ u \in DOMAIN remaining'
                /\ remaining'[u] = Remaining(remaining, u) - Cardinality(Into(v, u))
           /\ Remaining(remaining, u) <= Cardinality(Into(v, u)) =>
                /\ IsPending(u)' /\ u \notin DOMAIN remaining'
                /\ Remaining(remaining, u) = Cardinality(Into(v, u))
  BY <1>1, <1>3, WalkEffect
<1>6. /\ visits'[v] = visits[v] + 1
      /\ \A w \in VerticesOf(prog) : visits[w] \in Nat /\ (w # v => visits'[w] = visits[w])
  BY <1>1, <1>4, VisitsAfter
<1>7. \A f : Active(f)' <=> Active(f)
  <2>1. \A n : Fn(n)' = Fn(n)
    BY <1>1 DEF Fn
  <2> QED
    BY <1>1, <2>1 DEF Active
<1>8. ASSUME NEW f PROVE Into(v, EntryOf(f)) = {}
  BY <1>3, Ends01
<1>9. ASSUME NEW f PROVE Open(f)' <=> Open(f) \/ f = v[1]
  <2>1. CASE f = v[1]
    <3>1. ~ IsPending(EntryOf(f))'
      <4>1. CASE v = EntryOf(f)
        <5>1. ~ IsPending(v)'
          BY <1>5
        <5> QED
          BY <4>1, <5>1 DEF IsPending
      <4>2. CASE v # EntryOf(f)
        <5>1. ~ IsPending(EntryOf(f))
          BY <1>1, <2>1, <4>2, Taken DEF Open
        <5>2. Into(v, EntryOf(f)) = {}
          BY <1>8
        <5> DEFINE x == EntryOf(f)
        <5> HIDE DEF x
        <5>3. Into(v, x) = {} /\ ~ IsPending(x)
          BY <5>1, <5>2 DEF x
        <5>4. ~ IsPending(x)'
          BY <1>5, <5>3
        <5> QED
          BY <5>4 DEF x, EntryOf
      <4> QED
        BY <4>1, <4>2
    <3> QED
      BY <1>4, <1>7, <2>1, <3>1 DEF Open
  <2>2. CASE f # v[1]
    <3> DEFINE x == EntryOf(f)
    <3>1. x # v /\ Into(v, x) = {}
      BY <1>8, <2>2, Ends01
    <3> HIDE DEF x
    <3>2. IsPending(x)' <=> IsPending(x)
      BY <1>5, <3>1
    <3>3. IsPending(EntryOf(f))' <=> IsPending(EntryOf(f))
      BY <3>2 DEF x, EntryOf
    <3> QED
      BY <1>7, <2>2, <3>3 DEF Open
  <2> QED
    BY <2>1, <2>2
<1>10. ASSUME NEW u \in VerticesOf(prog), u[1] # v[1]
       PROVE  IF Open(u[1])' THEN OpenVertex(u)' ELSE ClosedVertex(u)'
  <2>1. u # v /\ EntryOf(u[1]) # v /\ EntryOf(u[1]) \in VerticesOf(prog) /\ Into(v, u) = {}
    BY <1>1, <1>3, <1>10, Ends01, VertexIn
  <2>2. /\ SameAt(remaining', u) /\ (IsPending(u)' <=> IsPending(u))
        /\ visits'[u] = visits[u] /\ visits'[EntryOf(u[1])] = visits[EntryOf(u[1])]
    BY <1>5, <1>6, <2>1
  <2>3. Gone(u)' = Gone(u)
    BY <1>10, WithinPassed
  <2>4. Open(u[1])' <=> Open(u[1])
    BY <1>9, <1>10
  <2>5. CASE Open(u[1])
    <3>1. OpenVertex(u)
      BY <2>5 DEF Running, VerticesInv
    <3>2. OpenVertex(u)'
      BY <1>1, <2>2, <2>3, <3>1, Kept
    <3> QED
      BY <2>4, <2>5, <3>2
  <2>6. CASE ~ Open(u[1])
    <3>1. ClosedVertex(u)
      BY <2>6 DEF Running, VerticesInv
    <3>2. Active(u[1]) => Active(u[1])'
      BY <1>7
    <3>3. ClosedVertex(u)'
      BY <1>1, <2>2, <3>1, <3>2, Kept
    <3> QED
      BY <2>4, <2>6, <3>3
  <2> QED
    BY <2>5, <2>6
<1>11. ASSUME NEW u \in VerticesOf(prog), u[1] = v[1] PROVE OpenVertex(u)'
  <2>1. CASE u = EntryOf(u[1])
    <3>1. Into(v, u) = {}
      BY <1>8, <2>1
    <3>2. SameAt(remaining', u)
      BY <1>5, <3>1
    <3>3. u \notin DOMAIN remaining
      <4>1. CASE u = v
        BY <1>4, <4>1
      <4>2. CASE u # v
        <5>1. Open(u[1])
          BY <1>1, <1>11, <2>1, <4>2, Taken
        <5>2. OpenVertex(u)
          BY <5>1 DEF Running, VerticesInv
        <5> QED
          BY <2>1, <5>2 DEF OpenVertex
      <4> QED
        BY <4>1, <4>2
    <3> QED
      BY <2>1, <3>2, <3>3 DEF OpenVertex, SameAt
  <2>2. CASE u # EntryOf(u[1]) /\ u = v
    <3>1. Begun(u)'
      <4>1. Begun(v)'
        BY <1>1, <1>4, BegunAfter
      <4> QED
        BY <2>2, <4>1 DEF Begun
    <3>2. SameAt(remaining', u) /\ ~ IsPending(u)' /\ u \notin DOMAIN remaining
      <4>1. ~ IsPending(u)'
        BY <1>5, <2>2 DEF IsPending
      <4> QED
        BY <1>4, <1>5, <2>2, <4>1
    <3>3. Gone(u)' = FIn(u)'
      <4>1. Gone(u)' = Before(v, u) \cup Steps(v, u)
        BY <1>11, WithinPassed
      <4>2. Before(v, u) = FIn(u)
        BY <1>1, <1>11, <2>2, Taken DEF Before
      <4>3. FIn(u)' = FIn(u)
        BY <1>1, SameForm
      <4> QED
        BY <4>1, <4>2, <4>3 DEF Steps
    <3> QED
      BY <2>2, <3>1, <3>2, <3>3 DEF OpenVertex, SameAt
  <2>3. CASE u # EntryOf(u[1]) /\ u # v
    <3>1. /\ Before(v, u) \in SUBSET FIn(u) /\ Steps(v, u) \in SUBSET FIn(u)
          /\ Before(v, u) \cap Steps(v, u) = {}
      BY <1>1, <1>11, <2>3, Ahead
    <3>2. Gone(u)' = Before(v, u) \cup Steps(v, u)
      BY <1>11, WithinPassed
    <3>3. EntryOf(u[1]) \in VerticesOf(prog) /\ visits'[u] = visits[u]
      BY <1>4, <1>6, <1>11, <2>3
    <3>4. CASE /\ v # EntryOf(v[1]) /\ Steps(v, u) = {} /\ OpenVertex(u)
               /\ Begun(u) \/ IsPending(u)
      <4>1. Gone(u)' = Gone(u)
        BY <3>2, <3>4 DEF Before
      <4>2. SameAt(remaining', u) /\ (IsPending(u)' <=> IsPending(u))
        BY <1>2, <1>5, <2>3, <3>4
      <4>3. visits'[EntryOf(u[1])] = visits[EntryOf(u[1])]
        BY <1>6, <1>11, <3>3, <3>4
      <4> QED
        BY <1>1, <3>3, <3>4, <4>1, <4>2, <4>3, Kept
    <3>5. CASE /\ ~ IsPending(u)
               /\ Remaining(remaining, u) = Cardinality(FIn(u)) - Cardinality(Before(v, u))
               /\ Before(v, u) = FIn(u) => FIn(u) = {}
               /\ v = EntryOf(v[1]) => visits[u] = visits[v]
               /\ v # EntryOf(v[1]) => visits[u] = visits[EntryOf(v[1])] - 1
               /\ Cardinality(Steps(v, u)) <= Remaining(remaining, u)
      <4>1. visits'[u] = visits'[EntryOf(u[1])] - 1
        <5>1. visits[v] \in Nat /\ visits[u] \in Nat /\ visits[EntryOf(v[1])] \in Nat
          BY <1>4, <1>6
        <5>2. CASE v = EntryOf(v[1])
          <6>1. visits'[EntryOf(u[1])] = visits[v] + 1
            BY <1>6, <1>11, <5>2
          <6> QED
            BY <3>3, <3>5, <5>1, <5>2, <6>1
        <5>3. CASE v # EntryOf(v[1])
          <6>1. visits'[EntryOf(u[1])] = visits[EntryOf(v[1])]
            BY <1>4, <1>6, <1>11, <5>3
          <6> QED
            BY <3>3, <3>5, <5>1, <5>3, <6>1
        <5> QED
          BY <5>2, <5>3
      <4>2. Into(v, u) = Steps(v, u)
        BY <1>2
      <4> DEFINE I == Steps(v, u)
                 B == Before(v, u)
      <4>3. Remaining(remaining, u) \in Int /\ Cardinality(I) \in Nat
        <5>1. IsFiniteSet(FIn(u)) /\ I \in SUBSET FIn(u)
          BY <1>1, <3>1, EdgesAreFinite
        <5> HIDE DEF I
        <5>2. IsFiniteSet(I)
          BY <5>1, FS_Subset
        <5> QED
          BY <1>1, <5>2, RemainingTyped, FS_CardinalityType DEF TypeInv
      <4>4. \/ I = {} /\ SameAt(remaining', u) /\ ~ IsPending(u)'
            \/ /\ I # {} /\ Remaining(remaining, u) > Cardinality(I) /\ ~ IsPending(u)'
               /\ u \in DOMAIN remaining'
               /\ remaining'[u] = Remaining(remaining, u) - Cardinality(I)
            \/ /\ I # {} /\ IsPending(u)' /\ u \notin DOMAIN remaining'
               /\ Remaining(remaining, u) = Cardinality(I)
        <5>1. Into(v, u) = I
          BY <4>2
        <5> HIDE DEF I
        <5>2. CASE I = {}
          BY <1>5, <3>5, <5>1, <5>2
        <5>3. CASE I # {} /\ Remaining(remaining, u) > Cardinality(I)
          BY <1>5, <5>1, <5>3
        <5>4. CASE I # {} /\ Remaining(remaining, u) <= Cardinality(I)
          BY <1>5, <5>1, <5>4
        <5> QED
          BY <4>3, <5>2, <5>3, <5>4
      <4>5. /\ B \in SUBSET FIn(u) /\ I \in SUBSET FIn(u) /\ B \cap I = {}
            /\ (B = FIn(u) => FIn(u) = {})
            /\ Remaining(remaining, u) = Cardinality(FIn(u)) - Cardinality(B)
            /\ Gone(u)' = B \cup I
        BY <3>1, <3>2, <3>5
      <4> HIDE DEF B, I
      <4> QED
        BY <1>1, <2>3, <4>1, <4>4, <4>5, Reached
    <3> QED
      BY <1>1, <1>11, <2>3, <3>4, <3>5, Ahead
  <2> QED
    BY <2>1, <2>2, <2>3
<1>12. VerticesInv'
  <2>1. VerticesOf(prog') = VerticesOf(prog)
    BY <1>1
  <2>2. ASSUME NEW u \in VerticesOf(prog)
        PROVE  IF Open(u[1])' THEN OpenVertex(u)' ELSE ClosedVertex(u)'
    <3>1. CASE u[1] = v[1]
      BY <1>9, <1>11, <3>1
    <3>2. CASE u[1] # v[1]
      BY <1>10, <3>2
    <3> QED
      BY <3>1, <3>2
  <2> QED
    BY <2>1, <2>2 DEF VerticesInv
<1> QED
  BY <1>7, <1>9, <1>12

LEMMA WithinPending ==
  ASSUME Running, NEW v, NEW s \in Orderings(OutEdges(edges, v)), WithinVisit(v, s)
  PROVE  /\ PendingInv'
         /\ \A n : (\E i \in 1 .. Len(pending') : pending'[i].to[1] = Fn(n))
                     => \E i \in 1 .. Len(pending) : pending[i].to[1] = Fn(n)
<1>1. /\ GivenOK /\ TypeInv /\ pending # <<>> /\ v = Last(pending).to /\ calls' = calls
      /\ remaining' = Removal(s).map /\ pending' = Front(pending) \o Removal(s).pushed
      /\ prog' = prog /\ target' = target
  BY WithinSteps DEF WithinVisit, VisitOf, Running, TypeInv, given
<1>2. \A u : Into(v, u) # {} => u[1] = v[1] /\ Fits(v, u) /\ ~ IsPending(u)
  BY WithinSteps
<1>3. /\ \A i, j \in 1 .. Len(pending') : pending'[i].to = pending'[j].to => i = j
      /\ \A j \in 1 .. Len(pending') :
           \/ j \in 1 .. Len(pending) - 1 /\ pending'[j] = pending[j]
           \/ j >= Len(pending) /\ Into(v, pending'[j].to) # {}
  BY <1>1, <1>2, WalkEffect
<1>4. Len(pending) \in Nat /\ Len(pending) >= 1 /\ v = pending[Len(pending)].to
  BY <1>1, LastPending
<1>5. \A j \in 1 .. Len(pending') :
        \/ j \in 1 .. Len(pending) - 1 /\ pending'[j].to[1] = pending[j].to[1]
        \/ j >= Len(pending) /\ pending'[j].to[1] = pending[Len(pending)].to[1]
  BY <1>2, <1>3, <1>4
<1>6. \A n : Fn(n)' = Fn(n)
  BY <1>1 DEF Fn
<1>7. \A f : Active(f)' <=> Active(f)
  BY <1>1, <1>6 DEF Active
<1>8. /\ \A i \in 1 .. Len(pending) : Active(pending[i].to[1])
      /\ \A i, j \in 1 .. Len(pending) : i < j =>
           \A m, n \in 1 .. Len(calls) :
             pending[i].to[1] = Fn(m) /\ pending[j].to[1] = Fn(n) => m <= n
  BY DEF Running, PendingInv
<1>9. Len(pending) \in 1 .. Len(pending) /\ \A j \in 1 .. Len(pending) - 1 : j \in 1 .. Len(pending)
  BY <1>4
<1>10. \A i \in 1 .. Len(pending') : \E n \in 1 .. Len(calls') : pending'[i].to[1] = Fn(n)'
  <2> SUFFICES ASSUME NEW i \in 1 .. Len(pending')
               PROVE  \E n \in 1 .. Len(calls') : pending'[i].to[1] = Fn(n)'
    OBVIOUS
  <2>1. PICK j \in 1 .. Len(pending) : pending'[i].to[1] = pending[j].to[1]
    BY <1>5, <1>9
  <2>2. PICK n \in 1 .. Len(calls) : pending[j].to[1] = Fn(n)
    BY <1>8 DEF Active
  <2>3. n \in 1 .. Len(calls') /\ pending'[i].to[1] = Fn(n)'
    BY <1>1, <1>6, <2>1, <2>2
  <2> QED
    BY <2>3
<1>11. ASSUME NEW i \in 1 .. Len(pending'), NEW j \in 1 .. Len(pending'), i < j,
              NEW m \in 1 .. Len(calls), NEW n \in 1 .. Len(calls),
              pending'[i].to[1] = Fn(m), pending'[j].to[1] = Fn(n)
       PROVE  m <= n
  <2>1. m \in Nat /\ n \in Nat /\ i \in Nat /\ j \in Nat
    BY FnOnce
  <2>2. CASE j \in 1 .. Len(pending) - 1
    <3>1. i \in 1 .. Len(pending) - 1
      BY <1>4, <1>11, <2>1, <2>2
    <3>2. ~ (i >= Len(pending)) /\ ~ (j >= Len(pending))
      BY <1>4, <2>2, <3>1
    <3>3. pending[i].to[1] = Fn(m) /\ pending[j].to[1] = Fn(n)
      BY <1>5, <1>11, <3>2
    <3> QED
      BY <1>8, <1>9, <1>11, <2>2, <3>1, <3>3
  <2>3. CASE j \notin 1 .. Len(pending) - 1 /\ i \in 1 .. Len(pending) - 1
    <3>1. pending[Len(pending)].to[1] = Fn(n)
      BY <1>5, <1>11, <2>3
    <3>2. ~ (i >= Len(pending)) /\ i < Len(pending)
      BY <1>4, <2>3
    <3>3. pending[i].to[1] = Fn(m)
      BY <1>5, <1>11, <3>2
    <3> QED
      BY <1>8, <1>9, <2>3, <3>1, <3>2, <3>3
  <2>4. CASE j \notin 1 .. Len(pending) - 1 /\ i \notin 1 .. Len(pending) - 1
    <3>1. Fn(m) = Fn(n)
      BY <1>5, <1>11, <2>4
    <3>2. m = n
      BY <3>1, FnOnce
    <3> QED
      BY <2>1, <3>2
  <2> QED
    BY <2>2, <2>3, <2>4
<1>12. PendingInv'
  <2>1. ASSUME NEW i \in 1 .. Len(pending'), NEW j \in 1 .. Len(pending'), i < j,
               NEW m \in 1 .. Len(calls'), NEW n \in 1 .. Len(calls'),
               pending'[i].to[1] = Fn(m)', pending'[j].to[1] = Fn(n)'
        PROVE  m <= n
    <3>1. m \in 1 .. Len(calls) /\ n \in 1 .. Len(calls)
      BY <1>1
    <3>2. pending'[i].to[1] = Fn(m) /\ pending'[j].to[1] = Fn(n)
      BY <1>6, <2>1
    <3> QED
      BY <1>11, <2>1, <3>1, <3>2
  <2> QED
    BY <1>3, <1>10, <2>1 DEF PendingInv, Active
<1> QED
  BY <1>5, <1>9, <1>12

LEMMA WithinFrames ==
  ASSUME Running, NEW v, NEW s \in Orderings(OutEdges(edges, v)), WithinVisit(v, s)
  PROVE  FramesInv'
<1>1. /\ GivenOK /\ pending # <<>> /\ v = Last(pending).to /\ calls' = calls
      /\ visits' = [visits EXCEPT ![v] = @ + 1]
      /\ prog' = prog /\ target' = target
  BY WithinSteps DEF WithinVisit, VisitOf, Running, TypeInv, given
<1>2. \A n : Fn(n)' = Fn(n)
  BY <1>1 DEF Fn
<1>3. SUFFICES ASSUME NEW n \in 2 .. Len(calls)
               PROVE  calls[n] \in Resolved(prog) /\ \E m \in 1 .. n - 1 : CalledFrom(n, m)'
  <2>1. \A n \in 2 .. Len(calls') :
          calls'[n] \in Resolved(prog') /\ \E m \in 1 .. n - 1 : CalledFrom(n, m)'
    BY <1>1, <1>3
  <2> QED
    BY <2>1 DEF FramesInv
<1>4. PICK m \in 1 .. n - 1 : calls[n] \in Resolved(prog) /\ CalledFrom(n, m)
  BY DEF Running, FramesInv
<1>5. n \in Nat /\ m \in Nat /\ 1 <= m /\ m < n /\ m \in 1 .. Len(calls)
  BY FnOnce
<1>6. PICK c, g : c = calls[n] /\ g = Fn(m)
  OBVIOUS
<1>7. c[1] = g /\ Begun(c) /\ Open(g) /\ c \in VerticesOf(prog) /\ g \in DOMAIN prog
  BY <1>1, <1>4, <1>6, SitesAreNoEnds DEF CalledFrom
<1>8. \A k \in m + 1 .. n - 1 : \A i \in 1 .. Len(pending) : pending[i].to[1] # Fn(k)
  BY <1>4 DEF CalledFrom
<1>9. Begun(c)'
  <2>1. CASE c[1] # v[1]
    BY <1>1, <1>7, <2>1, BegunAfter
  <2>2. CASE c[1] = v[1]
    <3>1. v # EntryOf(v[1])
      BY <1>1, <1>7, <2>2, Taken
    <3> QED
      BY <1>1, <1>7, <2>2, <3>1, BegunAfter
  <2> QED
    BY <2>1, <2>2
<1>10. Open(g)'
  BY <1>7, WithinVertices
<1>11. \A k \in m + 1 .. n - 1 : \A i \in 1 .. Len(pending') : pending'[i].to[1] # Fn(k)
  BY <1>8, WithinPending
<1>12. CalledFrom(n, m)'
  <2>1. \A k \in 1 .. n : Fn(k)' = Fn(k) /\ calls'[k] = calls[k]
    BY <1>1, <1>2
  <2> QED
    BY <1>4, <1>5, <1>9, <1>10, <1>11, <1>6, <2>1, FrameKept
<1> QED
  BY <1>4, <1>12

-----------------------------------------------------------------------------
(* The visit makes a call.                                                 *)
CallVisit(v, s) ==
  /\ VisitOf(v, s) /\ GoesOn(v) /\ IsResolvedCall(v) /\ ~ Recursive(v)
  /\ pending' = Front(pending) \o Removal(s).pushed

LEMMA CallSteps ==
  ASSUME Running, NEW v, NEW s \in Orderings(OutEdges(edges, v)), CallVisit(v, s),
         NEW g, g = Callee(prog, v)
  PROVE  /\ g \in DOMAIN prog /\ v # EntryOf(v[1])
         /\ ~ Active(g) /\ ~ IsPending(EntryOf(g)) /\ EntryOf(g) \notin DOMAIN remaining
         /\ \A u : Into(v, u) = IF u = EntryOf(g) THEN {CallEdge(v)} ELSE {}
         /\ \A u : Into(v, u) # {} => Fits(v, u) /\ ~ IsPending(u)
         /\ Remaining(remaining, EntryOf(g)) <= Cardinality(Into(v, EntryOf(g)))
         /\ Len(calls) \in Nat /\ Len(calls') = Len(calls) + 1 /\ calls'[Len(calls) + 1] = v
         /\ \A n \in 1 .. Len(calls) : calls'[n] = calls[n]
<1>1. /\ GivenOK /\ pending # <<>> /\ v = Last(pending).to
      /\ calls' = CallsAt(v) /\ v \in Resolved(prog) /\ g \notin entered
  BY DEF CallVisit, VisitOf, GoesOn, IsResolvedCall, Recursive, Running, TypeInv
<1>2. calls' = Append(calls, v)
  BY <1>1 DEF CallsAt, CallVisit
<1>3. g \in DOMAIN prog /\ v # EntryOf(v[1])
  BY <1>1, SitesAreNoEnds
<1>4. CallGoesOn(v) /\ g # target
  BY <1>1 DEF Running, Orderly
<1>5. \A u : Into(v, u) = IF u = EntryOf(g) THEN {CallEdge(v)} ELSE {}
  BY <1>1, <1>4, WalkedCall DEF CallVisit
<1>6. ~ Active(g)
  <2> SUFFICES ASSUME NEW n \in 1 .. Len(calls), g = Fn(n) PROVE FALSE
    BY DEF Active
  <2>1. n # 1
    BY <1>4 DEF Fn
  <2>2. n \in 2 .. Len(calls) /\ g = Callee(prog, calls[n])
    BY <2>1, FnOnce DEF Fn
  <2>3. g \in entered
    BY <2>2 DEF Running, CallInv, Called
  <2> QED
    BY <1>1, <2>3
<1>7. ~ IsPending(EntryOf(g)) /\ EntryOf(g) \notin DOMAIN remaining
  <2>1. EntryOf(g) \in VerticesOf(prog) /\ EntryOf(g)[1] = g
    BY <1>3, Ends01 DEF VerticesOf
  <2>2. ~ Open(EntryOf(g)[1])
    BY <1>6, <2>1 DEF Open
  <2>3. ClosedVertex(EntryOf(g))
    BY <2>1, <2>2 DEF Running, VerticesInv
  <2> QED
    BY <1>6, <2>1, <2>3 DEF ClosedVertex
<1>8. Remaining(remaining, EntryOf(g)) = 1
  <2>1. CallIn(EntryOf(g))
    <3>1. CallEdge(v) \in edges /\ CallEdge(v).to = EntryOf(g) /\ CallEdge(v).kind = "call"
      BY <1>1, LinksThere DEF CallEdge, GivenOK
    <3> QED
      BY <3>1 DEF CallIn, InEdges
  <2>2. FIn(EntryOf(g)) = {}
    BY <1>3 DEF Running, Orderly
  <2>3. Cardinality(FIn(EntryOf(g))) = 0
    BY <2>2, FS_EmptySet
  <2>4. FilteredInDegree(EntryOf(g)) = 1
    BY <1>1, <2>1, <2>3, DegreeIs
  <2> QED
    BY <1>7, <2>4 DEF Remaining
<1>9. Cardinality(Into(v, EntryOf(g))) = 1
  <2>1. Into(v, EntryOf(g)) = {CallEdge(v)}
    BY <1>5
  <2> QED
    BY <2>1, FS_Singleton
<1>10. \A u : Into(v, u) # {} => Fits(v, u) /\ ~ IsPending(u)
  <2> SUFFICES ASSUME NEW u, Into(v, u) # {} PROVE Fits(v, u) /\ ~ IsPending(u)
    OBVIOUS
  <2>1. u = EntryOf(g)
    BY <1>5
  <2>2. Cardinality(Into(v, u)) = 1 /\ Remaining(remaining, u) = 1 /\ ~ IsPending(u)
    BY <1>7, <1>8, <1>9, <2>1
  <2> QED
    BY <2>2 DEF Fits
<1>11. /\ Len(calls) \in Nat /\ Len(calls') = Len(calls) + 1 /\ calls'[Len(calls) + 1] = v
       /\ \A n \in 1 .. Len(calls) : calls'[n] = calls[n]
  <2>1. calls \in Seq(CallSites(prog) \cup {NoCall}) /\ Len(calls) \in Nat
    BY LenProperties DEF Running, CallInv
  <2>2. v \in CallSites(prog) \cup {NoCall}
    BY <1>1 DEF Resolved
  <2> QED
    BY <1>2, <2>1, <2>2
<1> QED
  BY <1>3, <1>5, <1>6, <1>7, <1>8, <1>9, <1>10, <1>11

LEMMA CallEffect ==
  ASSUME Running, NEW v, NEW s \in Orderings(OutEdges(edges, v)), CallVisit(v, s),
         NEW g, g = Callee(prog, v)
  PROVE  /\ \A i, j \in 1 .. Len(pending') : pending'[i].to = pending'[j].to => i = j
         /\ \A j \in 1 .. Len(pending') :
              \/ j \in 1 .. Len(pending) - 1 /\ pending'[j] = pending[j]
              \/ j >= Len(pending) /\ pending'[j].to = EntryOf(g)
         /\ \A u : SameAt(remaining', u)
         /\ \A u : IsPending(u)' <=> u = EntryOf(g) \/ (IsPending(u) /\ u # v)
         /\ \A n \in 1 .. Len(calls) : Fn(n)' = Fn(n)
         /\ \A n : n = Len(calls) + 1 => Fn(n)' = g
         /\ \A f : Active(f)' <=> Active(f) \/ f = g
         /\ \A u : Waiting(u)' <=> Waiting(u) \/ u = v
<1>1. /\ GivenOK /\ pending # <<>> /\ v = Last(pending).to
      /\ remaining' = Removal(s).map /\ pending' = Front(pending) \o Removal(s).pushed
      /\ prog' = prog /\ target' = target
  BY DEF CallVisit, VisitOf, GoesOn, Running, TypeInv, given
<1>2. /\ g \in DOMAIN prog /\ v # EntryOf(v[1])
      /\ ~ Active(g) /\ ~ IsPending(EntryOf(g)) /\ EntryOf(g) \notin DOMAIN remaining
      /\ \A u : Into(v, u) = IF u = EntryOf(g) THEN {CallEdge(v)} ELSE {}
      /\ \A u : Into(v, u) # {} => Fits(v, u) /\ ~ IsPending(u)
      /\ Remaining(remaining, EntryOf(g)) <= Cardinality(Into(v, EntryOf(g)))
  BY CallSteps
<1>3. /\ Len(calls) \in Nat /\ Len(calls') = Len(calls) + 1 /\ calls'[Len(calls) + 1] = v
      /\ \A n \in 1 .. Len(calls) : calls'[n] = calls[n]
  BY CallSteps
<1>4. /\ \A i, j \in 1 .. Len(pending') : pending'[i].to = pending'[j].to => i = j
      /\ \A j \in 1 .. Len(pending') :
           \/ j \in 1 .. Len(pending) - 1 /\ pending'[j] = pending[j]
           \/ j >= Len(pending) /\ Into(v, pending'[j].to) # {}
      /\ \A u : Into(v, u) = {} =>
           SameAt(remaining', u) /\ (IsPending(u)' <=> IsPending(u) /\ u # v)
      /\ \A u : Into(v, u) # {} /\ Remaining(remaining, u) <= Cardinality(Into(v, u)) =>
           IsPending(u)' /\ u \notin DOMAIN remaining'
  BY <1>1, <1>2, WalkEffect
<1>5. \A j \in 1 .. Len(pending') :
        \/ j \in 1 .. Len(pending) - 1 /\ pending'[j] = pending[j]
        \/ j >= Len(pending) /\ pending'[j].to = EntryOf(g)
  BY <1>2, <1>4
<1>6. ASSUME NEW u
      PROVE  SameAt(remaining', u) /\ (IsPending(u)' <=> u = EntryOf(g) \/ (IsPending(u) /\ u # v))
  <2>1. CASE u = EntryOf(g)
    <3>1. Into(v, u) # {} /\ Remaining(remaining, u) <= Cardinality(Into(v, u))
          /\ u \notin DOMAIN remaining
      BY <1>2, <2>1
    <3>2. IsPending(u)' /\ u \notin DOMAIN remaining'
      BY <1>4, <3>1
    <3> QED
      BY <2>1, <3>1, <3>2 DEF SameAt
  <2>2. CASE u # EntryOf(g)
    BY <1>2, <1>4, <2>2
  <2> QED
    BY <2>1, <2>2
<1>7. \A n \in 1 .. Len(calls) : Fn(n)' = Fn(n)
  BY <1>1, <1>3 DEF Fn
<1>8. ASSUME NEW n, n = Len(calls) + 1 PROVE Fn(n)' = g
  <2>1. n # 1
    BY <1>3, <1>8, FnOnce
  <2>2. Fn(n)' = IF n = 1 THEN target' ELSE Callee(prog', calls'[n])
    BY DEF Fn
  <2> QED
    BY <1>1, <1>3, <1>8, <2>1, <2>2
<1>9. ASSUME NEW f PROVE Active(f)' <=> Active(f) \/ f = g
  <2>1. Active(f)' <=> \E n \in 1 .. Len(calls') : f = Fn(n)'
    BY DEF Active
  <2>2. \A n : n \in 1 .. Len(calls') <=> n \in 1 .. Len(calls) \/ n = Len(calls) + 1
    BY <1>3
  <2> QED
    BY <1>7, <1>8, <2>1, <2>2 DEF Active
<1>10. ASSUME NEW u PROVE Waiting(u)' <=> Waiting(u) \/ u = v
  <2>1. Waiting(u)' <=> \E n \in 2 .. Len(calls') : calls'[n] = u
    BY DEF Waiting
  <2>2. /\ \A n : n \in 2 .. Len(calls') <=> n \in 2 .. Len(calls) \/ n = Len(calls) + 1
        /\ \A n \in 2 .. Len(calls) : n \in 1 .. Len(calls)
    BY <1>3, FnOnce
  <2> QED
    BY <1>3, <2>1, <2>2 DEF Waiting
<1> QED
  BY <1>4, <1>5, <1>6, <1>7, <1>8, <1>9, <1>10

LEMMA CallVertices ==
  ASSUME Running, NEW v, NEW s \in Orderings(OutEdges(edges, v)), CallVisit(v, s)
  PROVE  /\ VerticesInv'
         /\ Begun(v)'
         /\ \A f : Open(f)' <=> Open(f)
<1>1. /\ GivenOK /\ TypeInv /\ pending # <<>> /\ v = Last(pending).to
      /\ visits' = [visits EXCEPT ![v] = @ + 1] /\ UNCHANGED given /\ prog' = prog
  BY DEF CallVisit, VisitOf, Running, TypeInv, given
<1>2. PICK g : g = Callee(prog, v)
  OBVIOUS
<1>3. /\ g \in DOMAIN prog /\ v # EntryOf(v[1])
      /\ ~ Active(g) /\ ~ IsPending(EntryOf(g)) /\ EntryOf(g) \notin DOMAIN remaining
  BY <1>2, CallSteps
<1>4. /\ \A u : SameAt(remaining', u)
      /\ \A u : IsPending(u)' <=> u = EntryOf(g) \/ (IsPending(u) /\ u # v)
      /\ \A f : Active(f)' <=> Active(f) \/ f = g
      /\ \A u : Waiting(u)' <=> Waiting(u) \/ u = v
  BY <1>2, CallEffect
<1>5. /\ v \in VerticesOf(prog) /\ v[1] \in DOMAIN prog
      /\ Open(v[1]) /\ ~ Begun(v) /\ Gone(v) = FIn(v) /\ v \notin DOMAIN remaining
  BY <1>1, <1>3, Taken
<1>6. /\ \A w \in VerticesOf(prog) : w # v => visits'[w] = visits[w]
  BY <1>1, <1>5, VisitsAfter
<1>7. Begun(v)'
  BY <1>1, <1>5, BegunAfter
<1>8. ASSUME NEW w \in VerticesOf(prog) PROVE Passed(w)' <=> Passed(w)
  <2>1. CASE w = v
    <3>1. Waiting(w)'
      BY <1>4, <2>1
    <3>2. ~ Begun(w)
      BY <1>5, <2>1
    <3> QED
      BY <3>1, <3>2 DEF Passed
  <2>2. CASE w # v
    <3>1. Waiting(w)' <=> Waiting(w)
      BY <1>4, <2>2
    <3>2. Begun(w)' <=> Begun(w)
      BY <1>1, <1>3, <2>2, BegunAfter
    <3> QED
      BY <3>1, <3>2 DEF Passed
  <2> QED
    BY <2>1, <2>2
<1>9. ASSUME NEW u PROVE Gone(u)' = Gone(u) /\ FIn(u)' = FIn(u)
  <2>1. FIn(u)' = FIn(u)
    BY <1>1, SameForm
  <2>2. \A e \in FIn(u) : Passed(e.from)' <=> Passed(e.from)
    <3> SUFFICES ASSUME NEW e \in FIn(u) PROVE Passed(e.from)' <=> Passed(e.from)
      OBVIOUS
    <3> DEFINE w == e.from
    <3>1. w \in VerticesOf(prog)
      BY <1>1, ForwardWithin
    <3> HIDE DEF w
    <3>2. Passed(w)' <=> Passed(w)
      BY <1>8, <3>1
    <3> QED
      BY <3>2 DEF w
  <2>3. Gone(u)' = {e \in FIn(u)' : Passed(e.from)'}
    BY DEF Gone
  <2> QED
    BY <2>1, <2>2, <2>3 DEF Gone
<1>10. ASSUME NEW f PROVE Open(f)' <=> Open(f)
  <2> DEFINE x == EntryOf(f)
  <2>1. /\ x # v /\ (x = EntryOf(g) <=> f = g)
    BY <1>3, Ends01
  <2>2. (Open(f)' <=> Active(f)' /\ ~ IsPending(x)') /\ (Open(f) <=> Active(f) /\ ~ IsPending(x))
    BY DEF Open, EntryOf
  <2> HIDE DEF x
  <2> QED
    BY <1>3, <1>4, <2>1, <2>2
<1>11. ASSUME NEW u \in VerticesOf(prog)
       PROVE  IF Open(u[1])' THEN OpenVertex(u)' ELSE ClosedVertex(u)'
  <2>1. /\ SameAt(remaining', u) /\ Gone(u)' = Gone(u) /\ FIn(u)' = FIn(u)
        /\ EntryOf(u[1]) # v /\ EntryOf(u[1]) \in VerticesOf(prog)
    BY <1>1, <1>3, <1>4, <1>9, Ends01, VertexIn
  <2>2. visits'[EntryOf(u[1])] = visits[EntryOf(u[1])]
    BY <1>6, <2>1
  <2>3. CASE u = v
    <3>1. Begun(u)' /\ ~ IsPending(u)'
      <4>1. v # EntryOf(g)
        BY <1>3, Ends01
      <4>2. ~ IsPending(v)'
        BY <1>4, <4>1
      <4> QED
        BY <1>7, <2>3, <4>2 DEF IsPending, Begun
    <3>2. Gone(u)' = FIn(u)' /\ u \notin DOMAIN remaining' /\ u # EntryOf(u[1])
      BY <1>3, <1>5, <2>1, <2>3 DEF SameAt
    <3>3. OpenVertex(u)'
      BY <3>1, <3>2 DEF OpenVertex
    <3> QED
      BY <1>5, <1>10, <2>3, <3>3
  <2>4. CASE u # v /\ Open(u[1])
    <3>1. u # EntryOf(g)
      BY <1>3, <2>4, Ends01 DEF Open
    <3>2. OpenVertex(u) /\ (IsPending(u)' <=> IsPending(u)) /\ visits'[u] = visits[u]
      BY <1>4, <1>6, <2>4, <3>1 DEF Running, VerticesInv
    <3>3. OpenVertex(u)'
      BY <1>1, <2>1, <2>2, <3>2, Kept
    <3> QED
      BY <1>10, <2>4, <3>3
  <2>5. CASE u # v /\ ~ Open(u[1])
    <3>1. ClosedVertex(u) /\ visits'[u] = visits[u]
      BY <1>6, <2>5 DEF Running, VerticesInv
    <3>2. CASE u = EntryOf(g)
      <4>1. u = EntryOf(u[1]) /\ u[1] = g /\ Active(g)'
        BY <1>4, <3>2, Ends01
      <4>2. Active(u[1])'
        BY <4>1 DEF Active
      <4>3. Begun(u)'
        BY <2>2, <3>1 DEF ClosedVertex, Begun
      <4>4. u \notin DOMAIN remaining'
        BY <2>1, <3>1 DEF ClosedVertex, SameAt
      <4>5. ClosedVertex(u)'
        BY <4>1, <4>2, <4>3, <4>4 DEF ClosedVertex
      <4> QED
        BY <1>10, <2>5, <4>5
    <3>3. CASE u # EntryOf(g)
      <4>1. (IsPending(u)' => IsPending(u)) /\ (Active(u[1]) => Active(u[1])')
        BY <1>4, <3>3
      <4>2. ClosedVertex(u)'
        BY <1>1, <2>1, <2>2, <3>1, <4>1, Kept
      <4> QED
        BY <1>10, <2>5, <4>2
    <3> QED
      BY <3>2, <3>3
  <2> QED
    BY <2>3, <2>4, <2>5
<1>12. VerticesInv'
  <2>1. VerticesOf(prog') = VerticesOf(prog)
    BY <1>1
  <2> QED
    BY <1>11, <2>1 DEF VerticesInv
<1> QED
  BY <1>7, <1>10, <1>12

LEMMA CallPending ==
  ASSUME Running, NEW v, NEW s \in Orderings(OutEdges(edges, v)), CallVisit(v, s)
  PROVE  PendingInv'
<1>1. PICK g : g = Callee(prog, v)
  OBVIOUS
<1>2. /\ ~ Active(g)
      /\ Len(calls) \in Nat /\ Len(calls') = Len(calls) + 1
  BY <1>1, CallSteps
<1>3. /\ \A i, j \in 1 .. Len(pending') : pending'[i].to = pending'[j].to => i = j
      /\ \A j \in 1 .. Len(pending') :
           \/ j \in 1 .. Len(pending) - 1 /\ pending'[j] = pending[j]
           \/ j >= Len(pending) /\ pending'[j].to = EntryOf(g)
      /\ \A n \in 1 .. Len(calls) : Fn(n)' = Fn(n)
      /\ \A n : n = Len(calls) + 1 => Fn(n)' = g
  BY <1>1, CallEffect
<1>4. Len(pending) \in Nat /\ \A j \in 1 .. Len(pending) - 1 : j \in 1 .. Len(pending)
  BY LastPending DEF Running, CallVisit, VisitOf
<1>5. /\ \A i \in 1 .. Len(pending) : Active(pending[i].to[1])
      /\ \A i, j \in 1 .. Len(pending) : i < j =>
           \A m, n \in 1 .. Len(calls) :
             pending[i].to[1] = Fn(m) /\ pending[j].to[1] = Fn(n) => m <= n
  BY DEF Running, PendingInv
<1>6. \A n : n \in 1 .. Len(calls') <=> n \in 1 .. Len(calls) \/ n = Len(calls) + 1
  BY <1>2
<1>7. \A j \in 1 .. Len(pending') :
        \/ j \in 1 .. Len(pending) - 1 /\ ~ (j >= Len(pending)) /\ pending'[j].to[1] = pending[j].to[1]
        \/ j >= Len(pending) /\ pending'[j].to[1] = g
  BY <1>3, <1>4, Ends01
<1>8. \A i \in 1 .. Len(pending') : \E n \in 1 .. Len(calls') : pending'[i].to[1] = Fn(n)'
  <2> SUFFICES ASSUME NEW i \in 1 .. Len(pending')
               PROVE  \E n \in 1 .. Len(calls') : pending'[i].to[1] = Fn(n)'
    OBVIOUS
  <2>1. CASE pending'[i].to[1] = g
    <3>1. PICK n : n = Len(calls) + 1
      OBVIOUS
    <3>2. n \in 1 .. Len(calls') /\ Fn(n)' = g
      BY <1>3, <1>6, <3>1
    <3> QED
      BY <2>1, <3>2
  <2>2. CASE i \in 1 .. Len(pending) /\ pending'[i].to[1] = pending[i].to[1]
    <3>1. PICK n \in 1 .. Len(calls) : pending[i].to[1] = Fn(n)
      BY <1>5, <2>2 DEF Active
    <3>2. n \in 1 .. Len(calls') /\ Fn(n)' = Fn(n)
      BY <1>3, <1>6, <3>1
    <3> QED
      BY <2>2, <3>1, <3>2
  <2> QED
    BY <1>4, <1>7, <2>1, <2>2
<1>9. ASSUME NEW i \in 1 .. Len(pending'), NEW j \in 1 .. Len(pending'), i < j,
             NEW m \in 1 .. Len(calls'), NEW n \in 1 .. Len(calls'),
             pending'[i].to[1] = Fn(m)', pending'[j].to[1] = Fn(n)'
      PROVE  m <= n
  <2>1. m \in Nat /\ n \in Nat /\ m <= Len(calls) + 1 /\ Len(calls) \in Nat
    BY <1>2
  <2>2. CASE j >= Len(pending) /\ pending'[j].to[1] = g
    <3>1. n \notin 1 .. Len(calls)
      <4> SUFFICES ASSUME n \in 1 .. Len(calls) PROVE FALSE
        OBVIOUS
      <4>1. g = Fn(n)
        BY <1>3, <1>9, <2>2
      <4> QED
        BY <1>2, <4>1 DEF Active
    <3>2. n = Len(calls) + 1
      BY <1>6, <3>1
    <3> QED
      BY <2>1, <3>2
  <2>3. CASE j \in 1 .. Len(pending) - 1 /\ ~ (j >= Len(pending)) /\ pending'[j].to[1] = pending[j].to[1]
    <3>1. i \in 1 .. Len(pending) - 1 /\ ~ (i >= Len(pending))
      BY <1>4, <1>9, <2>3
    <3>2. pending'[i].to[1] = pending[i].to[1]
      BY <1>7, <3>1
    <3>3. i \in 1 .. Len(pending) /\ j \in 1 .. Len(pending)
      BY <1>4, <2>3, <3>1
    <3>4. m \in 1 .. Len(calls) /\ n \in 1 .. Len(calls)
      <4>1. pending[i].to[1] # g /\ pending[j].to[1] # g
        BY <1>2, <1>5, <3>3 DEF Active
      <4> QED
        BY <1>3, <1>6, <1>9, <2>3, <3>2, <4>1
    <3>5. pending[i].to[1] = Fn(m) /\ pending[j].to[1] = Fn(n)
      BY <1>3, <1>9, <2>3, <3>2, <3>4
    <3> QED
      BY <1>5, <1>9, <3>3, <3>4, <3>5
  <2> QED
    BY <1>7, <2>2, <2>3
<1> QED
  BY <1>3, <1>8, <1>9 DEF PendingInv, Active

LEMMA CallFrames ==
  ASSUME Running, NEW v, NEW s \in Orderings(OutEdges(edges, v)), CallVisit(v, s)
  PROVE  FramesInv'
<1>1. /\ GivenOK /\ TypeInv /\ pending # <<>> /\ v = Last(pending).to
      /\ visits' = [visits EXCEPT ![v] = @ + 1] /\ prog' = prog /\ v \in Resolved(prog)
  BY DEF CallVisit, VisitOf, Running, TypeInv, given, IsResolvedCall
<1>2. PICK g : g = Callee(prog, v)
  OBVIOUS
<1>3. /\ v # EntryOf(v[1]) /\ ~ Active(g)
      /\ Len(calls) \in Nat /\ Len(calls') = Len(calls) + 1 /\ calls'[Len(calls) + 1] = v
      /\ \A n \in 1 .. Len(calls) : calls'[n] = calls[n]
  BY <1>2, CallSteps
<1>4. /\ \A j \in 1 .. Len(pending') :
           \/ j \in 1 .. Len(pending) - 1 /\ pending'[j] = pending[j]
           \/ j >= Len(pending) /\ pending'[j].to = EntryOf(g)
      /\ \A n \in 1 .. Len(calls) : Fn(n)' = Fn(n)
  BY <1>2, CallEffect
<1>5. Begun(v)' /\ \A f : Open(f)' <=> Open(f)
  BY CallVertices
<1>6. Len(pending) \in Nat /\ Len(pending) >= 1 /\ v = pending[Len(pending)].to
  BY <1>1, LastPending
<1>7. \A k \in 1 .. Len(calls) : g # Fn(k)
  BY <1>3 DEF Active
<1>8. \A j \in 1 .. Len(pending') :
        \/ j \in 1 .. Len(pending) - 1 /\ pending'[j].to[1] = pending[j].to[1]
        \/ pending'[j].to[1] = g
  BY <1>4, Ends01
<1>9. ASSUME NEW n \in 2 .. Len(calls)
      PROVE  calls'[n] \in Resolved(prog') /\ \E m \in 1 .. n - 1 : CalledFrom(n, m)'
  <2>1. PICK m \in 1 .. n - 1 : calls[n] \in Resolved(prog) /\ CalledFrom(n, m)
    BY DEF Running, FramesInv
  <2>2. n \in Nat /\ m \in Nat /\ 1 <= m /\ m < n /\ m \in 1 .. Len(calls) /\ n \in 1 .. Len(calls)
    BY <1>3
  <2>3. PICK c, h : c = calls[n] /\ h = Fn(m)
    OBVIOUS
  <2>4. Begun(c) /\ c \in VerticesOf(prog) /\ Open(h)
    BY <1>1, <2>1, <2>3, SitesAreNoEnds DEF CalledFrom
  <2>5. Begun(c)'
    BY <1>1, <1>3, <2>4, BegunAfter
  <2>6. Open(h)'
    BY <1>5, <2>4
  <2>7. \A k \in m + 1 .. n - 1 : \A i \in 1 .. Len(pending') : pending'[i].to[1] # Fn(k)
    <3> SUFFICES ASSUME NEW k \in m + 1 .. n - 1, NEW i \in 1 .. Len(pending')
                 PROVE  pending'[i].to[1] # Fn(k)
      OBVIOUS
    <3>1. k \in 1 .. Len(calls)
      BY <1>3, <2>2
    <3>2. \A j \in 1 .. Len(pending) : pending[j].to[1] # Fn(k)
      BY <2>1 DEF CalledFrom
    <3>3. \A j \in 1 .. Len(pending) - 1 : j \in 1 .. Len(pending)
      BY <1>6
    <3> QED
      BY <1>7, <1>8, <3>1, <3>2, <3>3
  <2>8. \A k \in 1 .. n : Fn(k)' = Fn(k) /\ calls'[k] = calls[k]
    <3>1. \A k \in 1 .. n : k \in 1 .. Len(calls)
      BY <1>3, <2>2
    <3> QED
      BY <1>3, <1>4, <3>1
  <2>9. CalledFrom(n, m)'
    BY <2>1, <2>2, <2>3, <2>5, <2>6, <2>7, <2>8, FrameKept
  <2> QED
    BY <1>1, <2>1, <2>2, <2>8, <2>9
<1>10. PICK d \in 1 .. Len(calls) : v[1] = Fn(d)
  BY <1>1, Taken DEF Active
<1>11. ASSUME NEW n, n = Len(calls) + 1 PROVE CalledFrom(n, d)'
  <2>1. d \in Nat /\ n \in Nat
    BY <1>3, <1>11
  <2>2. calls'[n] = v /\ v[1] = Fn(d)'
    BY <1>3, <1>4, <1>10, <1>11
  <2>3. Begun(calls[n])'
    BY <1>5, <2>2 DEF Begun
  <2>4. Open(Fn(d))'
    <3>1. PICK h : h = v[1]
      OBVIOUS
    <3>2. Open(h)'
      BY <1>1, <1>3, <1>5, <3>1, Taken
    <3> QED
      BY <2>2, <3>1, <3>2 DEF Open, Active, IsPending
  <2>5. ASSUME NEW k \in d + 1 .. n - 1, NEW i \in 1 .. Len(pending')
        PROVE  pending'[i].to[1] # Fn(k)'
    <3>1. k \in 1 .. Len(calls) /\ d < k /\ Fn(k)' = Fn(k)
      BY <1>3, <1>4, <1>11, <2>1
    <3>2. ASSUME i \in 1 .. Len(pending) - 1, pending[i].to[1] = Fn(k) PROVE FALSE
      <4>1. i \in 1 .. Len(pending) /\ Len(pending) \in 1 .. Len(pending) /\ i < Len(pending)
        BY <1>6, <3>2
      <4>2. pending[Len(pending)].to[1] = Fn(d)
        BY <1>6, <1>10
      <4>3. k <= d
        BY <3>1, <3>2, <4>1, <4>2 DEF Running, PendingInv
      <4> QED
        BY <2>1, <3>1, <4>3
    <3> QED
      BY <1>7, <1>8, <3>1, <3>2
  <2>6. ASSUME NEW k \in 2 .. n - 1, NEW j \in 1 .. k - 1, calls'[k][1] = Fn(j)', j < d, d < k
        PROVE  FALSE
    <3>1. k \in 2 .. Len(calls) /\ k \in 1 .. Len(calls) /\ j \in 1 .. Len(calls)
      BY <1>3, <1>11
    <3>2. calls[k][1] = Fn(j)
      BY <1>3, <1>4, <2>6, <3>1
    <3>3. PICK m \in 1 .. k - 1 : CalledFrom(k, m)
      BY <3>1 DEF Running, FramesInv
    <3>4. Fn(m) = Fn(j) /\ m \in 1 .. Len(calls)
      BY <3>1, <3>2, <3>3 DEF CalledFrom
    <3>5. m = j
      BY <3>1, <3>4, FnOnce
    <3>6. d \in m + 1 .. k - 1
      BY <2>1, <2>6, <3>5
    <3>7. \A i \in 1 .. Len(pending) : pending[i].to[1] # Fn(d)
      BY <3>3, <3>6 DEF CalledFrom
    <3>8. Len(pending) \in 1 .. Len(pending)
      BY <1>6
    <3> QED
      BY <1>6, <1>10, <3>7, <3>8
  <2>7. /\ calls'[n][1] = Fn(d)'
        /\ \A k \in d + 1 .. n - 1 : \A i \in 1 .. Len(pending') : pending'[i].to[1] # Fn(k)'
        /\ \A k \in 2 .. n - 1 : \A j \in 1 .. k - 1 : calls'[k][1] = Fn(j)' => ~ (j < d /\ d < k)
    BY <2>2, <2>5, <2>6
  <2> QED
    BY <2>3, <2>4, <2>7 DEF CalledFrom
<1>12. ASSUME NEW n \in 2 .. Len(calls')
       PROVE  calls'[n] \in Resolved(prog') /\ \E m \in 1 .. n - 1 : CalledFrom(n, m)'
  <2>1. CASE n \in 2 .. Len(calls)
    BY <1>9, <2>1
  <2>2. CASE n = Len(calls) + 1
    <3>1. CalledFrom(n, d)'
      BY <1>11, <2>2
    <3>2. d \in 1 .. n - 1
      BY <1>3, <2>2
    <3>3. calls'[n] \in Resolved(prog')
      BY <1>1, <1>3, <2>2
    <3> QED
      BY <3>1, <3>2, <3>3
  <2> QED
    BY <1>3, <2>1, <2>2
<1> QED
  BY <1>12 DEF FramesInv

-----------------------------------------------------------------------------
(* The visit of an EXIT.  Each statement of the function leads to it, so   *)
(* that they have all been visited and none waits for a call: the function *)
(* is the innermost.                                                       *)

LEMMA AllPassed ==
  ASSUME Running, NEW v, pending # <<>>, v = Last(pending).to, v = ExitOf(v[1]),
         NEW u \in VerticesOf(prog), u[1] = v[1], u # v
  PROVE  Passed(u) /\ u \notin DOMAIN remaining /\ ~ IsPending(u)
<1> DEFINE f == v[1]
           S == {x \in Own(f) : x = v \/ Passed(x)}
<1>1. /\ GivenOK /\ v \in VerticesOf(prog) /\ f \in DOMAIN prog /\ v # EntryOf(f)
      /\ Open(f) /\ Gone(v) = FIn(v) /\ FIn(v) # {}
  BY Taken, Ends01 DEF Running, TypeInv
<1>2. \A x \in Own(f) : x \in VerticesOf(prog) /\ x[1] = f
  BY DEF Own
<1>3. ASSUME NEW x \in VerticesOf(prog), x[1] = f, Begun(x)
      PROVE  /\ x = EntryOf(x[1]) \/ Gone(x) = FIn(x)
             /\ x \notin DOMAIN remaining /\ ~ IsPending(x)
  <2>1. OpenVertex(x)
    BY <1>1, <1>3 DEF Running, VerticesInv
  <2>2. visits[x] # visits[EntryOf(x[1])] - 1
    <3>1. visits[EntryOf(x[1])] \in Nat /\ visits[x] = visits[EntryOf(x[1])]
      BY <1>1, <1>3, VertexIn DEF Running, TypeInv, Begun
    <3> QED
      BY <3>1
  <2>3. x = EntryOf(x[1]) => ~ IsPending(x)
    BY <1>1, <1>3 DEF Open
  <2> QED
    BY <2>1, <2>2, <2>3 DEF OpenVertex
<1>4. ASSUME NEW x \in S, NEW e \in FIn(x) PROVE e.from \in S
  <2>1. x \in VerticesOf(prog) /\ x[1] = f /\ (x = v \/ Passed(x))
    BY <1>2
  <2>2. e.from \in VerticesOf(prog) /\ e.from[1] = f
    BY <1>1, <2>1, ForwardWithin
  <2>3. CASE x = v
    <3>1. Passed(e.from)
      BY <1>1, <2>3 DEF Gone
    <3> QED
      BY <2>2, <3>1 DEF Own
  <2>4. CASE Passed(x)
    <3>1. x # EntryOf(x[1])
      BY <1>1, <2>1 DEF Running, Orderly
    <3>2. Gone(x) = FIn(x)
      BY <1>3, <2>1, <2>4, <3>1 DEF Passed
    <3>3. Passed(e.from)
      BY <3>2 DEF Gone
    <3> QED
      BY <2>2, <3>3 DEF Own
  <2> QED
    BY <2>1, <2>3, <2>4
<1>5. S = Own(f)
  <2>1. ClosedBackwards(S)
    <3> HIDE DEF S
    <3>1. ASSUME NEW e \in edges, e.kind \in {"plain", "impossible"}, e.to \in S PROVE e.from \in S
      <4>1. e \in FIn(e.to)
        BY <3>1 DEF FIn, InEdges
      <4> QED
        BY <1>4, <3>1, <4>1
    <3> QED
      BY <3>1 DEF ClosedBackwards
  <2>2. S \in SUBSET Own(f) /\ ExitOf(f) \in S /\ FIn(ExitOf(f)) # {}
    BY <1>1 DEF Own
  <2> HIDE DEF S
  <2> QED
    BY <1>1, <2>1, <2>2 DEF Running, Orderly
<1>6. u \in S
  BY <1>5 DEF Own
<1>7. Passed(u)
  BY <1>6
<1> QED
  BY <1>3, <1>7 DEF Passed

LEMMA ExitFrame ==
  ASSUME Running, NEW v, pending # <<>>, v = Last(pending).to, v = ExitOf(v[1])
  PROVE  Fn(Len(calls)) = v[1]
<1>1. PICK d \in 1 .. Len(calls) : v[1] = Fn(d)
  BY Taken DEF Active
<1>2. Len(calls) \in Nat /\ Len(calls) >= 1
  BY FnOnce
<1>3. ASSUME d # Len(calls) PROVE FALSE
  <2> DEFINE n == d + 1
  <2>1. n \in 2 .. Len(calls) /\ d \in Nat
    BY <1>2, <1>3
  <2>2. PICK m \in 1 .. n - 1 : calls[n] \in Resolved(prog) /\ CalledFrom(n, m)
    BY <2>1 DEF Running, FramesInv
  <2>3. CASE m = d
    <3>1. /\ calls[n] \in VerticesOf(prog) /\ calls[n][1] = v[1] /\ calls[n] # v
      BY <1>1, <2>2, <2>3, SitesAreNoEnds DEF CalledFrom, Running, TypeInv
    <3>2. Passed(calls[n])
      BY <3>1, AllPassed
    <3>3. Waiting(calls[n])
      BY <2>1 DEF Waiting
    <3> QED
      BY <3>2, <3>3 DEF Passed
  <2>4. CASE m # d
    <3>1. d \in m + 1 .. n - 1
      BY <2>1, <2>2, <2>4
    <3>2. \A i \in 1 .. Len(pending) : pending[i].to[1] # Fn(d)
      BY <2>2, <3>1 DEF CalledFrom
    <3>3. Len(pending) \in 1 .. Len(pending) /\ v = pending[Len(pending)].to
      BY LastPending DEF Running
    <3> QED
      BY <1>1, <3>2, <3>3
  <2> QED
    BY <2>3, <2>4
<1> QED
  BY <1>1, <1>3

(* The end of the function printed.                                        *)
EndVisit(v, s) ==
  VisitOf(v, s) /\ Ends(v) /\ pending' = Front(pending) \o Removal(s).pushed

LEMMA WholeAtEnd ==
  ASSUME Running, TypeInv', NEW v, NEW s \in Orderings(OutEdges(edges, v)), EndVisit(v, s)
  PROVE  PrintedWhole'
<1>1. /\ GivenOK /\ TypeInv /\ pending # <<>> /\ v = Last(pending).to
      /\ remaining' = Removal(s).map /\ pending' = Front(pending) \o Removal(s).pushed
      /\ visits' = [visits EXCEPT ![v] = @ + 1] /\ prog' = prog /\ edges' = edges
      /\ v = ExitOf(v[1]) /\ Last(calls) = NoCall
  BY DEF EndVisit, VisitOf, Ends, Running, TypeInv, given
<1>2. /\ v \in VerticesOf(prog) /\ v[1] \in DOMAIN prog /\ v \notin DOMAIN remaining
      /\ v # EntryOf(v[1]) /\ Open(v[1])
  BY <1>1, Taken, Ends01
<1>3. Len(calls) = 1
  <2>1. Len(calls) \in Nat /\ Len(calls) >= 1
    BY FnOnce
  <2>2. ASSUME Len(calls) # 1 PROVE FALSE
    <3>1. PICK n : n = Len(calls)
      OBVIOUS
    <3>2. n \in 2 .. n
      BY <2>1, <2>2, <3>1
    <3>3. calls[n] \in Resolved(prog)
      BY <3>1, <3>2 DEF Running, FramesInv
    <3> QED
      BY <1>1, <3>1, <3>3, SitesAreNoEnds DEF Last
  <2> QED
    BY <2>2
<1>4. \A f : Active(f) => f = v[1]
  <2>1. Fn(1) = v[1]
    BY <1>1, <1>3, ExitFrame
  <2> QED
    BY <1>3, <2>1 DEF Active
<1>5. \A u : Into(v, u) = {}
  <2>1. \A u : Into(ExitOf(v[1]), u) = {}
    BY <1>1, <1>2, WalkedReturn DEF Running
  <2> QED
    BY <1>1, <2>1
<1>6. /\ \A j \in 1 .. Len(pending') : j \in 1 .. Len(pending) - 1 /\ pending'[j] = pending[j]
      /\ \A u : SameAt(remaining', u)
      /\ ~ IsPending(v)'
  BY <1>1, <1>5, WalkEffect
<1>7. pending' = <<>>
  <2>1. ASSUME NEW j \in 1 .. Len(pending') PROVE FALSE
    <3> DEFINE u == pending[j].to
    <3>1. j \in 1 .. Len(pending)
      <4>1. Len(pending) \in Nat
        BY <1>1, LastPending
      <4> QED
        BY <1>6, <4>1
    <3>2. Active(u[1]) /\ IsPending(u)
      BY <3>1 DEF IsPending, Running, PendingInv
    <3>3. u # v
      BY <1>6 DEF IsPending
    <3>4. u \in VerticesOf(prog)
      <4>1. pending[j] \in edges \cup {EntrySelfEdge(target)}
        BY <1>1, <3>1, ElementOfSeq DEF TypeInv
      <4>2. CASE pending[j] \in edges
        BY <1>1, <4>2, EdgeEnds DEF GivenOK
      <4>3. CASE pending[j] = EntrySelfEdge(target)
        BY <1>1, <4>3 DEF EntrySelfEdge, GivenOK, VerticesOf
      <4> QED
        BY <4>1, <4>2, <4>3
    <3> HIDE DEF u
    <3>5. u[1] = v[1]
      BY <1>4, <3>2
    <3> QED
      BY <1>1, <3>2, <3>3, <3>4, <3>5, AllPassed
  <2>2. pending' \in Seq(edges' \cup {EntrySelfEdge(target)'})
    BY DEF TypeInv
  <2> DEFINE q == pending'
             T == edges' \cup {EntrySelfEdge(target)'}
  <2>3. q \in Seq(T) /\ \A j \in 1 .. Len(q) : FALSE
    BY <2>1, <2>2
  <2> HIDE DEF q, T
  <2>4. Len(q) \in Nat
    BY <2>3
  <2>5. Len(q) = 0
    BY <2>3, <2>4
  <2>6. q = <<>>
    BY <2>3, <2>5, EmptySeq
  <2> QED
    BY <2>6 DEF q
<1>8. \A u \in VerticesOf(prog) : u \notin DOMAIN remaining
  <2> SUFFICES ASSUME NEW u \in VerticesOf(prog) PROVE u \notin DOMAIN remaining
    OBVIOUS
  <2>1. CASE u[1] = v[1]
    BY <1>1, <1>2, <2>1, AllPassed
  <2>2. CASE u[1] # v[1]
    <3>1. ~ Open(u[1])
      BY <1>4, <2>2 DEF Open
    <3> QED
      BY <3>1 DEF Running, VerticesInv, ClosedVertex
  <2> QED
    BY <2>1, <2>2
<1>9. remaining' = <<>>
  <2> DEFINE m == remaining'
  <2>1. MapTyped(m)
    BY <1>1 DEF TypeInv, MapTyped
  <2>2. \A u \in VerticesOf(prog) : u \notin DOMAIN m
    BY <1>6, <1>8 DEF SameAt
  <2> HIDE DEF m
  <2>3. DOMAIN m = {} /\ m = [x \in DOMAIN m |-> m[x]]
    BY <2>1, <2>2 DEF MapTyped
  <2>4. m = <<>>
    BY <2>3
  <2> QED
    BY <2>4 DEF m
<1>10. \A u \in VerticesOf(prog) : u # ExitOf(u[1]) => visits'[u] = visits'[EntryOf(u[1])]
  <2> SUFFICES ASSUME NEW u \in VerticesOf(prog), u # ExitOf(u[1])
               PROVE  visits'[u] = visits'[EntryOf(u[1])]
    OBVIOUS
  <2>1. u # v /\ EntryOf(u[1]) # v /\ EntryOf(u[1]) \in VerticesOf(prog)
    BY <1>1, <1>2, Ends01, VertexIn
  <2>2. Begun(u)
    <3>1. CASE u[1] = v[1]
      BY <1>1, <2>1, <3>1, AllPassed DEF Passed
    <3>2. CASE u[1] # v[1]
      <4>1. ~ Open(u[1])
        BY <1>4, <3>2 DEF Open
      <4> QED
        BY <4>1 DEF Running, VerticesInv, ClosedVertex
    <3> QED
      BY <3>1, <3>2
  <2>3. visits'[u] = visits[u] /\ visits'[EntryOf(u[1])] = visits[EntryOf(u[1])]
    BY <1>1, <1>2, <2>1, VisitsAfter
  <2> QED
    BY <2>2, <2>3 DEF Begun
<1>11. DOMAIN visits' = VerticesOf(prog)
  BY <1>1 DEF TypeInv
<1> QED
  BY <1>7, <1>9, <1>10, <1>11 DEF PrintedWhole

-----------------------------------------------------------------------------
(* A call returns: the edge it goes on by is removed in its stead.         *)

LEMMA GoesBackTo ==
  ASSUME GivenOK, NEW c \in Resolved(prog), CallGoesOn(c), NEW w, w = ReturnPoint(prog, c)
  PROVE  /\ w[1] = c[1] /\ w \in VerticesOf(prog)
         /\ \A u : u # w => Steps(c, u) = {}
         /\ \E e \in FIn(w) : Steps(c, w) = {e}
<1>1. c[1] \in DOMAIN prog /\ c = <<c[1], c[2]>>
  BY CallFacts
<1>2. PICK a \in prog[c[1]].arcs : a.kind = "plain" /\ {b \in prog[c[1]].arcs : b.from = c[2]} = {a}
  BY DEF CallGoesOn
<1>3. a.from = c[2] /\ \A b \in prog[c[1]].arcs : b.from = c[2] => b = a
  BY <1>2
<1>4. w = <<c[1], a.to>>
  <2> DEFINE A == prog[c[1]].arcs
  <2>1. a \in A /\ a.from = c[2] /\ a.kind # "impossible" /\ \A b \in A : b.from = c[2] => b = a
    BY <1>2, <1>3
  <2> HIDE DEF A
  <2>2. (CHOOSE x \in A : x.from = c[2] /\ x.kind # "impossible") = a
    BY <2>1
  <2> QED
    BY <2>2 DEF ReturnPoint, A
<1> DEFINE d == [from |-> <<c[1], a.from>>, to |-> <<c[1], a.to>>, kind |-> a.kind, call |-> NoCall]
<1>5. d \in EdgesOf(prog)
  BY <1>1, OwnThere
<1>6. d \in edges /\ d.from = c /\ d.to = w /\ d.kind = "plain"
  BY <1>1, <1>2, <1>3, <1>4, <1>5 DEF GivenOK
<1>7. ASSUME NEW u, NEW e \in FIn(u), e.from = c PROVE e = d /\ u = w
  <2>1. e \in EdgesOf(prog) /\ e.to = u /\ e.kind \in {"plain", "impossible"}
    BY DEF FIn, InEdges, GivenOK
  <2>2. OwnForm(prog, e)
    BY <2>1, EdgeForms DEF CallForm, ReturnForm, GivenOK
  <2>3. PICK f \in DOMAIN prog : \E b \in prog[f].arcs :
          /\ e.from = <<f, b.from>> /\ e.to = <<f, b.to>> /\ e.kind = b.kind
          /\ e = [from |-> e.from, to |-> e.to, kind |-> e.kind, call |-> NoCall]
    BY <2>2 DEF OwnForm
  <2>4. PICK b \in prog[f].arcs :
          /\ e.from = <<f, b.from>> /\ e.to = <<f, b.to>> /\ e.kind = b.kind
          /\ e = [from |-> e.from, to |-> e.to, kind |-> e.kind, call |-> NoCall]
    BY <2>3
  <2>5. f = c[1] /\ b.from = c[2]
    BY <1>1, <1>7, <2>4
  <2>6. b = a
    BY <1>3, <2>5
  <2>7. e = d
    BY <1>7, <2>4, <2>5, <2>6
  <2> QED
    BY <1>6, <2>1, <2>7
<1> HIDE DEF d
<1>8. d \in FIn(w)
  BY <1>6 DEF FIn, InEdges
<1>9. Steps(c, w) = {d}
  BY <1>6, <1>7, <1>8 DEF Steps
<1>10. w \in VerticesOf(prog)
  BY <1>6, EdgeEnds DEF GivenOK
<1>11. \A u : u # w => Steps(c, u) = {}
  BY <1>7 DEF Steps
<1> QED
  BY <1>4, <1>8, <1>9, <1>10, <1>11

ReturnVisit(v, s) ==
  VisitOf(v, s) /\ Returns(v) /\ pending' = Front(pending) \o Removal(s).pushed

LEMMA ReturnSteps ==
  ASSUME Running, NEW v, NEW s \in Orderings(OutEdges(edges, v)), ReturnVisit(v, s),
         NEW c, c = Last(calls), NEW w, w = ReturnPoint(prog, c),
         NEW L, L = Len(calls)
  PROVE  /\ L \in Nat /\ L >= 2 /\ c = calls[L] /\ Fn(L) = v[1] /\ c \in Resolved(prog)
         /\ v # EntryOf(v[1]) /\ w \in VerticesOf(prog) /\ w[1] = c[1] /\ c[1] # v[1]
         /\ Open(c[1]) /\ Begun(c) /\ Waiting(c) /\ w # EntryOf(w[1])
         /\ \A u : u # w => Steps(c, u) = {}
         /\ Cardinality(Steps(c, w)) = 1 /\ Steps(c, w) \in SUBSET FIn(w)
         /\ Gone(w) \cap Steps(c, w) = {}
         /\ visits[w] = visits[EntryOf(w[1])] - 1 /\ ~ IsPending(w)
         /\ Remaining(remaining, w) = Cardinality(FIn(w)) - Cardinality(Gone(w))
         /\ Gone(w) # FIn(w)
         /\ \A u : Into(v, u) = IF u = w THEN {ReturnEdge(c)} ELSE {}
         /\ \A u : Into(v, u) # {} => Fits(v, u) /\ ~ IsPending(u)
         /\ Len(calls') = L - 1 /\ \A n \in 1 .. L - 1 : calls'[n] = calls[n]
<1>1. /\ GivenOK /\ TypeInv /\ CallInv /\ pending # <<>> /\ v = Last(pending).to
      /\ v = ExitOf(v[1]) /\ c # NoCall /\ calls' = Front(calls)
  BY DEF ReturnVisit, VisitOf, Returns, Running, TypeInv
<1>2. v \in VerticesOf(prog) /\ v[1] \in DOMAIN prog /\ v # EntryOf(v[1])
  BY <1>1, Taken, Ends01
<1>3. /\ calls \in Seq(CallSites(prog) \cup {NoCall}) /\ calls # <<>> /\ calls[1] = NoCall
      /\ L \in Nat /\ L >= 1
  <2>1. calls \in Seq(CallSites(prog) \cup {NoCall}) /\ L \in Nat /\ L >= 1 /\ calls[1] = NoCall
    BY FnOnce DEF Running, CallInv
  <2>2. Len(<<>>) = 0
    OBVIOUS
  <2> QED
    BY <2>1, <2>2
<1>4. L >= 2 /\ c = calls[L]
  <2>1. c = calls[L]
    BY DEF Last
  <2>2. L # 1
    BY <1>1, <1>3, <2>1
  <2> QED
    BY <1>3, <2>1, <2>2
<1>5. /\ Len(calls') = L - 1 /\ \A n \in 1 .. L - 1 : calls'[n] = calls[n]
  <2> DEFINE S == CallSites(prog) \cup {NoCall}
  <2>1. calls \in Seq(S) /\ calls # <<>>
    BY <1>3
  <2> HIDE DEF S
  <2> QED
    BY <1>1, <2>1, FrontIs
<1>6. L \in 2 .. Len(calls) /\ L \in 1 .. Len(calls)
  BY <1>3, <1>4
<1>7. PICK m \in 1 .. L - 1 : c \in Resolved(prog) /\ CalledFrom(L, m)
  BY <1>4, <1>6 DEF Running, FramesInv
<1>8. /\ c[1] = Fn(m) /\ Begun(c) /\ Open(c[1]) /\ Waiting(c)
  BY <1>4, <1>6, <1>7 DEF CalledFrom, Waiting
<1>9. Fn(L) = v[1] /\ Callee(prog, c) = v[1]
  <2>1. Fn(L) = v[1]
    BY <1>1, ExitFrame
  <2> QED
    BY <1>3, <1>4, <2>1 DEF Fn
<1>10. c[1] # v[1]
  <2>1. m \in 1 .. Len(calls) /\ m # L
    BY <1>3, <1>4
  <2> QED
    BY <1>6, <1>8, <1>9, <2>1, FnOnce
<1>11. CallGoesOn(c)
  BY <1>7 DEF Running, Orderly
<1>12. /\ w[1] = c[1] /\ w \in VerticesOf(prog)
       /\ \A u : u # w => Steps(c, u) = {}
       /\ \E e \in FIn(w) : Steps(c, w) = {e}
  BY <1>1, <1>7, <1>11, GoesBackTo
<1>13. PICK e \in FIn(w) : Steps(c, w) = {e}
  BY <1>12
<1>14. e.from = c
  BY <1>13 DEF Steps
<1>15. Cardinality(Steps(c, w)) = 1
  BY <1>13, FS_Singleton
<1>16. e \notin Gone(w) /\ Gone(w) \cap Steps(c, w) = {} /\ Gone(w) # FIn(w)
  <2>1. ~ Passed(c)
    BY <1>8 DEF Passed
  <2>2. e \notin Gone(w)
    BY <1>14, <2>1 DEF Gone
  <2> QED
    BY <1>13, <2>2
<1>17. w # EntryOf(w[1])
  <2>1. w[1] \in DOMAIN prog
    BY <1>1, <1>12, VertexIn
  <2>2. FIn(EntryOf(w[1])) = {}
    BY <2>1 DEF Running, Orderly
  <2> QED
    BY <1>13, <2>2
<1>18. /\ visits[w] = visits[EntryOf(w[1])] - 1 /\ ~ IsPending(w)
       /\ Remaining(remaining, w) = Cardinality(FIn(w)) - Cardinality(Gone(w))
  <2>1. OpenVertex(w)
    BY <1>8, <1>12 DEF Running, VerticesInv
  <2> QED
    BY <1>16, <1>17, <2>1 DEF OpenVertex
<1>19. \A u : Into(v, u) = IF u = w THEN {ReturnEdge(c)} ELSE {}
  <2>1. \A u : Into(ExitOf(v[1]), u) = IF u = w THEN {ReturnEdge(c)} ELSE {}
    BY <1>1, <1>2, <1>7, <1>9, WalkedReturn DEF Running
  <2> QED
    BY <1>1, <2>1
<1>20. Remaining(remaining, w) >= 1
  <2> DEFINE F == FIn(w)
             G == Gone(w)
  <2>1. IsFiniteSet(F) /\ G \in SUBSET F /\ e \in F /\ e \notin G
    BY <1>1, <1>16, EdgesAreFinite DEF Gone
  <2> HIDE DEF F, G
  <2>2. Cardinality(G) <= Cardinality(F) /\ Cardinality(G) # Cardinality(F)
    BY <2>1, FS_Subset
  <2>3. Cardinality(F) \in Nat /\ Cardinality(G) \in Nat
    BY <2>1, FS_Subset, FS_CardinalityType
  <2>4. Remaining(remaining, w) = Cardinality(F) - Cardinality(G)
    BY <1>18 DEF F, G
  <2> QED
    BY <2>2, <2>3, <2>4
<1>21. \A u : Into(v, u) # {} => Fits(v, u) /\ ~ IsPending(u)
  <2> SUFFICES ASSUME NEW u, Into(v, u) # {} PROVE Fits(v, u) /\ ~ IsPending(u)
    OBVIOUS
  <2>1. u = w /\ Into(v, u) = {ReturnEdge(c)}
    BY <1>19
  <2>2. Cardinality(Into(v, u)) = 1
    BY <2>1, FS_Singleton
  <2> QED
    BY <1>18, <1>20, <2>1, <2>2 DEF Fits
<1>22. Steps(c, w) \in SUBSET FIn(w)
  BY DEF Steps
<1> QED
  BY <1>2, <1>3, <1>4, <1>5, <1>7, <1>8, <1>9, <1>10, <1>12, <1>15, <1>16, <1>17, <1>18,
     <1>19, <1>21, <1>22

LEMMA ReturnEffect ==
  ASSUME Running, NEW v, NEW s \in Orderings(OutEdges(edges, v)), ReturnVisit(v, s),
         NEW c, c = Last(calls), NEW w, w = ReturnPoint(prog, c),
         NEW L, L = Len(calls)
  PROVE  /\ \A i, j \in 1 .. Len(pending') : pending'[i].to = pending'[j].to => i = j
         /\ \A j \in 1 .. Len(pending') :
              \/ j \in 1 .. Len(pending) - 1 /\ pending'[j] = pending[j]
              \/ j >= Len(pending) /\ pending'[j].to = w
         /\ \A u : u # w => SameAt(remaining', u) /\ (IsPending(u)' <=> IsPending(u) /\ u # v)
         /\ \/ /\ Remaining(remaining, w) > 1 /\ ~ IsPending(w)' /\ w \in DOMAIN remaining'
               /\ remaining'[w] = Remaining(remaining, w) - 1
            \/ IsPending(w)' /\ w \notin DOMAIN remaining' /\ Remaining(remaining, w) = 1
         /\ \A n \in 1 .. L - 1 : Fn(n)' = Fn(n)
         /\ \A f : Active(f)' <=> Active(f) /\ f # v[1]
         /\ \A u : Waiting(u)' <=> Waiting(u) /\ u # c
<1>1. /\ GivenOK /\ TypeInv /\ pending # <<>> /\ v = Last(pending).to
      /\ remaining' = Removal(s).map /\ pending' = Front(pending) \o Removal(s).pushed
      /\ prog' = prog /\ target' = target
  BY DEF ReturnVisit, VisitOf, Running, TypeInv, given
<1>2. /\ L \in Nat /\ L >= 2 /\ c = calls[L] /\ Fn(L) = v[1] /\ c \in Resolved(prog)
      /\ \A u : Into(v, u) = IF u = w THEN {ReturnEdge(c)} ELSE {}
      /\ \A u : Into(v, u) # {} => Fits(v, u) /\ ~ IsPending(u)
      /\ Len(calls') = L - 1 /\ \A n \in 1 .. L - 1 : calls'[n] = calls[n]
  <2>1. ASSUME NEW u PROVE Into(v, u) = IF u = w THEN {ReturnEdge(c)} ELSE {}
    BY ReturnSteps
  <2>2. ASSUME NEW u, Into(v, u) # {} PROVE Fits(v, u) /\ ~ IsPending(u)
    BY <2>2, ReturnSteps
  <2>3. /\ L \in Nat /\ L >= 2 /\ c = calls[L] /\ Fn(L) = v[1] /\ c \in Resolved(prog)
        /\ Len(calls') = L - 1 /\ \A n \in 1 .. L - 1 : calls'[n] = calls[n]
    BY ReturnSteps
  <2> QED
    BY <2>1, <2>2, <2>3
<1>3. /\ \A i, j \in 1 .. Len(pending') : pending'[i].to = pending'[j].to => i = j
      /\ \A j \in 1 .. Len(pending') :
           \/ j \in 1 .. Len(pending) - 1 /\ pending'[j] = pending[j]
           \/ j >= Len(pending) /\ Into(v, pending'[j].to) # {}
      /\ \A u : Into(v, u) = {} =>
           SameAt(remaining', u) /\ (IsPending(u)' <=> IsPending(u) /\ u # v)
      /\ \A u : Into(v, u) # {} =>
           /\ Remaining(remaining, u) > Cardinality(Into(v, u)) =>
                /\ ~ IsPending(u)' /\ u \in DOMAIN remaining'
                /\ remaining'[u] = Remaining(remaining, u) - Cardinality(Into(v, u))
           /\ Remaining(remaining, u) <= Cardinality(Into(v, u)) =>
                /\ IsPending(u)' /\ u \notin DOMAIN remaining'
                /\ Remaining(remaining, u) = Cardinality(Into(v, u))
  <2>1. \A u : Into(v, u) # {} => Fits(v, u) /\ ~ IsPending(u)
    BY <1>2
  <2> QED
    BY <1>1, <2>1, WalkEffect
<1>4. \A j \in 1 .. Len(pending') :
        \/ j \in 1 .. Len(pending) - 1 /\ pending'[j] = pending[j]
        \/ j >= Len(pending) /\ pending'[j].to = w
  BY <1>2, <1>3
<1>5. \A u : u # w => SameAt(remaining', u) /\ (IsPending(u)' <=> IsPending(u) /\ u # v)
  BY <1>2, <1>3
<1>6. \/ /\ Remaining(remaining, w) > 1 /\ ~ IsPending(w)' /\ w \in DOMAIN remaining'
         /\ remaining'[w] = Remaining(remaining, w) - 1
      \/ IsPending(w)' /\ w \notin DOMAIN remaining' /\ Remaining(remaining, w) = 1
  <2>1. Into(v, w) = {ReturnEdge(c)}
    BY <1>2
  <2>2. Cardinality(Into(v, w)) = 1 /\ Into(v, w) # {}
    BY <2>1, FS_Singleton
  <2>3. Remaining(remaining, w) \in Int
    BY <1>1, RemainingTyped DEF TypeInv
  <2> QED
    BY <1>3, <2>2, <2>3
<1>7. \A n \in 1 .. L - 1 : Fn(n)' = Fn(n)
  BY <1>1, <1>2 DEF Fn
<1>8. ASSUME NEW f PROVE Active(f)' <=> Active(f) /\ f # v[1]
  <2>1. Active(f)' <=> \E n \in 1 .. L - 1 : f = Fn(n)'
    BY <1>2 DEF Active
  <2>2. Active(f)' <=> \E n \in 1 .. L - 1 : f = Fn(n)
    BY <1>7, <2>1
  <2>3. \A n : n \in 1 .. Len(calls) <=> n \in 1 .. L - 1 \/ n = L
    BY <1>2
  <2>4. \A n \in 1 .. L - 1 : Fn(n) # v[1]
    <3> SUFFICES ASSUME NEW n \in 1 .. L - 1, Fn(n) = v[1] PROVE FALSE
      OBVIOUS
    <3>1. n \in 1 .. Len(calls) /\ L \in 1 .. Len(calls) /\ n # L
      BY <1>2
    <3> QED
      BY <1>2, <3>1, FnOnce
  <2> QED
    BY <1>2, <2>2, <2>3, <2>4 DEF Active
<1>9. ASSUME NEW u PROVE Waiting(u)' <=> Waiting(u) /\ u # c
  <2>1. Waiting(u)' <=> \E n \in 2 .. L - 1 : calls'[n] = u
    BY <1>2 DEF Waiting
  <2>2. \A n \in 2 .. L - 1 : n \in 1 .. L - 1
    BY <1>2
  <2>3. Waiting(u)' <=> \E n \in 2 .. L - 1 : calls[n] = u
    BY <1>2, <2>1, <2>2
  <2>4. \A n : n \in 2 .. Len(calls) <=> n \in 2 .. L - 1 \/ n = L
    BY <1>2
  <2>5. \A n \in 2 .. L - 1 : calls[n] # c
    <3> SUFFICES ASSUME NEW n \in 2 .. L - 1, calls[n] = c PROVE FALSE
      OBVIOUS
    <3>1. n \in 2 .. Len(calls) /\ L \in 2 .. Len(calls) /\ n # L
      BY <1>2
    <3>2. CalledOnce(calls)
      BY DEF Running, CallInv
    <3> QED
      BY <1>2, <3>1, <3>2 DEF CalledOnce
  <2> QED
    BY <1>2, <2>3, <2>4, <2>5 DEF Waiting
<1> QED
  BY <1>3, <1>4, <1>5, <1>6, <1>7, <1>8, <1>9

LEMMA ReturnPassed ==
  ASSUME Running, NEW v, NEW s \in Orderings(OutEdges(edges, v)), ReturnVisit(v, s),
         NEW c, c = Last(calls), NEW u \in VerticesOf(prog), u[1] # v[1]
  PROVE  Gone(u)' = Gone(u) \cup Steps(c, u)
<1>1. /\ GivenOK /\ pending # <<>> /\ v = Last(pending).to /\ UNCHANGED given
      /\ visits' = [visits EXCEPT ![v] = @ + 1]
  BY DEF ReturnVisit, VisitOf, Running, TypeInv
<1>2. c[1] # v[1] /\ Begun(c)
  BY ReturnSteps
<1>3. \A x : Waiting(x)' <=> Waiting(x) /\ x # c
  BY ReturnEffect
<1>4. ASSUME NEW e \in FIn(u) PROVE Passed(e.from)' <=> Passed(e.from) \/ e.from = c
  <2> DEFINE x == e.from
  <2>1. x \in VerticesOf(prog) /\ x[1] # v[1]
    BY <1>1, ForwardWithin
  <2> HIDE DEF x
  <2>2. Begun(x)' <=> Begun(x)
    BY <1>1, <2>1, BegunAfter
  <2>3. Passed(x)' <=> Passed(x) \/ x = c
    BY <1>2, <1>3, <2>2 DEF Passed
  <2> QED
    BY <2>3 DEF x
<1>5. FIn(u)' = FIn(u)
  BY <1>1, SameForm
<1>6. Gone(u)' = {e \in FIn(u)' : Passed(e.from)'}
  BY DEF Gone
<1> QED
  BY <1>4, <1>5, <1>6 DEF Gone, Steps

LEMMA ReturnVertices ==
  ASSUME Running, NEW v, NEW s \in Orderings(OutEdges(edges, v)), ReturnVisit(v, s)
  PROVE  /\ VerticesInv'
         /\ \A f : Open(f)' <=> Open(f) /\ f # v[1]
<1>1. /\ GivenOK /\ TypeInv /\ pending # <<>> /\ v = Last(pending).to /\ v = ExitOf(v[1])
      /\ visits' = [visits EXCEPT ![v] = @ + 1] /\ UNCHANGED given /\ prog' = prog
  BY DEF ReturnVisit, VisitOf, Returns, Running, TypeInv, given
<1>2. PICK c, w, L : c = Last(calls) /\ w = ReturnPoint(prog, c) /\ L = Len(calls)
  OBVIOUS
<1>3. /\ v # EntryOf(v[1]) /\ w \in VerticesOf(prog) /\ w[1] = c[1] /\ c[1] # v[1]
      /\ Open(c[1]) /\ w # EntryOf(w[1])
      /\ \A u : u # w => Steps(c, u) = {}
      /\ Cardinality(Steps(c, w)) = 1 /\ Steps(c, w) \in SUBSET FIn(w)
      /\ Gone(w) \cap Steps(c, w) = {}
      /\ visits[w] = visits[EntryOf(w[1])] - 1 /\ ~ IsPending(w)
      /\ Remaining(remaining, w) = Cardinality(FIn(w)) - Cardinality(Gone(w))
      /\ Gone(w) # FIn(w)
  BY <1>2, ReturnSteps
<1>4. /\ \A u : u # w => SameAt(remaining', u) /\ (IsPending(u)' <=> IsPending(u) /\ u # v)
      /\ \/ /\ Remaining(remaining, w) > 1 /\ ~ IsPending(w)' /\ w \in DOMAIN remaining'
            /\ remaining'[w] = Remaining(remaining, w) - 1
         \/ IsPending(w)' /\ w \notin DOMAIN remaining' /\ Remaining(remaining, w) = 1
      /\ \A f : Active(f)' <=> Active(f) /\ f # v[1]
  BY <1>2, ReturnEffect
<1>5. v \in VerticesOf(prog) /\ v[1] \in DOMAIN prog /\ v \notin DOMAIN remaining
  BY <1>1, Taken
<1>6. \A x \in VerticesOf(prog) : x # v => visits'[x] = visits[x]
  BY <1>1, <1>5, VisitsAfter
<1>7. ASSUME NEW f PROVE Open(f)' <=> Open(f) /\ f # v[1]
  <2> DEFINE x == EntryOf(f)
  <2>1. x # w /\ x # v
    BY <1>1, <1>3, Ends01
  <2>2. (Open(f)' <=> Active(f)' /\ ~ IsPending(x)') /\ (Open(f) <=> Active(f) /\ ~ IsPending(x))
    BY DEF Open, EntryOf
  <2> HIDE DEF x
  <2> QED
    BY <1>4, <2>1, <2>2
<1>8. ASSUME NEW u \in VerticesOf(prog), u[1] = v[1] PROVE ClosedVertex(u)'
  <2>1. u # w /\ u \notin DOMAIN remaining
    <3>1. CASE u = v
      BY <1>3, <1>5, <3>1
    <3>2. CASE u # v
      BY <1>1, <1>3, <1>8, <3>2, AllPassed
    <3> QED
      BY <3>1, <3>2
  <2>2. ~ IsPending(u)'
    <3>1. CASE u = v
      <4>1. ~ (IsPending(u) /\ u # v)
        BY <3>1
      <4> QED
        BY <1>4, <2>1, <4>1
    <3>2. CASE u # v
      <4>1. ~ IsPending(u)
        BY <1>1, <1>8, <3>2, AllPassed
      <4> QED
        BY <1>4, <2>1, <4>1
    <3> QED
      BY <3>1, <3>2
  <2>3. Begun(u)'
    <3>1. u = v \/ Begun(u)
      BY <1>1, <1>8, AllPassed DEF Passed
    <3> QED
      BY <1>1, <1>3, <1>8, <3>1, BegunAfter
  <2>4. u \notin DOMAIN remaining'
    BY <1>4, <2>1 DEF SameAt
  <2> QED
    BY <2>2, <2>3, <2>4 DEF ClosedVertex
<1>9. ASSUME NEW u \in VerticesOf(prog), u[1] # v[1]
      PROVE  IF Open(u[1])' THEN OpenVertex(u)' ELSE ClosedVertex(u)'
  <2>1. /\ u # v /\ EntryOf(u[1]) # v /\ EntryOf(u[1]) \in VerticesOf(prog)
        /\ Gone(u)' = Gone(u) \cup Steps(c, u)
    BY <1>1, <1>2, <1>9, Ends01, VertexIn, ReturnPassed
  <2>2. visits'[u] = visits[u] /\ visits'[EntryOf(u[1])] = visits[EntryOf(u[1])]
    BY <1>6, <2>1
  <2>3. Open(u[1])' <=> Open(u[1])
    BY <1>7, <1>9
  <2>4. CASE u = w
    <3> DEFINE B == Gone(u)
               I == Steps(c, u)
    <3>1. visits'[u] = visits'[EntryOf(u[1])] - 1
      BY <1>3, <2>2, <2>4
    <3>2. /\ B \in SUBSET FIn(u) /\ I \in SUBSET FIn(u) /\ B \cap I = {} /\ B # FIn(u)
          /\ Remaining(remaining, u) = Cardinality(FIn(u)) - Cardinality(B)
          /\ Gone(u)' = B \cup I /\ Cardinality(I) = 1 /\ u # EntryOf(u[1])
      BY <1>3, <2>1, <2>4 DEF Gone
    <3>3. I # {}
      <4>1. Cardinality({}) = 0
        BY FS_EmptySet
      <4> QED
        BY <3>2, <4>1
    <3>4. PICK x : x = w
      OBVIOUS
    <3>5. \/ /\ Remaining(remaining, x) > 1 /\ ~ IsPending(x)' /\ x \in DOMAIN remaining'
             /\ remaining'[x] = Remaining(remaining, x) - 1
          \/ IsPending(x)' /\ x \notin DOMAIN remaining' /\ Remaining(remaining, x) = 1
      BY <1>4, <3>4 DEF IsPending
    <3>6. x = u
      BY <2>4, <3>4
    <3>7. \/ /\ I # {} /\ Remaining(remaining, u) > Cardinality(I) /\ ~ IsPending(u)'
             /\ u \in DOMAIN remaining'
             /\ remaining'[u] = Remaining(remaining, u) - Cardinality(I)
          \/ /\ I # {} /\ IsPending(u)' /\ u \notin DOMAIN remaining'
             /\ Remaining(remaining, u) = Cardinality(I)
      <4> HIDE DEF I
      <4>1. (IsPending(x)' <=> IsPending(u)')
        BY <3>6 DEF IsPending
      <4> QED
        BY <3>2, <3>3, <3>5, <3>6, <4>1
    <3> HIDE DEF B, I
    <3>8. OpenVertex(u)'
      BY <1>1, <3>1, <3>2, <3>7, Reached
    <3> QED
      BY <1>3, <2>3, <2>4, <3>8
  <2>5. CASE u # w
    <3>1. SameAt(remaining', u) /\ (IsPending(u)' <=> IsPending(u)) /\ Gone(u)' = Gone(u)
      BY <1>3, <1>4, <2>1, <2>5
    <3>2. CASE Open(u[1])
      <4>1. OpenVertex(u)
        BY <3>2 DEF Running, VerticesInv
      <4>2. OpenVertex(u)'
        BY <1>1, <2>2, <3>1, <4>1, Kept
      <4> QED
        BY <2>3, <3>2, <4>2
    <3>3. CASE ~ Open(u[1])
      <4>1. ClosedVertex(u)
        BY <3>3 DEF Running, VerticesInv
      <4>2. Active(u[1]) => Active(u[1])'
        BY <1>4, <1>9
      <4>3. ClosedVertex(u)'
        BY <1>1, <2>2, <3>1, <4>1, <4>2, Kept
      <4> QED
        BY <2>3, <3>3, <4>3
    <3> QED
      BY <3>2, <3>3
  <2> QED
    BY <2>4, <2>5
<1>10. VerticesInv'
  <2>1. VerticesOf(prog') = VerticesOf(prog)
    BY <1>1
  <2>2. ASSUME NEW u \in VerticesOf(prog)
        PROVE  IF Open(u[1])' THEN OpenVertex(u)' ELSE ClosedVertex(u)'
    <3>1. CASE u[1] = v[1]
      BY <1>7, <1>8, <3>1
    <3>2. CASE u[1] # v[1]
      BY <1>9, <3>2
    <3> QED
      BY <3>1, <3>2
  <2> QED
    BY <2>1, <2>2 DEF VerticesInv
<1> QED
  BY <1>7, <1>10

LEMMA ReturnPending ==
  ASSUME Running, NEW v, NEW s \in Orderings(OutEdges(edges, v)), ReturnVisit(v, s)
  PROVE  PendingInv'
<1>1. /\ GivenOK /\ TypeInv /\ pending # <<>> /\ v = Last(pending).to /\ v = ExitOf(v[1])
  BY DEF ReturnVisit, VisitOf, Returns, Running, TypeInv
<1>2. PICK c, w, L : c = Last(calls) /\ w = ReturnPoint(prog, c) /\ L = Len(calls)
  OBVIOUS
<1>3. /\ L \in Nat /\ L >= 2 /\ c = calls[L] /\ Len(calls') = L - 1
      /\ w[1] = c[1] /\ c[1] # v[1] /\ Open(c[1])
  BY <1>2, ReturnSteps
<1>4. /\ \A i, j \in 1 .. Len(pending') : pending'[i].to = pending'[j].to => i = j
      /\ \A j \in 1 .. Len(pending') :
           \/ j \in 1 .. Len(pending) - 1 /\ pending'[j] = pending[j]
           \/ j >= Len(pending) /\ pending'[j].to = w
      /\ \A n \in 1 .. L - 1 : Fn(n)' = Fn(n)
      /\ \A f : Active(f)' <=> Active(f) /\ f # v[1]
  BY <1>2, ReturnEffect
<1>5. Len(pending) \in Nat /\ Len(pending) >= 1 /\ v = pending[Len(pending)].to
  BY <1>1, LastPending
<1>6. /\ \A i, j \in 1 .. Len(pending) : pending[i].to = pending[j].to => i = j
      /\ \A i \in 1 .. Len(pending) : Active(pending[i].to[1])
      /\ \A i, j \in 1 .. Len(pending) : i < j =>
           \A m, n \in 1 .. Len(calls) :
             pending[i].to[1] = Fn(m) /\ pending[j].to[1] = Fn(n) => m <= n
  BY DEF Running, PendingInv
<1>7. ASSUME NEW j \in 1 .. Len(pending) - 1 PROVE pending[j].to[1] # v[1]
  <2> DEFINE u == pending[j].to
  <2>1. j \in 1 .. Len(pending) /\ Len(pending) \in 1 .. Len(pending) /\ j # Len(pending)
    BY <1>5
  <2>2. u # v /\ IsPending(u)
    BY <1>5, <1>6, <2>1 DEF IsPending
  <2>3. u \in VerticesOf(prog)
    <3>1. pending[j] \in edges \cup {EntrySelfEdge(target)}
      BY <1>1, <2>1, ElementOfSeq DEF TypeInv
    <3>2. CASE pending[j] \in edges
      BY <1>1, <3>2, EdgeEnds DEF GivenOK
    <3>3. CASE pending[j] = EntrySelfEdge(target)
      BY <1>1, <3>3 DEF EntrySelfEdge, GivenOK, VerticesOf
    <3> QED
      BY <3>1, <3>2, <3>3
  <2> HIDE DEF u
  <2>4. u[1] # v[1]
    BY <1>1, <2>2, <2>3, AllPassed
  <2> QED
    BY <2>4 DEF u
<1>8. PICK M \in 1 .. L - 1 : CalledFrom(L, M)
  <2>1. L \in 2 .. Len(calls)
    BY <1>2, <1>3
  <2> QED
    BY <2>1 DEF Running, FramesInv
<1>9. /\ c[1] = Fn(M)
      /\ \A k \in M + 1 .. L - 1 : \A i \in 1 .. Len(pending) : pending[i].to[1] # Fn(k)
  BY <1>3, <1>8 DEF CalledFrom
<1>10. \A j \in 1 .. Len(pending') :
         \/ /\ j \in 1 .. Len(pending) - 1 /\ j \in 1 .. Len(pending)
            /\ ~ (j >= Len(pending)) /\ pending'[j].to[1] = pending[j].to[1]
         \/ j >= Len(pending) /\ pending'[j].to[1] = Fn(M) /\ pending'[j].to = w
  BY <1>3, <1>4, <1>5, <1>9
<1>11. \A n : n \in 1 .. Len(calls') <=> n \in 1 .. L - 1
  BY <1>3
<1>12. ASSUME NEW i \in 1 .. Len(pending') PROVE \E n \in 1 .. Len(calls') : pending'[i].to[1] = Fn(n)'
  <2>1. PICK f : f = pending'[i].to[1]
    OBVIOUS
  <2>2. Active(f) /\ f # v[1]
    <3>1. CASE i \in 1 .. Len(pending) - 1 /\ i \in 1 .. Len(pending) /\ f = pending[i].to[1]
      BY <1>6, <1>7, <3>1
    <3>2. CASE f = Fn(M)
      BY <1>3, <1>9, <3>2 DEF Open
    <3> QED
      BY <1>10, <2>1, <3>1, <3>2
  <2>3. Active(f)'
    BY <1>4, <2>2
  <2> QED
    BY <2>1, <2>3 DEF Active
<1>13. ASSUME NEW i \in 1 .. Len(pending'), NEW j \in 1 .. Len(pending'), i < j,
              NEW m \in 1 .. Len(calls'), NEW n \in 1 .. Len(calls'),
              pending'[i].to[1] = Fn(m)', pending'[j].to[1] = Fn(n)'
       PROVE  m <= n
  <2>1. /\ m \in 1 .. L - 1 /\ n \in 1 .. L - 1 /\ m \in 1 .. Len(calls) /\ n \in 1 .. Len(calls)
        /\ m \in Nat /\ n \in Nat /\ M \in Nat /\ M \in 1 .. Len(calls)
    BY <1>2, <1>3, <1>11
  <2>2. pending'[i].to[1] = Fn(m) /\ pending'[j].to[1] = Fn(n)
    BY <1>4, <1>13, <2>1
  <2>3. CASE j \in 1 .. Len(pending) /\ ~ (j >= Len(pending)) /\ pending'[j].to[1] = pending[j].to[1]
    <3>1. ~ (i >= Len(pending))
      BY <1>5, <1>13, <2>3
    <3>2. i \in 1 .. Len(pending) /\ pending'[i].to[1] = pending[i].to[1]
      BY <1>10, <3>1
    <3> QED
      <4>1. pending[i].to[1] = Fn(m) /\ pending[j].to[1] = Fn(n)
        BY <2>2, <2>3, <3>2
      <4> QED
        BY <1>6, <1>13, <2>1, <2>3, <3>2, <4>1
  <2>4. CASE j >= Len(pending) /\ pending'[j].to[1] = Fn(M) /\ pending'[j].to = w
    <3>1. n = M
      BY <2>1, <2>2, <2>4, FnOnce
    <3>2. CASE i \in 1 .. Len(pending) /\ pending'[i].to[1] = pending[i].to[1]
      <4>1. pending[i].to[1] = Fn(m)
        BY <2>2, <3>2
      <4>2. m \notin M + 1 .. L - 1
        BY <1>9, <3>2, <4>1
      <4> QED
        BY <1>3, <2>1, <3>1, <4>2
    <3>3. CASE pending'[i].to = w
      <4>1. i = j
        BY <1>4, <2>4, <3>3
      <4> QED
        BY <1>13, <4>1
    <3> QED
      BY <1>10, <3>2, <3>3
  <2> QED
    BY <1>10, <2>3, <2>4
<1> QED
  BY <1>4, <1>12, <1>13 DEF PendingInv, Active

LEMMA ReturnFrames ==
  ASSUME Running, NEW v, NEW s \in Orderings(OutEdges(edges, v)), ReturnVisit(v, s)
  PROVE  FramesInv'
<1>1. /\ GivenOK /\ TypeInv /\ pending # <<>> /\ v = Last(pending).to
      /\ visits' = [visits EXCEPT ![v] = @ + 1] /\ prog' = prog
  BY DEF ReturnVisit, VisitOf, Running, TypeInv, given
<1>2. PICK c, w, L : c = Last(calls) /\ w = ReturnPoint(prog, c) /\ L = Len(calls)
  OBVIOUS
<1>3. /\ L \in Nat /\ L >= 2 /\ c = calls[L] /\ Fn(L) = v[1] /\ w[1] = c[1]
      /\ Len(calls') = L - 1 /\ \A n \in 1 .. L - 1 : calls'[n] = calls[n]
  BY <1>2, ReturnSteps
<1>4. /\ \A j \in 1 .. Len(pending') :
           \/ j \in 1 .. Len(pending) - 1 /\ pending'[j] = pending[j]
           \/ j >= Len(pending) /\ pending'[j].to = w
      /\ \A n \in 1 .. L - 1 : Fn(n)' = Fn(n)
  BY <1>2, ReturnEffect
<1>5. \A f : Open(f)' <=> Open(f) /\ f # v[1]
  BY ReturnVertices
<1>6. Len(pending) \in Nat /\ \A j \in 1 .. Len(pending) - 1 : j \in 1 .. Len(pending)
  BY <1>1, LastPending
<1>7. PICK M \in 1 .. L - 1 : CalledFrom(L, M)
  <2>1. L \in 2 .. Len(calls)
    BY <1>2, <1>3
  <2> QED
    BY <2>1 DEF Running, FramesInv
<1>8. /\ w[1] = Fn(M)
      /\ \A k \in 2 .. L - 1 : \A j \in 1 .. k - 1 : calls[k][1] = Fn(j) => ~ (j < M /\ M < k)
  BY <1>3, <1>7 DEF CalledFrom
<1>9. ASSUME NEW n \in 2 .. L - 1
      PROVE  calls'[n] \in Resolved(prog') /\ \E m \in 1 .. n - 1 : CalledFrom(n, m)'
  <2>1. n \in 2 .. Len(calls)
    BY <1>2, <1>3
  <2>2. PICK m \in 1 .. n - 1 : calls[n] \in Resolved(prog) /\ CalledFrom(n, m)
    BY <2>1 DEF Running, FramesInv
  <2>3. /\ n \in Nat /\ m \in Nat /\ 1 <= m /\ m < n /\ m \in 1 .. Len(calls) /\ m # L
        /\ L \in 1 .. Len(calls) /\ n \in 1 .. L - 1
    BY <1>2, <1>3
  <2>4. PICK d, h : d = calls[n] /\ h = Fn(m)
    OBVIOUS
  <2>5. d[1] = h /\ Begun(d) /\ d \in VerticesOf(prog) /\ Open(h)
    BY <1>1, <2>2, <2>4, SitesAreNoEnds DEF CalledFrom
  <2>6. h # v[1]
    BY <1>3, <2>3, <2>4, FnOnce
  <2>7. Begun(d)'
    BY <1>1, <2>5, <2>6, BegunAfter
  <2>8. Open(h)'
    BY <1>5, <2>5, <2>6
  <2>9. ASSUME NEW k \in m + 1 .. n - 1, NEW i \in 1 .. Len(pending') PROVE pending'[i].to[1] # Fn(k)
    <3>1. CASE i \in 1 .. Len(pending) - 1 /\ pending'[i] = pending[i]
      <4>1. i \in 1 .. Len(pending)
        BY <1>6, <3>1
      <4>2. pending[i].to[1] # Fn(k)
        BY <2>2, <4>1 DEF CalledFrom
      <4> QED
        BY <3>1, <4>2
    <3>2. CASE pending'[i].to = w
      <4> SUFFICES ASSUME Fn(k) = Fn(M) PROVE FALSE
        BY <1>8, <3>2
      <4>1. k \in 1 .. Len(calls) /\ M \in 1 .. Len(calls)
        BY <1>2, <1>3, <2>3
      <4>2. k = M
        BY <4>1, FnOnce
      <4>3. m < M /\ M < n
        BY <2>3, <4>2
      <4>4. calls[n][1] = Fn(m)
        BY <2>4, <2>5
      <4> QED
        BY <1>8, <4>3, <4>4
    <3> QED
      BY <1>4, <3>1, <3>2
  <2>10. \A k \in 1 .. n : Fn(k)' = Fn(k) /\ calls'[k] = calls[k]
    <3>1. \A k \in 1 .. n : k \in 1 .. L - 1
      BY <1>3, <2>3
    <3> QED
      BY <1>3, <1>4, <3>1
  <2>11. CalledFrom(n, m)'
    BY <2>2, <2>3, <2>4, <2>7, <2>8, <2>9, <2>10, FrameKept
  <2> QED
    BY <1>1, <1>3, <2>2, <2>3, <2>11
<1>10. 2 .. Len(calls') = 2 .. L - 1
  BY <1>3
<1> QED
  BY <1>9, <1>10 DEF FramesInv

-----------------------------------------------------------------------------
(* The theorems on orderly programs.                                       *)

VisitsInOrder ==
  \A e \in edges : e.kind \in {"plain", "impossible"} => visits[e.from] >= visits[e.to]

OrderlyInv ==
  /\ TypeInv /\ CallInv
  /\ Orderly => /\ VisitsInOrder /\ PrintedWhole
                /\ status = "running" => VerticesInv /\ PendingInv /\ FramesInv

LEMMA VisitedInOrder ==
  ASSUME Running, VisitsInOrder, NEW v, pending # <<>>, v = Last(pending).to,
         visits' = [visits EXCEPT ![v] = @ + 1], edges' = edges
  PROVE  VisitsInOrder'
<1>1. TypeInv /\ GivenOK /\ v \in VerticesOf(prog) /\ EntryOf(v[1]) \in VerticesOf(prog)
  BY Taken DEF Running, TypeInv
<1>2. /\ visits'[v] = visits[v] + 1
      /\ \A w \in VerticesOf(prog) : visits[w] \in Nat /\ (w # v => visits'[w] = visits[w])
  BY <1>1, VisitsAfter
<1>3. SUFFICES ASSUME NEW e \in edges, e.kind \in {"plain", "impossible"}
               PROVE  visits'[e.from] >= visits'[e.to]
  BY DEF VisitsInOrder
<1>4. e.from \in VerticesOf(prog) /\ e.to \in VerticesOf(prog) /\ visits[e.from] >= visits[e.to]
  BY <1>1, <1>3, EdgeEnds DEF GivenOK, VisitsInOrder
<1>5. CASE e.to = v
  <2>1. e \in FIn(v)
    BY <1>3, <1>5 DEF FIn, InEdges
  <2>2. /\ v # EntryOf(v[1]) /\ ~ Begun(v) /\ Gone(v) = FIn(v)
        /\ visits[v] = visits[EntryOf(v[1])] - 1
    BY <1>1, <2>1, Taken
  <2>3. Begun(e.from) /\ e.from # v /\ e.from[1] = v[1]
    BY <1>1, <2>1, <2>2, ForwardWithin DEF Gone, Passed
  <2>4. visits[e.from] = visits[EntryOf(v[1])]
    BY <2>3 DEF Begun
  <2>5. visits'[e.from] = visits[v] + 1
    <3>1. visits[v] \in Nat /\ visits[EntryOf(v[1])] \in Nat /\ visits'[e.from] = visits[e.from]
      BY <1>1, <1>2, <1>4, <2>3
    <3> QED
      BY <2>2, <2>4, <3>1
  <2> QED
    BY <1>1, <1>2, <1>5, <2>5
<1>6. CASE e.to # v
  <2>1. visits'[e.to] = visits[e.to] /\ visits'[e.from] >= visits[e.from]
    BY <1>2, <1>4, <1>6
  <2>2. visits[e.to] \in Nat /\ visits[e.from] \in Nat /\ visits'[e.from] \in Nat
    BY <1>2, <1>4
  <2> QED
    BY <1>4, <2>1, <2>2
<1> QED
  BY <1>5, <1>6

LEMMA OrderlyInvInit == Init => OrderlyInv
<1> SUFFICES ASSUME Init PROVE OrderlyInv
  OBVIOUS
<1>1. TypeInv /\ CallInv /\ GivenOK
  BY TypeInvInit, CallInvInit DEF TypeInv
<1>2. /\ pending = <<EntrySelfEdge(target)>> /\ remaining = <<>> /\ calls = <<NoCall>>
      /\ visits = [v \in VerticesOf(prog) |-> 0] /\ status = "running"
  BY DEF Init
<1>3. Len(calls) = 1 /\ Len(pending) = 1 /\ pending[1].to = EntryOf(target) /\ DOMAIN remaining = {}
  BY <1>2 DEF EntrySelfEdge
<1>4. \A u : IsPending(u) <=> u = EntryOf(target)
  BY <1>3 DEF IsPending
<1>5. \A f : Active(f) <=> f = target
  BY <1>3 DEF Active, Fn
<1>6. \A f : ~ Open(f)
  BY <1>4, <1>5 DEF Open
<1>7. VerticesInv
  <2> SUFFICES ASSUME NEW u \in VerticesOf(prog) PROVE ClosedVertex(u)
    BY <1>6 DEF VerticesInv
  <2>1. EntryOf(u[1]) \in VerticesOf(prog)
    BY <1>1, VertexIn
  <2>2. Begun(u)
    BY <1>2, <2>1 DEF Begun
  <2>3. IsPending(u) => u = EntryOf(u[1]) /\ Active(u[1])
    BY <1>4, <1>5, Ends01
  <2> QED
    BY <1>3, <2>2, <2>3 DEF ClosedVertex
<1>8. PendingInv
  <2>1. \A i \in 1 .. Len(pending) : i = 1
    BY <1>3
  <2>2. \A i \in 1 .. Len(pending) : Active(pending[i].to[1])
    BY <1>3, <1>5, <2>1, Ends01
  <2>3. \A i, j \in 1 .. Len(pending) : ~ (i < j)
    BY <2>1
  <2> QED
    BY <2>1, <2>2, <2>3 DEF PendingInv
<1>9. FramesInv
  BY <1>3 DEF FramesInv
<1>10. VisitsInOrder
  <2> SUFFICES ASSUME NEW e \in edges PROVE visits[e.from] >= visits[e.to]
    BY DEF VisitsInOrder
  <2>1. e.from \in VerticesOf(prog) /\ e.to \in VerticesOf(prog)
    BY <1>1, EdgeEnds DEF GivenOK
  <2> QED
    BY <1>2, <2>1
<1>11. PrintedWhole
  BY <1>2 DEF PrintedWhole
<1> QED
  BY <1>1, <1>7, <1>8, <1>9, <1>10, <1>11 DEF OrderlyInv

LEMMA OrderlyInvStep == OrderlyInv /\ [Next]_vars => OrderlyInv'
<1> SUFFICES ASSUME OrderlyInv, [Next]_vars PROVE OrderlyInv'
  OBVIOUS
<1>1. TypeInv /\ CallInv
  BY DEF OrderlyInv
<1>2. TypeInv' /\ CallInv'
  BY <1>1, TypeInvStep, CallInvStep
<1>3. ASSUME UNCHANGED given PROVE Orderly' <=> Orderly
  <2>1. prog' = prog /\ edges' = edges /\ target' = target
    BY <1>3 DEF given
  <2> QED
    BY <2>1 DEF Orderly, CallGoesOn, ClosedBackwards, Own, FIn, InEdges
<1>4. CASE Visit
  <2>1. PICK v \in VerticesOf(prog) : \E s \in Orderings(OutEdges(edges, v)) : VisitOf(v, s)
    BY <1>1, <1>4, VisitParts
  <2>2. PICK s \in Orderings(OutEdges(edges, v)) : VisitOf(v, s)
    BY <2>1
  <2>3. /\ status = "running" /\ pending # <<>> /\ v = Last(pending).to
        /\ UNCHANGED given /\ edges' = edges /\ visits' = [visits EXCEPT ![v] = @ + 1]
    BY <2>2 DEF VisitOf, given
  <2> SUFFICES ASSUME Orderly'
               PROVE  /\ VisitsInOrder' /\ PrintedWhole'
                      /\ status' = "running" => VerticesInv' /\ PendingInv' /\ FramesInv'
    BY <1>2 DEF OrderlyInv
  <2>4. Running /\ VisitsInOrder
    BY <1>3, <2>3 DEF OrderlyInv, Running
  <2>5. VisitsInOrder'
    BY <2>3, <2>4, VisitedInOrder
  <2>6. status' # "crashed" => PrintedWhole'
    BY DEF PrintedWhole
  <2>7. CASE status' = "exhausted"
    BY <2>5, <2>6, <2>7
  <2>8. CASE pending' = Front(pending) \o Removal(s).pushed /\ Ends(v)
    <3>1. EndVisit(v, s) /\ status' = "crashed"
      BY <2>2, <2>8 DEF EndVisit, Ends
    <3>2. PrintedWhole'
      BY <1>2, <2>4, <3>1, WholeAtEnd
    <3> QED
      BY <2>5, <3>1, <3>2
  <2>9. CASE pending' = Front(pending) \o Removal(s).pushed /\ Returns(v)
    <3>1. ReturnVisit(v, s) /\ status' = "running"
      BY <2>2, <2>9 DEF ReturnVisit, Returns
    <3>2. VerticesInv' /\ PendingInv' /\ FramesInv'
      BY <2>4, <3>1, ReturnVertices, ReturnPending, ReturnFrames
    <3> QED
      BY <2>5, <2>6, <3>1, <3>2
  <2>10. CASE pending' = Front(pending) \o Removal(s).pushed /\ GoesOn(v)
    <3>1. status' = "running"
      BY <2>10 DEF GoesOn
    <3>2. CASE IsResolvedCall(v) => Recursive(v)
      <4>1. WithinVisit(v, s)
        BY <2>2, <2>10, <3>2 DEF WithinVisit
      <4>2. VerticesInv' /\ PendingInv' /\ FramesInv'
        BY <2>4, <4>1, WithinVertices, WithinPending, WithinFrames
      <4> QED
        BY <2>5, <2>6, <3>1, <4>2
    <3>3. CASE IsResolvedCall(v) /\ ~ Recursive(v)
      <4>1. CallVisit(v, s)
        BY <2>2, <2>10, <3>3 DEF CallVisit
      <4>2. VerticesInv' /\ PendingInv' /\ FramesInv'
        BY <2>4, <4>1, CallVertices, CallPending, CallFrames
      <4> QED
        BY <2>5, <2>6, <3>1, <4>2
    <3> QED
      BY <3>2, <3>3
  <2> QED
    BY <2>2, <2>7, <2>8, <2>9, <2>10 DEF VisitOf
<1>5. CASE Finish
  <2>1. status' = "done" /\ UNCHANGED given /\ edges' = edges /\ visits' = visits
    BY <1>5 DEF Finish, given
  <2>2. VisitsInOrder' <=> VisitsInOrder
    BY <2>1 DEF VisitsInOrder
  <2>3. PrintedWhole'
    BY <2>1 DEF PrintedWhole
  <2> QED
    BY <1>2, <1>3, <2>1, <2>2, <2>3 DEF OrderlyInv
<1>6. CASE Printout \/ UNCHANGED vars
  <2>1. UNCHANGED vars
    BY <1>6 DEF Printout
  <2>2. (VisitsInOrder' <=> VisitsInOrder) /\ (PrintedWhole' <=> PrintedWhole)
    BY <2>1 DEF vars, given, VisitsInOrder, PrintedWhole
  <2>3. /\ \A u : (Begun(u)' <=> Begun(u)) /\ (IsPending(u)' <=> IsPending(u))
                  /\ (Waiting(u)' <=> Waiting(u)) /\ FIn(u)' = FIn(u)
                  /\ Remaining(remaining, u)' = Remaining(remaining, u)
        /\ \A n : Fn(n)' = Fn(n)
    BY <2>1 DEF vars, given, Begun, IsPending, Waiting, Fn, FIn, InEdges, Remaining, FilteredInDegree
  <2>4. /\ \A u : Gone(u)' = Gone(u)
        /\ \A f : (Active(f)' <=> Active(f)) /\ (Open(f)' <=> Open(f))
    BY <2>1 DEF vars, given, Gone, Passed, Active, Open, Begun, IsPending, Waiting, Fn, FIn, InEdges
  <2>5. \A u : (ClosedVertex(u)' <=> ClosedVertex(u)) /\ (OpenVertex(u)' <=> OpenVertex(u))
    BY <2>1, <2>3, <2>4 DEF vars, given, ClosedVertex, OpenVertex
  <2>6. VerticesInv' <=> VerticesInv
    BY <2>1, <2>4, <2>5 DEF vars, given, VerticesInv
  <2>7. PendingInv' <=> PendingInv
    BY <2>1 DEF vars, given, PendingInv, Active, Fn
  <2>8. FramesInv' <=> FramesInv
    BY <2>1 DEF vars, given, FramesInv, CalledFrom, Begun, Open, Active, IsPending, Fn
  <2>9. UNCHANGED given /\ status' = status
    BY <2>1 DEF vars
  <2> QED
    BY <1>2, <1>3, <2>2, <2>6, <2>7, <2>8, <2>9 DEF OrderlyInv
<1> QED
  BY <1>4, <1>5, <1>6 DEF Next, Printing

LEMMA OrderlyInvHolds == Spec => []OrderlyInv
  BY OrderlyInvInit, OrderlyInvStep, PTL DEF Spec

(* In an orderly program nothing is printed before what comes before it,   *)
(* in no activation of its function, whatever the order in which the edges *)
(* out of a vertex are walked, however deep the calls: each time its       *)
(* function is entered a vertex is visited after all that lead to it.      *)
THEOREM OrderlyPredecessorsFirst == Spec => [](Orderly => PredecessorsFirst)
<1>1. OrderlyInv /\ TypeOK => (Orderly => PredecessorsFirst)
  BY DEF OrderlyInv, VisitsInOrder, PredecessorsFirst
<1> QED
  BY <1>1, OrderlyInvHolds, PrintTypeCorrect, PTL

(* An orderly program is printed whole: where the walk comes to the end of *)
(* the function printed, no edge is pending, no count is left in the map,  *)
(* and every function has been visited whole each time it was entered.     *)
THEOREM OrderlyPrintedWhole == Spec => [](Orderly => PrintedWhole)
<1>1. OrderlyInv => (Orderly => PrintedWhole)
  BY DEF OrderlyInv
<1> QED
  BY <1>1, OrderlyInvHolds, PTL
=============================================================================
