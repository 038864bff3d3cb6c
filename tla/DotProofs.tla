----------------------------- MODULE DotProofs -----------------------------
(***************************************************************************)
(* Proofs that the colors of the drawing's traversal mean what its events  *)
(* say, and that a finished drawing is whole and shows nothing else, for   *)
(* every program with finitely many edges.                                 *)
(***************************************************************************)
EXTENDS DotVisit, SequenceTheorems, FiniteSetTheorems, TLAPS

-----------------------------------------------------------------------------
(* The inductive invariant.  What a finished vertex leads to has been      *)
(* discovered because each edge was looked at before it was finished: the  *)
(* strengthening says this of the edges already passed on the stack.       *)

GivenOK == prog \in Programs /\ edges = EdgesOf(prog) \cup SelfEdges(prog)

OrderOK(o) == \A v \in DOMAIN o : o[v] \in Orderings(OutEdges(edges, v))

StackOK(s, o) ==
  /\ s \in Seq([v : DOMAIN o, at : Nat])
  /\ \A n \in 1 .. Len(s) : s[n].at <= Len(o[s[n].v])
  /\ \A m, n \in 1 .. Len(s) : s[m].v = s[n].v => m = n

(* An edge is done with if it is ignored or its end has been discovered.   *)
DoneIn(e, c) == Ignored(e) \/ e.to \in DOMAIN c

PassedOK(s, o, c) ==
  \A n \in 1 .. Len(s) : \A k \in 1 .. s[n].at : DoneIn(o[s[n].v][k], c)

GrayOK(s, c) ==
  /\ \A v \in DOMAIN c : c[v] \in {"gray", "black"}
  /\ \A v : v \in DOMAIN c /\ c[v] = "gray" <=> \E n \in 1 .. Len(s) : v = s[n].v

BlackOK(c) ==
  \A v \in DOMAIN c : c[v] = "black" => \A e \in OutEdges(edges, v) : DoneIn(e, c)

DotInv ==
  /\ GivenOK /\ OrderOK(order)
  /\ StackOK(dfs, order)
  /\ PassedOK(dfs, order, color) /\ GrayOK(dfs, color) /\ BlackOK(color)

-----------------------------------------------------------------------------
(* An order of the out-edges of a vertex lists them all.                   *)
LEMMA OrderListsAll ==
  ASSUME NEW p \in Programs, NEW v,
         NEW s \in Orderings(OutEdges(EdgesOf(p) \cup SelfEdges(p), v))
  PROVE  /\ Len(s) \in Nat
         /\ \A e \in OutEdges(EdgesOf(p) \cup SelfEdges(p), v) :
              \E k \in 1 .. Len(s) : s[k] = e
<1> DEFINE S == OutEdges(EdgesOf(p) \cup SelfEdges(p), v)
           N == Cardinality(S)
<1>1. S \in SUBSET (EdgesOf(p) \cup SelfEdges(p))
  BY DEF OutEdges
<1>2. IsFiniteSet(S)
  BY <1>1, ProgramsAssumption, FS_Subset
<1>3. N \in Nat
  BY <1>2, FS_CardinalityType
<1>4. /\ s \in [1 .. N -> S]
      /\ \A m, n \in 1 .. N : s[m] = s[n] => m = n
  BY DEF Orderings
<1> HIDE DEF S, N
<1>5. s \in Injection(1 .. N, S)
  BY <1>4 DEF Injection, IsInjective
<1>6. Cardinality(1 .. N) = N
  BY <1>3, FS_Interval
<1>7. s \in Surjection(1 .. N, S)
  BY <1>2, <1>5, <1>6, FS_Injection DEF N
<1>8. \A e \in S : \E k \in 1 .. N : s[k] = e
  BY <1>7 DEF Surjection
<1>9. Len(s) = N
  <2>1. s \in Seq(S)
    BY <1>3, <1>4, SeqDef
  <2>2. Len(s) \in Nat /\ DOMAIN s = 1 .. Len(s)
    BY <2>1, LenProperties
  <2> QED
    BY <1>3, <1>4, <2>2
<1> QED
  BY <1>3, <1>8, <1>9 DEF S

(* And it lists them once each, and nothing else.                          *)
LEMMA OrderIsProper ==
  ASSUME NEW p \in Programs, NEW v,
         NEW s \in Orderings(OutEdges(EdgesOf(p) \cup SelfEdges(p), v))
  PROVE  /\ Len(s) \in Nat
         /\ \A k \in 1 .. Len(s) : s[k] \in OutEdges(EdgesOf(p) \cup SelfEdges(p), v)
         /\ \A m, n \in 1 .. Len(s) : s[m] = s[n] => m = n
<1> DEFINE S == OutEdges(EdgesOf(p) \cup SelfEdges(p), v)
           N == Cardinality(S)
<1>1. S \in SUBSET (EdgesOf(p) \cup SelfEdges(p))
  BY DEF OutEdges
<1>2. IsFiniteSet(S)
  BY <1>1, ProgramsAssumption, FS_Subset
<1>3. N \in Nat
  BY <1>2, FS_CardinalityType
<1>4. /\ s \in [1 .. N -> S]
      /\ \A m, n \in 1 .. N : s[m] = s[n] => m = n
  BY DEF Orderings
<1> HIDE DEF S, N
<1>5. Len(s) = N
  <2>1. s \in Seq(S)
    BY <1>3, <1>4, SeqDef
  <2>2. Len(s) \in Nat /\ DOMAIN s = 1 .. Len(s)
    BY <2>1, LenProperties
  <2> QED
    BY <1>3, <1>4, <2>2
<1> QED
  BY <1>3, <1>4, <1>5 DEF S

LEMMA StackTop ==
  ASSUME NEW S, NEW s \in Seq(S), s # <<>>
  PROVE  /\ Len(s) \in Nat \ {0} /\ Last(s) \in S
         /\ Front(s) \in Seq(S) /\ Len(Front(s)) = Len(s) - 1
         /\ \A n \in 1 .. Len(s) - 1 : Front(s)[n] = s[n]
<1>1. Len(s) \in Nat /\ Len(s) # 0 /\ \A n \in 1 .. Len(s) : s[n] \in S
  BY EmptySeq, LenProperties, ElementOfSeq
<1> DEFINE m == Len(s) - 1
<1>2. m \in Nat /\ \A n \in 1 .. m : s[n] \in S
  BY <1>1
<1>3. /\ SubSeq(s, 1, m) \in Seq(S)
      /\ Len(SubSeq(s, 1, m)) = IF 1 <= m THEN m - 1 + 1 ELSE 0
      /\ \A i \in 1 .. m - 1 + 1 : SubSeq(s, 1, m)[i] = s[1 + i - 1]
  <2> HIDE DEF m
  <2> QED BY <1>2, SubSeqProperties
<1>4. Len(SubSeq(s, 1, m)) = m /\ \A i \in 1 .. m : SubSeq(s, 1, m)[i] = s[i]
  <2> HIDE DEF m
  <2> QED BY <1>2, <1>3
<1> QED
  BY <1>1, <1>3, <1>4 DEF Front, Last

LEMMA SeqRetyped ==
  ASSUME NEW S, NEW T, NEW s \in Seq(S), \A n \in 1 .. Len(s) : s[n] \in T
  PROVE  s \in Seq(T)
<1>1. PICK m \in Nat : s \in [1 .. m -> S]
  BY SeqDef
<1>2. DOMAIN s = 1 .. Len(s) /\ Len(s) \in Nat
  BY LenProperties
<1>3. s \in [1 .. Len(s) -> T]
  BY <1>1, <1>2
<1> QED
  BY <1>2, <1>3, SeqDef

(* The stack once the vertex on top has passed one more edge.              *)
LEMMA AdvancedGood ==
  ASSUME DotInv, MoreEdges
  PROVE  /\ Advanced \in Seq([v : DOMAIN order, at : Nat]) /\ Len(Advanced) = Len(dfs)
         /\ Len(dfs) \in Nat \ {0} /\ Here \in DOMAIN order
         /\ Last(dfs).at + 1 \in 1 .. Len(order[Here])
         /\ \A n \in 1 .. Len(dfs) : Advanced[n].v = dfs[n].v
         /\ \A n \in 1 .. Len(dfs) : n # Len(dfs) => Advanced[n].at = dfs[n].at
         /\ Advanced[Len(dfs)].at = Last(dfs).at + 1
<1> DEFINE E == [v : DOMAIN order, at : Nat]
<1>1. dfs \in Seq(E) /\ dfs # <<>> /\ Last(dfs).at < Len(order[Here])
  BY DEF DotInv, StackOK, MoreEdges
<1>2. Len(dfs) \in Nat \ {0} /\ Last(dfs) \in E /\ Len(dfs) \in DOMAIN dfs
  <2> HIDE DEF E
  <2>1. Len(dfs) \in Nat \ {0} /\ Last(dfs) \in E
    BY <1>1, StackTop
  <2>2. DOMAIN dfs = 1 .. Len(dfs)
    BY <1>1, LenProperties
  <2> QED
    BY <2>1, <2>2
<1>3. Here \in DOMAIN order /\ Last(dfs).at \in Nat
  BY <1>2 DEF Here
<1>4. Len(order[Here]) \in Nat
  BY <1>3, OrderListsAll DEF DotInv, GivenOK, OrderOK
<1>5. /\ DOMAIN Advanced = DOMAIN dfs
      /\ Advanced[Len(dfs)] = [Last(dfs) EXCEPT !.at = @ + 1]
      /\ \A n \in DOMAIN dfs : n # Len(dfs) => Advanced[n] = dfs[n]
  BY <1>1, <1>2 DEF Advanced, Last
<1>6. Advanced[Len(dfs)] \in E /\ Advanced[Len(dfs)].v = Last(dfs).v
      /\ Advanced[Len(dfs)].at = Last(dfs).at + 1
  BY <1>2, <1>5
<1>7. DOMAIN dfs = 1 .. Len(dfs) /\ \A n \in 1 .. Len(dfs) : dfs[n] \in E
  BY <1>1, LenProperties, ElementOfSeq
<1>8. Advanced \in [1 .. Len(dfs) -> E]
  <2>1. \A n \in 1 .. Len(dfs) : Advanced[n] \in E
    BY <1>5, <1>6, <1>7
  <2>2. Advanced = [n \in 1 .. Len(dfs) |-> Advanced[n]]
    BY <1>5, <1>7 DEF Advanced
  <2> QED
    BY <2>1, <2>2
<1>9. Advanced \in Seq(E) /\ Len(Advanced) = Len(dfs)
  <2>1. Advanced \in Seq(E)
    <3> HIDE DEF E
    <3> QED BY <1>2, <1>8, SeqDef
  <2>2. Len(Advanced) \in Nat /\ DOMAIN Advanced = 1 .. Len(Advanced)
    BY <2>1, LenProperties
  <2> QED
    BY <1>2, <1>5, <1>7, <2>1, <2>2
<1> QED
  BY <1>1, <1>2, <1>3, <1>4, <1>5, <1>6, <1>7, <1>9 DEF Last

(* Passing an edge that is done with keeps the stack good.                 *)
LEMMA PassGood ==
  ASSUME DotInv, MoreEdges, NEW c, DOMAIN color \subseteq DOMAIN c, DoneIn(Examined, c)
  PROVE  StackOK(Advanced, order) /\ PassedOK(Advanced, order, c)
         /\ \A v : (\E n \in 1 .. Len(Advanced) : v = Advanced[n].v)
                     <=> (\E n \in 1 .. Len(dfs) : v = dfs[n].v)
<1> DEFINE L == Len(dfs)
<1>1. StackOK(Advanced, order)
  <2>1. Advanced[L].at <= Len(order[Here]) /\ Advanced[L].v = Here
    BY AdvancedGood DEF Here, Last
  <2> QED
    BY <2>1, AdvancedGood DEF DotInv, StackOK
<1>2. PassedOK(Advanced, order, c)
  <2> SUFFICES ASSUME NEW n \in 1 .. L, NEW k \in 1 .. Advanced[n].at
               PROVE  DoneIn(order[Advanced[n].v][k], c)
    BY AdvancedGood DEF PassedOK
  <2>1. CASE n # L
    BY <2>1, AdvancedGood DEF DotInv, PassedOK, DoneIn
  <2>2. CASE n = L
    <3>1. Advanced[n].v = Here /\ dfs[n].at = Last(dfs).at /\ dfs[n].v = Here
      BY <2>2, AdvancedGood DEF Here, Last
    <3>2. dfs[n].at \in Nat
      <4>1. dfs \in Seq([v : DOMAIN order, at : Nat])
        BY DEF DotInv, StackOK
      <4>2. dfs[n] \in [v : DOMAIN order, at : Nat]
        BY <4>1, ElementOfSeq
      <4> QED
        BY <4>2
    <3>3. k \in 1 .. dfs[n].at \/ k = Last(dfs).at + 1
      BY <2>2, <3>1, <3>2, AdvancedGood
    <3>4. CASE k \in 1 .. dfs[n].at
      BY <3>1, <3>4 DEF DotInv, PassedOK, DoneIn
    <3>5. CASE k = Last(dfs).at + 1
      BY <3>1, <3>5 DEF Examined
    <3> QED
      BY <3>3, <3>4, <3>5
  <2> QED
    BY <2>1, <2>2
<1>3. \A v : (\E n \in 1 .. Len(Advanced) : v = Advanced[n].v)
               <=> (\E n \in 1 .. Len(dfs) : v = dfs[n].v)
  BY AdvancedGood
<1> QED
  BY <1>1, <1>2, <1>3

-----------------------------------------------------------------------------
(* The program does not change, so the parts may be read in the old one.   *)
LEMMA InvariantNext ==
  ASSUME UNCHANGED given, GivenOK, OrderOK(order'), StackOK(dfs', order'),
         PassedOK(dfs', order', color'), GrayOK(dfs', color'), BlackOK(color')
  PROVE  DotInv'
<1>1. prog' = prog /\ edges' = edges
  BY DEF given
<1>2. OrderOK(order)' /\ StackOK(dfs, order)' /\ GrayOK(dfs, color)' /\ GivenOK'
  BY <1>1 DEF OrderOK, StackOK, GrayOK, GivenOK
<1>3. PassedOK(dfs, order, color)' /\ BlackOK(color)'
  BY <1>1 DEF PassedOK, BlackOK, DoneIn, Ignored
<1> QED
  BY <1>2, <1>3 DEF DotInv

LEMMA InitGood == Init => DotInv
<1> SUFFICES ASSUME Init PROVE DotInv
  OBVIOUS
<1> DEFINE v0 == EntryOf(func)
<1>1. PICK s \in Orderings(OutEdges(edges, v0)) : order = [w \in {v0} |-> s]
  <2>1. PICK s \in Orderings(OutEdges(edges, v0)) :
          order = [w \in DOMAIN <<>> \cup {v0} |-> IF w = v0 THEN s ELSE <<>>[w]]
    <3>1. v0 \notin DOMAIN <<>>
      OBVIOUS
    <3>2. order \in OrdersWith(edges, <<>>, v0)
      BY DEF Init
    <3> HIDE DEF v0
    <3> QED
      BY <3>1, <3>2 DEF OrdersWith
  <2>2. DOMAIN <<>> \cup {v0} = {v0}
    OBVIOUS
  <2>3. order = [w \in {v0} |-> s]
    BY <2>1, <2>2
  <2> QED
    BY <2>3
<1>2. GivenOK /\ OrderOK(order)
  BY <1>1 DEF Init, GivenOK, OrderOK
<1>3. Len(order[v0]) \in Nat
  BY <1>1, <1>2, OrderListsAll DEF GivenOK
<1>4. /\ dfs = <<[v |-> v0, at |-> 0]>> /\ Len(dfs) = 1 /\ 1 .. Len(dfs) = {1}
      /\ dfs[1] = [v |-> v0, at |-> 0]
  BY DEF Init
<1>5. color = [v \in {v0} |-> "gray"]
  BY DEF Init
<1> HIDE DEF v0
<1>6. StackOK(dfs, order)
  <2>1. v0 \in DOMAIN order
    BY <1>1
  <2> QED
    BY <1>3, <1>4, <2>1 DEF StackOK
<1>7. PassedOK(dfs, order, color) /\ GrayOK(dfs, color) /\ BlackOK(color)
  BY <1>4, <1>5 DEF PassedOK, GrayOK, BlackOK
<1> QED
  BY <1>2, <1>6, <1>7 DEF DotInv

(* Both ways to pass an edge: it is ignored, or its end has been found.    *)
LEMMA PassingGood == DotInv /\ (IgnoreEdge \/ OtherEdge) => DotInv'
<1> SUFFICES ASSUME DotInv, IgnoreEdge \/ OtherEdge PROVE DotInv'
  OBVIOUS
<1>1. MoreEdges /\ dfs' = Advanced /\ color' = color /\ order' = order /\ UNCHANGED given
  BY DEF IgnoreEdge, OtherEdge
<1>2. DoneIn(Examined, color)
  BY DEF IgnoreEdge, OtherEdge, ColorOf, DoneIn
<1>3. /\ StackOK(Advanced, order) /\ PassedOK(Advanced, order, color)
      /\ \A v : (\E n \in 1 .. Len(Advanced) : v = Advanced[n].v)
                  <=> (\E n \in 1 .. Len(dfs) : v = dfs[n].v)
  BY <1>1, <1>2, PassGood
<1>4. GrayOK(Advanced, color)
  BY <1>3 DEF DotInv, GrayOK
<1> QED
  BY <1>1, <1>3, <1>4, InvariantNext DEF DotInv

LEMMA FinishVertexGood == DotInv /\ FinishVertex => DotInv'
<1> SUFFICES ASSUME DotInv, FinishVertex PROVE DotInv'
  OBVIOUS
<1> DEFINE E == [v : DOMAIN order, at : Nat]
           L == Len(dfs)
           c == Painted(Here, "black")
<1>1. /\ dfs # <<>> /\ ~(Last(dfs).at < Len(order[Here]))
      /\ dfs' = Front(dfs) /\ color' = c /\ order' = order /\ UNCHANGED given
  BY DEF FinishVertex, MoreEdges
<1>2. dfs \in Seq(E) /\ \A n \in 1 .. L : dfs[n].at <= Len(order[dfs[n].v])
  BY DEF DotInv, StackOK
<1> HIDE DEF E
<1>3. /\ L \in Nat \ {0} /\ Last(dfs) \in E /\ Last(dfs) = dfs[L]
      /\ Front(dfs) \in Seq(E) /\ Len(Front(dfs)) = L - 1
      /\ \A n \in 1 .. L - 1 : Front(dfs)[n] = dfs[n]
  BY <1>1, <1>2, StackTop DEF Last
<1>4. Here \in DOMAIN order /\ Last(dfs).at \in Nat /\ dfs[L].v = Here
  BY <1>3 DEF E, Here
<1>5. /\ Len(order[Here]) \in Nat
      /\ \A e \in OutEdges(edges, Here) :
           \E k \in 1 .. Len(order[Here]) : order[Here][k] = e
  <2>1. prog \in Programs /\ edges = EdgesOf(prog) \cup SelfEdges(prog)
    BY DEF DotInv, GivenOK
  <2>2. order[Here] \in Orderings(OutEdges(edges, Here))
    BY <1>4 DEF DotInv, OrderOK
  <2>3. \A s \in Orderings(OutEdges(EdgesOf(prog) \cup SelfEdges(prog), Here)) :
          /\ Len(s) \in Nat
          /\ \A e \in OutEdges(EdgesOf(prog) \cup SelfEdges(prog), Here) :
               \E k \in 1 .. Len(s) : s[k] = e
    BY <2>1, OrderListsAll
  <2> QED
    BY <2>1, <2>2, <2>3
<1>6. Last(dfs).at = Len(order[Here])
  BY <1>1, <1>2, <1>3, <1>4, <1>5
<1>7. \A e \in OutEdges(edges, Here) : DoneIn(e, color)
  BY <1>3, <1>4, <1>5, <1>6 DEF DotInv, PassedOK
<1>8. \A m, n \in 1 .. L : dfs[m].v = dfs[n].v => m = n
  BY DEF DotInv, StackOK
<1>9. /\ Here \in DOMAIN color /\ DOMAIN c = DOMAIN color /\ c[Here] = "black"
      /\ \A v \in DOMAIN color : v # Here => c[v] = color[v]
  <2>1. L \in 1 .. L
    BY <1>3
  <2>2. Here \in DOMAIN color
    BY <1>4, <2>1 DEF DotInv, GrayOK
  <2>3. DOMAIN color \cup {Here} = DOMAIN color
    BY <2>2
  <2> QED
    BY <2>2, <2>3 DEF Painted
<1> HIDE DEF c, L
<1>10. \A e : DoneIn(e, color) => DoneIn(e, c)
  BY <1>9 DEF DoneIn
<1>11. StackOK(Front(dfs), order)
  <2>1. \A n \in 1 .. L - 1 : n \in 1 .. L
    BY <1>3
  <2> QED
    BY <1>2, <1>3, <1>8, <2>1 DEF StackOK, E
<1>12. PassedOK(Front(dfs), order, c)
  BY <1>3, <1>10 DEF DotInv, PassedOK, L
<1>13. GrayOK(Front(dfs), c)
  <2>1. \A v : (\E n \in 1 .. L - 1 : v = dfs[n].v)
                 <=> v # Here /\ (\E n \in 1 .. L : v = dfs[n].v)
    <3>1. \A n \in 1 .. L : n \in 1 .. L - 1 <=> dfs[n].v # Here
      BY <1>3, <1>4, <1>8
    <3>2. 1 .. L - 1 \subseteq 1 .. L
      BY <1>3
    <3> QED
      BY <3>1, <3>2
  <2>2. \A v : v \in DOMAIN c /\ c[v] = "gray"
                 <=> v # Here /\ v \in DOMAIN color /\ color[v] = "gray"
    BY <1>9
  <2>3. \A v : (\E n \in 1 .. Len(Front(dfs)) : v = Front(dfs)[n].v)
                 <=> (\E n \in 1 .. L - 1 : v = dfs[n].v)
    BY <1>3
  <2>4. \A v \in DOMAIN c : c[v] \in {"gray", "black"}
    BY <1>9 DEF DotInv, GrayOK
  <2>5. \A v : v \in DOMAIN color /\ color[v] = "gray" <=> \E n \in 1 .. L : v = dfs[n].v
    BY DEF DotInv, GrayOK, L
  <2>6. \A v : v \in DOMAIN c /\ c[v] = "gray"
                 <=> \E n \in 1 .. Len(Front(dfs)) : v = Front(dfs)[n].v
    <3> TAKE v
    <3> DEFINE grayNow == v \in DOMAIN c /\ c[v] = "gray"
               gray    == v \in DOMAIN color /\ color[v] = "gray"
               onNow   == \E n \in 1 .. Len(Front(dfs)) : v = Front(dfs)[n].v
               on      == \E n \in 1 .. L : v = dfs[n].v
    <3>1. onNow <=> v # Here /\ on
      BY <2>1, <2>3
    <3>2. grayNow <=> v # Here /\ gray
      BY <2>2
    <3>3. gray <=> on
      BY <2>5
    <3> HIDE DEF grayNow, gray, onNow, on
    <3>4. grayNow <=> onNow
      BY <3>1, <3>2, <3>3
    <3> QED
      BY <3>4 DEF grayNow, onNow
  <2> QED
    BY <2>4, <2>6 DEF GrayOK
<1>14. BlackOK(c)
  BY <1>7, <1>9, <1>10 DEF DotInv, BlackOK
<1> QED
  BY <1>1, <1>11, <1>12, <1>13, <1>14, InvariantNext DEF DotInv

LEMMA TreeEdgeGood == DotInv /\ TreeEdge => DotInv'
<1> SUFFICES ASSUME DotInv, TreeEdge PROVE DotInv'
  OBVIOUS
<1> DEFINE w == Examined.to
           c == Painted(w, "gray")
           L == Len(dfs)
           top == [v |-> w, at |-> 0]
<1>1. /\ MoreEdges /\ ColorOf(w) = "white" /\ UNCHANGED given
      /\ color' = c /\ order' \in OrdersWith(edges, order, w)
      /\ dfs' = Append(Advanced, top)
  BY DEF TreeEdge
<1>2. w \notin DOMAIN color
  BY <1>1 DEF ColorOf, DotInv, GrayOK
<1>3. /\ DOMAIN c = DOMAIN color \cup {w} /\ c[w] = "gray"
      /\ \A v \in DOMAIN color : c[v] = color[v]
  BY <1>2 DEF Painted
<1> HIDE DEF w, c
<1>4. /\ DOMAIN order' = DOMAIN order \cup {w} /\ OrderOK(order')
      /\ \A v \in DOMAIN order : order'[v] = order[v]
  <2>1. CASE w \in DOMAIN order
    BY <1>1, <2>1 DEF OrdersWith, DotInv
  <2>2. CASE w \notin DOMAIN order
    <3>1. PICK s \in Orderings(OutEdges(edges, w)) :
            order' = [x \in DOMAIN order \cup {w} |-> IF x = w THEN s ELSE order[x]]
      BY <1>1, <2>2 DEF OrdersWith
    <3> QED
      BY <2>2, <3>1 DEF DotInv, OrderOK
  <2> QED
    BY <2>1, <2>2
<1>5. DoneIn(Examined, c) /\ \A e : DoneIn(e, color) => DoneIn(e, c)
  BY <1>3 DEF DoneIn, w
<1>6. /\ StackOK(Advanced, order) /\ PassedOK(Advanced, order, c)
      /\ \A v : (\E n \in 1 .. Len(Advanced) : v = Advanced[n].v)
                  <=> (\E n \in 1 .. L : v = dfs[n].v)
  BY <1>1, <1>3, <1>5, PassGood
<1>7. L \in Nat /\ Len(Advanced) = L
      /\ \A n \in 1 .. L : Advanced[n] \in [v : DOMAIN order, at : Nat]
  <2>1. Advanced \in Seq([v : DOMAIN order, at : Nat]) /\ L \in Nat /\ Len(Advanced) = L
    BY <1>1, AdvancedGood
  <2> QED
    BY <2>1, ElementOfSeq
<1>8. /\ dfs' \in Seq([v : DOMAIN order', at : Nat]) /\ Len(dfs') = L + 1
      /\ dfs'[L + 1] = top /\ \A n \in 1 .. L : dfs'[n] = Advanced[n]
  <2>1. Advanced \in Seq([v : DOMAIN order', at : Nat])
    <3>1. \A n \in 1 .. L : Advanced[n] \in [v : DOMAIN order', at : Nat]
      BY <1>4, <1>7
    <3>2. Advanced \in Seq([v : DOMAIN order, at : Nat])
      BY <1>6 DEF StackOK
    <3> QED
      BY <1>7, <3>1, <3>2, SeqRetyped
  <2>2. top \in [v : DOMAIN order', at : Nat]
    BY <1>4
  <2> HIDE DEF top
  <2> QED
    BY <1>1, <1>7, <2>1, <2>2, AppendProperties
<1>9. \A n \in 1 .. L + 1 : n \in 1 .. L \/ n = L + 1
  BY <1>7
<1>10. \A n \in 1 .. L : Advanced[n].v \in DOMAIN color /\ Advanced[n].v # w
  <2> SUFFICES ASSUME NEW n \in 1 .. L PROVE Advanced[n].v \in DOMAIN color /\ Advanced[n].v # w
    OBVIOUS
  <2>1. PICK u : u = Advanced[n].v
    OBVIOUS
  <2>2. \E k \in 1 .. L : u = dfs[k].v
    BY <1>6, <1>7, <2>1
  <2>3. u \in DOMAIN color
    BY <2>2 DEF DotInv, GrayOK
  <2> QED
    BY <1>2, <2>1, <2>3
<1> HIDE DEF L
<1>11. StackOK(dfs', order')
  <2>1. \A m, n \in 1 .. Len(dfs') : dfs'[m].v = dfs'[n].v => m = n
    <3> SUFFICES ASSUME NEW m \in 1 .. L + 1, NEW n \in 1 .. L + 1, dfs'[m].v = dfs'[n].v
                 PROVE  m = n
      BY <1>8
    <3>1. CASE m \in 1 .. L /\ n \in 1 .. L
      BY <1>6, <1>7, <1>8, <3>1 DEF StackOK
    <3>2. CASE m = L + 1 /\ n \in 1 .. L
      BY <1>8, <1>10, <3>2
    <3>3. CASE m \in 1 .. L /\ n = L + 1
      BY <1>8, <1>10, <3>3
    <3> QED
      BY <1>9, <3>1, <3>2, <3>3
  <2>2. Len(order'[w]) \in Nat
    BY <1>4, OrderListsAll DEF DotInv, GivenOK, OrderOK
  <2>3. \A n \in 1 .. Len(dfs') : dfs'[n].at <= Len(order'[dfs'[n].v])
    <3> SUFFICES ASSUME NEW n \in 1 .. L + 1
                 PROVE  dfs'[n].at <= Len(order'[dfs'[n].v])
      BY <1>8
    <3>1. CASE n \in 1 .. L
      BY <1>4, <1>6, <1>7, <1>8, <3>1 DEF StackOK
    <3>2. CASE n = L + 1
      BY <1>8, <2>2, <3>2
    <3> QED
      BY <1>9, <3>1, <3>2
  <2> QED
    BY <1>8, <2>1, <2>3 DEF StackOK
<1>12. PassedOK(dfs', order', c)
  <2> SUFFICES ASSUME NEW n \in 1 .. L + 1, NEW k \in 1 .. dfs'[n].at
               PROVE  DoneIn(order'[dfs'[n].v][k], c)
    BY <1>8 DEF PassedOK
  <2>1. CASE n \in 1 .. L
    BY <1>4, <1>6, <1>7, <1>8, <2>1 DEF PassedOK
  <2>2. CASE n = L + 1
    BY <1>8, <2>2
  <2> QED
    BY <1>9, <2>1, <2>2
<1>13. GrayOK(dfs', c)
  <2>1. \A v : (\E n \in 1 .. Len(dfs') : v = dfs'[n].v)
                 <=> v = w \/ (\E n \in 1 .. L : v = Advanced[n].v)
    <3>1. L + 1 \in 1 .. Len(dfs') /\ 1 .. L \subseteq 1 .. Len(dfs')
      BY <1>7, <1>8
    <3>2. dfs'[L + 1].v = w
      BY <1>8
    <3> QED
      BY <1>8, <1>9, <3>1, <3>2
  <2>2. \A v : v \in DOMAIN c /\ c[v] = "gray"
                 <=> v = w \/ (v \in DOMAIN color /\ color[v] = "gray")
    BY <1>3
  <2>3. \A v \in DOMAIN c : c[v] \in {"gray", "black"}
    BY <1>3 DEF DotInv, GrayOK
  <2>4. \A v : v \in DOMAIN color /\ color[v] = "gray" <=> \E n \in 1 .. L : v = Advanced[n].v
    <3> TAKE v
    <3>1. v \in DOMAIN color /\ color[v] = "gray" <=> \E n \in 1 .. L : v = dfs[n].v
      BY DEF DotInv, GrayOK, L
    <3>2. (\E n \in 1 .. L : v = Advanced[n].v) <=> (\E n \in 1 .. L : v = dfs[n].v)
      BY <1>6, <1>7
    <3> QED
      BY <3>1, <3>2
  <2>5. \A v : v \in DOMAIN c /\ c[v] = "gray" <=> \E n \in 1 .. Len(dfs') : v = dfs'[n].v
    <3> TAKE v
    <3> DEFINE grayNow == v \in DOMAIN c /\ c[v] = "gray"
               gray    == v \in DOMAIN color /\ color[v] = "gray"
               onNow   == \E n \in 1 .. Len(dfs') : v = dfs'[n].v
               on      == \E n \in 1 .. L : v = Advanced[n].v
    <3>1. onNow <=> v = w \/ on
      BY <2>1
    <3>2. grayNow <=> v = w \/ gray
      BY <2>2
    <3>3. gray <=> on
      BY <2>4
    <3> HIDE DEF grayNow, gray, onNow, on
    <3>4. grayNow <=> onNow
      BY <3>1, <3>2, <3>3
    <3> QED
      BY <3>4 DEF grayNow, onNow
  <2> QED
    BY <2>3, <2>5 DEF GrayOK
<1>14. BlackOK(c)
  BY <1>3, <1>5 DEF DotInv, BlackOK
<1> QED
  BY <1>1, <1>4, <1>11, <1>12, <1>13, <1>14, InvariantNext DEF DotInv

-----------------------------------------------------------------------------
(* The invariant holds at all times.                                       *)
THEOREM DotInvariant == Spec => []DotInv
<1>1. DotInv /\ UNCHANGED vars => DotInv'
  <2> SUFFICES ASSUME DotInv, UNCHANGED vars PROVE DotInv'
    OBVIOUS
  <2>1. UNCHANGED given /\ order' = order /\ dfs' = dfs /\ color' = color
    BY DEF vars
  <2> QED
    BY <2>1, InvariantNext DEF DotInv
<1>2. DotInv /\ [Next]_vars => DotInv'
  BY <1>1, PassingGood, TreeEdgeGood, FinishVertexGood DEF Next, Draw, DrawingDone
<1> QED
  BY <1>2, InitGood, PTL DEF Spec

(* In every drawing gray are the vertices on the stack, each once, and     *)
(* what a finished vertex leads to has been discovered.                    *)
THEOREM ColorsAreTheStack == Spec => []ColorsTellStack
<1>1. DotInv => ColorsTellStack
  <2> SUFFICES ASSUME DotInv PROVE ColorsTellStack
    OBVIOUS
  <2>1. DOMAIN dfs = 1 .. Len(dfs)
    BY LenProperties DEF DotInv, StackOK
  <2>2. \A m, n \in DOMAIN dfs : dfs[m].v = dfs[n].v => m = n
    BY <2>1 DEF DotInv, StackOK
  <2>3. {v \in DOMAIN color : color[v] = "gray"} = {dfs[n].v : n \in DOMAIN dfs}
    BY <2>1 DEF DotInv, GrayOK
  <2>4. \A v \in DOMAIN color : color[v] = "black" =>
          \A e \in OutEdges(edges, v) : Ignored(e) \/ e.to \in DOMAIN color
    BY DEF DotInv, BlackOK, DoneIn
  <2> QED
    BY <2>2, <2>3, <2>4 DEF ColorsTellStack
<1> QED
  BY <1>1, DotInvariant, PTL

-----------------------------------------------------------------------------
(* What has been written.  A vertex has its line once it is discovered; an *)
(* edge has its line once it is passed: its start is finished, or on the   *)
(* stack with the edge among those already looked at.                      *)

Passed(e, s, o, c) ==
  /\ e.from \in DOMAIN c
  /\ \/ c[e.from] = "black"
     \/ \E n \in 1 .. Len(s) :
          s[n].v = e.from /\ \E k \in 1 .. s[n].at : o[e.from][k] = e

NodesFor(c) == [v \in VerticesOf(prog) |-> IF v \in DOMAIN c THEN 1 ELSE 0]
LinesFor(s, o, c) == [e \in edges |-> IF ~Ignored(e) /\ Passed(e, s, o, c) THEN 1 ELSE 0]

WrittenInv ==
  /\ func \in Drawn \cap DOMAIN prog
  /\ DOMAIN order \subseteq VerticesOf(prog)
  /\ EntryOf(func) \in DOMAIN color /\ DOMAIN color \subseteq Shown
  /\ nodes = NodesFor(color)
  /\ lines = LinesFor(dfs, order, color)

(* The edges with a line are those of a function's own graph: all others   *)
(* are ignored, and none of them is.                                       *)
LEMMA OwnAreDrawn ==
  ASSUME GivenOK, NEW e \in edges
  PROVE  ~Ignored(e) <=> e \in OwnEdges(prog)
<1>1. edges = OwnEdges(prog) \cup LinkEdges(prog) \cup SelfEdges(prog)
  BY DEF GivenOK, EdgesOf
<1>2. ASSUME e \in OwnEdges(prog)
      PROVE  ~Ignored(e)
  <2>1. PICK f \in DOMAIN prog :
          e \in {[from |-> <<f, a.from>>, to |-> <<f, a.to>>, kind |-> a.kind, call |-> NoCall]
                  : a \in prog[f].arcs}
    BY <1>2 DEF OwnEdges
  <2>2. PICK a \in prog[f].arcs :
          e = [from |-> <<f, a.from>>, to |-> <<f, a.to>>, kind |-> a.kind, call |-> NoCall]
    BY <2>1
  <2>3. a.kind \in ArcKind /\ a.to # 0 /\ a.from # 1
    BY ProgramsAssumption DEF GivenOK
  <2>4. e.kind = a.kind /\ e.to = <<f, a.to>> /\ e.from = <<f, a.from>>
    BY <2>2
  <2>5. e.kind \notin {"call", "return"}
    BY <2>3, <2>4 DEF ArcKind
  <2>6. \A g : e.to # EntryOf(g) /\ e.from # ExitOf(g)
    BY <2>3, <2>4 DEF EntryOf, ExitOf
  <2> QED
    BY <2>5, <2>6 DEF Ignored
<1>3. ASSUME e \in LinkEdges(prog)
      PROVE  Ignored(e)
  <2>1. PICK c \in Resolved(prog) :
          e \in {[from |-> c, to |-> EntryOf(Callee(prog, c)), kind |-> "call", call |-> c],
                 [from |-> ExitOf(Callee(prog, c)), to |-> ReturnPoint(prog, c),
                  kind |-> "return", call |-> c]}
    BY <1>3 DEF LinkEdges
  <2>2. e.kind \in {"call", "return"}
    BY <2>1
  <2> QED
    BY <2>2 DEF Ignored
<1>4. ASSUME e \in SelfEdges(prog)
      PROVE  Ignored(e)
  <2>1. PICK f \in DOMAIN prog :
          e \in {[from |-> v, to |-> v, kind |-> "back", call |-> NoCall]
                   : v \in {EntryOf(f), ExitOf(f)}}
    BY <1>4 DEF SelfEdges
  <2>2. e.to = EntryOf(f) \/ e.from = ExitOf(f)
    BY <2>1
  <2> QED
    BY <2>2 DEF Ignored
<1> QED
  BY <1>1, <1>2, <1>3, <1>4

(* What is shown is closed: an own edge of a vertex shown leads to one.    *)
LEMMA ShownClosed ==
  ASSUME GivenOK, func \in DOMAIN prog
  PROVE  /\ EntryOf(func) \in Shown
         /\ \A e \in OwnEdges(prog) : e.from \in Shown => e.to \in Shown
<1> DEFINE N == {m \in Numbers : \A S \in SUBSET Numbers : Closed(S) => m \in S}
<1>1. \A v : v \in Shown <=> \E n \in N : v = <<func, n>>
  BY DEF Shown
<1>2. 0 \in N
  BY DEF Numbers, Closed
<1>3. \A a \in Arcs : a.from \in N => a.to \in N
  BY DEF Numbers, Closed
<1> HIDE DEF N
<1>4. ASSUME NEW e \in OwnEdges(prog), e.from \in Shown
      PROVE  e.to \in Shown
  <2>1. PICK f \in DOMAIN prog :
          e \in {[from |-> <<f, a.from>>, to |-> <<f, a.to>>, kind |-> a.kind, call |-> NoCall]
                  : a \in prog[f].arcs}
    BY <1>4 DEF OwnEdges
  <2>2. PICK a \in prog[f].arcs :
          e = [from |-> <<f, a.from>>, to |-> <<f, a.to>>, kind |-> a.kind, call |-> NoCall]
    BY <2>1
  <2>3. e.to = <<f, a.to>> /\ e.from = <<f, a.from>>
    BY <2>2
  <2>4. f = func /\ a.from \in N
    BY <1>1, <1>4, <2>3
  <2>5. a.to \in N
    BY <1>3, <2>4 DEF Arcs
  <2> QED
    BY <1>1, <2>3, <2>4, <2>5
<1> QED
  BY <1>1, <1>2, <1>4 DEF EntryOf

(* And it is the least such set.                                           *)
LEMMA ShownLeast ==
  ASSUME GivenOK, func \in DOMAIN prog, NEW D, EntryOf(func) \in D,
         \A e \in OwnEdges(prog) : e.from \in D => e.to \in D
  PROVE  Shown \subseteq D
<1> DEFINE S == {n \in Numbers : <<func, n>> \in D}
<1>1. 0 \in S
  BY DEF Numbers, EntryOf
<1>2. ASSUME NEW a \in Arcs, a.from \in S
      PROVE  a.to \in S
  <2> DEFINE e == [from |-> <<func, a.from>>, to |-> <<func, a.to>>, kind |-> a.kind,
                   call |-> NoCall]
  <2> DEFINE here == {[from |-> <<func, b.from>>, to |-> <<func, b.to>>, kind |-> b.kind,
                       call |-> NoCall] : b \in prog[func].arcs}
  <2>1. e \in OwnEdges(prog)
    <3>1. e \in here
      BY DEF Arcs
    <3>2. here \subseteq OwnEdges(prog)
      BY Zenon DEF OwnEdges
    <3> QED
      BY <3>1, <3>2
  <2>2. <<func, a.to>> \in D
    BY <1>2, <2>1
  <2> QED
    BY <2>2 DEF Numbers
<1>3. S \in SUBSET Numbers /\ Closed(S)
  BY <1>1, <1>2 DEF Closed
<1>4. \A n \in {m \in Numbers : \A T \in SUBSET Numbers : Closed(T) => m \in T} : n \in S
  BY <1>3
<1> QED
  BY <1>4 DEF Shown

LEMMA EndsAreVertices ==
  ASSUME GivenOK, func \in DOMAIN prog
  PROVE  /\ EntryOf(func) \in VerticesOf(prog)
         /\ \A e \in OwnEdges(prog) : e.from \in VerticesOf(prog) /\ e.to \in VerticesOf(prog)
<1>1. EntryOf(func) \in VerticesOf(prog)
  BY DEF VerticesOf
<1>2. ASSUME NEW e \in OwnEdges(prog)
      PROVE  e.from \in VerticesOf(prog) /\ e.to \in VerticesOf(prog)
  <2>1. e \in EdgesOf(prog)
    BY DEF EdgesOf
  <2>2. {e.from, e.to} \subseteq UNION {{x.from, x.to} : x \in EdgesOf(prog)}
    BY <2>1, Zenon
  <2> QED
    BY <2>2 DEF VerticesOf
<1> QED
  BY <1>1, <1>2

(* Who is looked at next.                                                  *)
LEMMA ExaminedIsNew ==
  ASSUME DotInv, MoreEdges
  PROVE  /\ Examined \in edges /\ Examined.from = Here
         /\ Here \in DOMAIN color /\ color[Here] = "gray"
         /\ ~Passed(Examined, dfs, order, color)
<1> DEFINE L == Len(dfs)
<1>1. /\ L \in Nat \ {0} /\ Here \in DOMAIN order /\ dfs[L].v = Here
      /\ Last(dfs).at + 1 \in 1 .. Len(order[Here]) /\ dfs[L].at = Last(dfs).at
  BY AdvancedGood DEF Last, Here
<1>2. order[Here] \in Orderings(OutEdges(edges, Here))
  BY <1>1 DEF DotInv, OrderOK
<1>3. /\ Len(order[Here]) \in Nat
      /\ \A k \in 1 .. Len(order[Here]) : order[Here][k] \in OutEdges(edges, Here)
      /\ \A m, n \in 1 .. Len(order[Here]) : order[Here][m] = order[Here][n] => m = n
  <2>1. prog \in Programs /\ edges = EdgesOf(prog) \cup SelfEdges(prog)
    BY DEF DotInv, GivenOK
  <2>2. PICK s \in Orderings(OutEdges(EdgesOf(prog) \cup SelfEdges(prog), Here)) : s = order[Here]
    BY <1>2, <2>1
  <2>3. /\ Len(s) \in Nat
        /\ \A k \in 1 .. Len(s) : s[k] \in OutEdges(EdgesOf(prog) \cup SelfEdges(prog), Here)
        /\ \A m, n \in 1 .. Len(s) : s[m] = s[n] => m = n
    BY <2>1, OrderIsProper
  <2> QED
    BY <2>1, <2>2, <2>3, Zenon
<1>4. Examined \in OutEdges(edges, Here)
  BY <1>1, <1>3 DEF Examined
<1>5. Examined \in edges /\ Examined.from = Here
  BY <1>4 DEF OutEdges
<1>6. L \in 1 .. L
  BY <1>1
<1>7. Here \in DOMAIN color /\ color[Here] = "gray"
  BY <1>1, <1>6 DEF DotInv, GrayOK
<1>8. ~Passed(Examined, dfs, order, color)
  <2> SUFFICES ASSUME NEW n \in 1 .. L, dfs[n].v = Here, NEW k \in 1 .. dfs[n].at,
                      order[Here][k] = Examined
               PROVE  FALSE
    BY <1>5, <1>7 DEF Passed
  <2>1. n = L
    BY <1>1, <1>6 DEF DotInv, StackOK
  <2>2. dfs[L].at \in Nat
    <3>1. dfs \in Seq([v : DOMAIN order, at : Nat])
      BY DEF DotInv, StackOK
    <3>2. dfs[L] \in [v : DOMAIN order, at : Nat]
      BY <1>6, <3>1, ElementOfSeq
    <3> QED
      BY <3>2
  <2>3. k \in 1 .. Len(order[Here]) /\ k # Last(dfs).at + 1
    BY <1>1, <1>3, <2>1, <2>2
  <2> QED
    BY <1>1, <1>3, <2>3 DEF Examined
<1> QED
  BY <1>5, <1>7, <1>8

(* Advancing past an edge passes that edge and no other.                   *)
LEMMA AdvancingPasses ==
  ASSUME DotInv, MoreEdges, NEW e \in edges
  PROVE  Passed(e, Advanced, order, color) <=> Passed(e, dfs, order, color) \/ e = Examined
<1> DEFINE L == Len(dfs)
<1>1. /\ L \in Nat \ {0} /\ Len(Advanced) = L /\ L \in 1 .. L
      /\ dfs[L].v = Here /\ Advanced[L].v = Here
      /\ dfs[L].at = Last(dfs).at /\ Advanced[L].at = Last(dfs).at + 1
      /\ \A n \in 1 .. L : Advanced[n].v = dfs[n].v
      /\ \A n \in 1 .. L : n # L => Advanced[n].at = dfs[n].at
  BY AdvancedGood DEF Last, Here
<1>2. dfs[L].at \in Nat
  <2>1. dfs \in Seq([v : DOMAIN order, at : Nat])
    BY DEF DotInv, StackOK
  <2>2. dfs[L] \in [v : DOMAIN order, at : Nat]
    BY <1>1, <2>1, ElementOfSeq
  <2> QED
    BY <2>2
<1>3. \A m, n \in 1 .. L : dfs[m].v = dfs[n].v => m = n
  BY DEF DotInv, StackOK
<1>4. Examined.from = Here /\ Here \in DOMAIN color
  BY ExaminedIsNew
<1>5. Examined = order[Here][Last(dfs).at + 1]
  BY DEF Examined
<1> DEFINE Seen(s, n) == s[n].v = e.from /\ \E k \in 1 .. s[n].at : order[e.from][k] = e
<1>6. \A n \in 1 .. L : n # L => (Seen(Advanced, n) <=> Seen(dfs, n))
  BY <1>1
<1>7. Seen(Advanced, L) <=> Seen(dfs, L) \/ e = Examined
  <2>1. \A k : k \in 1 .. Last(dfs).at + 1 <=> k \in 1 .. Last(dfs).at \/ k = Last(dfs).at + 1
    BY <1>1, <1>2
  <2>2. Last(dfs).at + 1 \in 1 .. Last(dfs).at + 1
    BY <1>1, <1>2
  <2> QED
    BY <1>1, <1>4, <1>5, <2>1, <2>2
<1>8. Passed(e, Advanced, order, color)
        <=> e.from \in DOMAIN color
              /\ (color[e.from] = "black" \/ \E n \in 1 .. L : Seen(Advanced, n))
  BY <1>1 DEF Passed
<1>9. Passed(e, dfs, order, color)
        <=> e.from \in DOMAIN color
              /\ (color[e.from] = "black" \/ \E n \in 1 .. L : Seen(dfs, n))
  BY DEF Passed
<1> HIDE DEF Seen, L
<1>10. (\E n \in 1 .. L : Seen(Advanced, n)) <=> (\E n \in 1 .. L : Seen(dfs, n)) \/ e = Examined
  BY <1>1, <1>6, <1>7
<1> QED
  BY <1>4, <1>8, <1>9, <1>10

-----------------------------------------------------------------------------
(* What has been written matches what has been passed.                     *)
LEMMA WrittenNext ==
  ASSUME UNCHANGED given, func \in Drawn \cap DOMAIN prog,
         DOMAIN order' \subseteq VerticesOf(prog),
         EntryOf(func) \in DOMAIN color', DOMAIN color' \subseteq Shown,
         nodes' = NodesFor(color'), lines' = LinesFor(dfs', order', color')
  PROVE  WrittenInv'
<1>1. prog' = prog /\ edges' = edges /\ func' = func
  BY DEF given
<1>2. Shown' = Shown
  BY <1>1 DEF Shown, Numbers, Arcs, Closed
<1>3. NodesFor(color)' = NodesFor(color') /\ LinesFor(dfs, order, color)' = LinesFor(dfs', order', color')
  BY <1>1 DEF NodesFor, LinesFor, Ignored, Passed
<1> QED
  BY <1>1, <1>2, <1>3 DEF WrittenInv

LEMMA InitWritten == Init => WrittenInv
<1> SUFFICES ASSUME Init PROVE WrittenInv
  OBVIOUS
<1>1. GivenOK /\ func \in Drawn \cap DOMAIN prog
  BY DEF Init, GivenOK
<1>2. EntryOf(func) \in VerticesOf(prog) /\ EntryOf(func) \in Shown
  BY <1>1, EndsAreVertices, ShownClosed
<1>3. DOMAIN order = {EntryOf(func)}
  <2>1. EntryOf(func) \notin DOMAIN <<>> /\ DOMAIN <<>> = {}
    OBVIOUS
  <2>2. order \in OrdersWith(edges, <<>>, EntryOf(func))
    BY DEF Init
  <2>3. PICK s \in Orderings(OutEdges(edges, EntryOf(func))) :
          order = [x \in DOMAIN <<>> \cup {EntryOf(func)} |->
                     IF x = EntryOf(func) THEN s ELSE <<>>[x]]
    BY <2>1, <2>2 DEF OrdersWith
  <2>4. DOMAIN order = DOMAIN <<>> \cup {EntryOf(func)}
    BY <2>3
  <2> QED
    BY <2>1, <2>4
<1>4. color = [v \in {EntryOf(func)} |-> "gray"]
  BY DEF Init
<1>5. nodes = NodesFor(color)
  BY <1>4 DEF Init, NodesFor
<1>6. \A e : ~Passed(e, dfs, order, color)
  <2>1. dfs = <<[v |-> EntryOf(func), at |-> 0]>>
    BY DEF Init
  <2>2. \A n \in 1 .. Len(dfs) : dfs[n].at = 0
    BY <2>1
  <2>3. \A e : e.from \in DOMAIN color => color[e.from] # "black"
    BY <1>4
  <2> QED
    BY <2>2, <2>3 DEF Passed
<1>7. lines = LinesFor(dfs, order, color)
  BY <1>6 DEF Init, LinesFor
<1> QED
  BY <1>1, <1>2, <1>3, <1>4, <1>5, <1>7 DEF WrittenInv

LEMMA IgnoreWritten == DotInv /\ WrittenInv /\ IgnoreEdge => WrittenInv'
<1> SUFFICES ASSUME DotInv, WrittenInv, IgnoreEdge PROVE WrittenInv'
  OBVIOUS
<1>1. /\ MoreEdges /\ Ignored(Examined) /\ dfs' = Advanced /\ UNCHANGED given
      /\ order' = order /\ color' = color /\ nodes' = nodes /\ lines' = lines
  BY DEF IgnoreEdge
<1>2. \A e \in edges : (~Ignored(e) /\ Passed(e, Advanced, order, color))
                         <=> (~Ignored(e) /\ Passed(e, dfs, order, color))
  BY <1>1, AdvancingPasses
<1>3. LinesFor(Advanced, order, color) = LinesFor(dfs, order, color)
  BY <1>2 DEF LinesFor
<1>4. nodes' = NodesFor(color') /\ lines' = LinesFor(dfs', order', color')
  BY <1>1, <1>3 DEF WrittenInv
<1> QED
  BY <1>1, <1>4, WrittenNext DEF WrittenInv

(* The edge examined gets its first and only line.                         *)
LEMMA EdgeWritten ==
  ASSUME DotInv, WrittenInv, MoreEdges, ~Ignored(Examined)
  PROVE  Written(lines, Examined) = LinesFor(Advanced, order, color)
<1>1. Examined \in edges /\ ~Passed(Examined, dfs, order, color)
  BY ExaminedIsNew
<1>2. \A e \in edges : Passed(e, Advanced, order, color)
                         <=> Passed(e, dfs, order, color) \/ e = Examined
  BY AdvancingPasses
<1>3. lines = [e \in edges |-> IF ~Ignored(e) /\ Passed(e, dfs, order, color) THEN 1 ELSE 0]
  BY DEF WrittenInv, LinesFor
<1>4. lines[Examined] = 0
  BY <1>1, <1>3
<1>5. Written(lines, Examined) = [e \in edges |-> IF e = Examined THEN 1 ELSE lines[e]]
  <2>1. DOMAIN lines = edges
    BY <1>3
  <2>2. Written(lines, Examined)
          = [e \in DOMAIN lines |-> IF e = Examined THEN lines[e] + 1 ELSE lines[e]]
    BY <1>1, <2>1 DEF Written
  <2> QED
    BY <1>4, <2>1, <2>2
<1>6. \A e \in edges : (IF e = Examined THEN 1 ELSE lines[e])
                         = IF ~Ignored(e) /\ Passed(e, Advanced, order, color) THEN 1 ELSE 0
  BY <1>2, <1>3
<1> HIDE <1>3
<1> QED
  BY <1>5, <1>6 DEF LinesFor

LEMMA OtherWritten == DotInv /\ WrittenInv /\ OtherEdge => WrittenInv'
<1> SUFFICES ASSUME DotInv, WrittenInv, OtherEdge PROVE WrittenInv'
  OBVIOUS
<1>1. /\ MoreEdges /\ ~Ignored(Examined) /\ dfs' = Advanced /\ UNCHANGED given
      /\ order' = order /\ color' = color /\ nodes' = nodes
      /\ lines' = Written(lines, Examined)
  BY DEF OtherEdge
<1>2. nodes' = NodesFor(color') /\ lines' = LinesFor(dfs', order', color')
  BY <1>1, EdgeWritten DEF WrittenInv
<1> QED
  BY <1>1, <1>2, WrittenNext DEF WrittenInv

(* A vertex just discovered has passed no edge yet.                        *)
LEMMA TreeWritten == DotInv /\ WrittenInv /\ TreeEdge => WrittenInv'
<1> SUFFICES ASSUME DotInv, WrittenInv, TreeEdge PROVE WrittenInv'
  OBVIOUS
<1> DEFINE w == Examined.to
           c == Painted(w, "gray")
           top == [v |-> w, at |-> 0]
           L == Len(dfs)
<1>1. /\ MoreEdges /\ ~Ignored(Examined) /\ ColorOf(w) = "white" /\ UNCHANGED given
      /\ color' = c /\ order' \in OrdersWith(edges, order, w)
      /\ dfs' = Append(Advanced, top)
      /\ nodes' = Written(nodes, w) /\ lines' = Written(lines, Examined)
  BY DEF TreeEdge
<1>2. w \notin DOMAIN color
  BY <1>1 DEF ColorOf, DotInv, GrayOK
<1>3. /\ DOMAIN c = DOMAIN color \cup {w} /\ c[w] = "gray"
      /\ \A v \in DOMAIN color : c[v] = color[v]
  BY <1>2 DEF Painted
<1>4. GivenOK /\ func \in Drawn \cap DOMAIN prog
  BY DEF DotInv, WrittenInv
<1>5. /\ Examined \in edges /\ Examined.from = Here
      /\ Here \in DOMAIN color
  BY <1>1, ExaminedIsNew
<1>6. Examined \in OwnEdges(prog)
  BY <1>1, <1>4, <1>5, OwnAreDrawn
<1>7. w \in Shown /\ w \in VerticesOf(prog)
  <2>1. Here \in Shown
    BY <1>5 DEF WrittenInv
  <2> QED
    BY <1>4, <1>5, <1>6, <2>1, ShownClosed, EndsAreVertices
<1> HIDE DEF w, c
<1>8. /\ DOMAIN order' = DOMAIN order \cup {w}
      /\ \A v \in DOMAIN order : order'[v] = order[v]
  <2>1. CASE w \in DOMAIN order
    BY <1>1, <2>1 DEF OrdersWith
  <2>2. CASE w \notin DOMAIN order
    <3>1. PICK s \in Orderings(OutEdges(edges, w)) :
            order' = [x \in DOMAIN order \cup {w} |-> IF x = w THEN s ELSE order[x]]
      BY <1>1, <2>2 DEF OrdersWith
    <3> QED
      BY <2>2, <3>1
  <2> QED
    BY <2>1, <2>2
<1>9. nodes' = NodesFor(color')
  <2>1. nodes = [v \in VerticesOf(prog) |-> IF v \in DOMAIN color THEN 1 ELSE 0]
    BY DEF WrittenInv, NodesFor
  <2>2. DOMAIN nodes = VerticesOf(prog) /\ nodes[w] = 0
    BY <1>2, <1>7, <2>1
  <2>3. Written(nodes, w) = [v \in DOMAIN nodes |-> IF v = w THEN nodes[v] + 1 ELSE nodes[v]]
    BY <1>7, <2>2 DEF Written
  <2>4. Written(nodes, w) = [v \in VerticesOf(prog) |-> IF v = w THEN 1 ELSE nodes[v]]
    BY <2>2, <2>3
  <2>5. \A v \in VerticesOf(prog) :
          (IF v = w THEN 1 ELSE nodes[v]) = IF v \in DOMAIN c THEN 1 ELSE 0
    BY <1>3, <2>1
  <2>6. Written(nodes, w) = [v \in VerticesOf(prog) |-> IF v \in DOMAIN c THEN 1 ELSE 0]
    <3> HIDE <2>1
    <3> QED BY <2>4, <2>5
  <2> QED
    BY <1>1, <2>6 DEF NodesFor
<1>10. /\ L \in Nat /\ Len(Advanced) = L
       /\ Len(dfs') = L + 1 /\ dfs'[L + 1] = top
       /\ \A n \in 1 .. L : dfs'[n] = Advanced[n]
       /\ \A n \in 1 .. L : Advanced[n].v \in DOMAIN color
       /\ \A n \in 1 .. L : Advanced[n].v \in DOMAIN order
  <2>1. /\ Advanced \in Seq([v : DOMAIN order, at : Nat]) /\ L \in Nat /\ Len(Advanced) = L
        /\ \A n \in 1 .. L : Advanced[n].v = dfs[n].v
    BY <1>1, AdvancedGood
  <2>2. Len(dfs') = L + 1 /\ dfs'[L + 1] = top /\ \A n \in 1 .. L : dfs'[n] = Advanced[n]
    <3>1. DOMAIN Advanced = 1 .. L
      BY <2>1, LenProperties
    <3>2. Append(Advanced, top) = [n \in 1 .. L + 1 |-> IF n = L + 1 THEN top ELSE Advanced[n]]
      BY <2>1, <3>1 DEF Append
    <3> HIDE DEF top, L
    <3>3. Len(dfs') = L + 1
      BY <1>1, <2>1, AppendProperties
    <3>4. dfs'[L + 1] = top /\ \A n \in 1 .. L : dfs'[n] = Advanced[n]
      BY <1>1, <2>1, <3>2
    <3> QED
      BY <3>3, <3>4
  <2>3. \A n \in 1 .. L : Advanced[n].v \in DOMAIN color
    BY <2>1 DEF DotInv, GrayOK
  <2>4. \A n \in 1 .. L : Advanced[n] \in [v : DOMAIN order, at : Nat]
    BY <2>1, ElementOfSeq
  <2>5. \A n \in 1 .. L : Advanced[n].v \in DOMAIN order
    BY <2>4
  <2> QED
    BY <2>1, <2>2, <2>3, <2>5
<1> HIDE DEF L
<1>11. \A e : Passed(e, dfs', order', c) <=> Passed(e, Advanced, order, color)
  <2> TAKE e
  <2>1. CASE e.from = w
    <3>1. ~Passed(e, Advanced, order, color)
      BY <1>2, <2>1 DEF Passed
    <3>2. c[e.from] # "black"
      BY <1>3, <2>1
    <3>3. \A n \in 1 .. L + 1 : dfs'[n].v = w => dfs'[n].at = 0
      <4> SUFFICES ASSUME NEW n \in 1 .. L + 1, dfs'[n].v = w PROVE dfs'[n].at = 0
        OBVIOUS
      <4>1. n = L + 1
        BY <1>2, <1>10
      <4> QED
        BY <1>10, <4>1
    <3> QED
      BY <1>10, <2>1, <3>1, <3>2, <3>3 DEF Passed
  <2>2. CASE e.from # w
    <3>1. e.from \in DOMAIN c <=> e.from \in DOMAIN color
      BY <1>3, <2>2
    <3>2. e.from \in DOMAIN color => (c[e.from] = "black" <=> color[e.from] = "black")
      BY <1>3
    <3>3. \A n \in 1 .. L + 1 : dfs'[n].v = e.from <=> n \in 1 .. L /\ Advanced[n].v = e.from
      BY <1>10, <2>2
    <3>4. \A n \in 1 .. L : Advanced[n].v = e.from => order'[e.from] = order[e.from]
      BY <1>8, <1>10
    <3>5. 1 .. L \subseteq 1 .. L + 1
      BY <1>10
    <3>6. (\E n \in 1 .. Len(dfs') :
             dfs'[n].v = e.from /\ \E k \in 1 .. dfs'[n].at : order'[e.from][k] = e)
          <=> (\E n \in 1 .. Len(Advanced) :
             Advanced[n].v = e.from /\ \E k \in 1 .. Advanced[n].at : order[e.from][k] = e)
      BY <1>10, <3>3, <3>4, <3>5
    <3> QED
      BY <3>1, <3>2, <3>6 DEF Passed
  <2> QED
    BY <2>1, <2>2
<1>12. lines' = LinesFor(dfs', order', color')
  <2>1. lines' = LinesFor(Advanced, order, color)
    BY <1>1, EdgeWritten
  <2>2. LinesFor(dfs', order', c) = LinesFor(Advanced, order, color)
    BY <1>11 DEF LinesFor
  <2> QED
    BY <1>1, <2>1, <2>2
<1>13. /\ DOMAIN order' \subseteq VerticesOf(prog) /\ DOMAIN color' \subseteq Shown
       /\ EntryOf(func) \in DOMAIN color'
  BY <1>1, <1>3, <1>7, <1>8 DEF WrittenInv
<1> QED
  BY <1>1, <1>4, <1>9, <1>12, <1>13, WrittenNext

(* A vertex is finished when its last edge is passed: nothing changes.     *)
LEMMA FinishWritten == DotInv /\ WrittenInv /\ FinishVertex => WrittenInv'
<1> SUFFICES ASSUME DotInv, WrittenInv, FinishVertex PROVE WrittenInv'
  OBVIOUS
<1> DEFINE E == [v : DOMAIN order, at : Nat]
           L == Len(dfs)
           c == Painted(Here, "black")
<1>1. /\ dfs # <<>> /\ ~(Last(dfs).at < Len(order[Here])) /\ UNCHANGED given
      /\ dfs' = Front(dfs) /\ color' = c /\ order' = order
      /\ nodes' = nodes /\ lines' = lines
  BY DEF FinishVertex, MoreEdges
<1>2. /\ dfs \in Seq(E) /\ \A n \in 1 .. L : dfs[n].at <= Len(order[dfs[n].v])
      /\ \A m, n \in 1 .. L : dfs[m].v = dfs[n].v => m = n
  BY DEF DotInv, StackOK
<1> HIDE DEF E
<1>3. /\ L \in Nat \ {0} /\ L \in 1 .. L /\ Last(dfs) \in E /\ Last(dfs) = dfs[L]
      /\ Len(Front(dfs)) = L - 1
      /\ \A n \in 1 .. L - 1 : Front(dfs)[n] = dfs[n]
  BY <1>1, <1>2, StackTop DEF Last
<1>4. Here \in DOMAIN order /\ Last(dfs).at \in Nat /\ dfs[L].v = Here
  BY <1>3 DEF E, Here
<1>5. /\ Len(order[Here]) \in Nat
      /\ \A e \in OutEdges(edges, Here) :
           \E k \in 1 .. Len(order[Here]) : order[Here][k] = e
  <2>1. prog \in Programs /\ edges = EdgesOf(prog) \cup SelfEdges(prog)
    BY DEF DotInv, GivenOK
  <2>2. order[Here] \in Orderings(OutEdges(edges, Here))
    BY <1>4 DEF DotInv, OrderOK
  <2> QED
    BY <2>1, <2>2, OrderListsAll
<1>6. dfs[L].at = Len(order[Here])
  BY <1>1, <1>2, <1>3, <1>4, <1>5
<1>7. Here \in DOMAIN color
  BY <1>3, <1>4 DEF DotInv, GrayOK
<1>8. /\ DOMAIN c = DOMAIN color /\ c[Here] = "black"
      /\ \A v \in DOMAIN color : v # Here => c[v] = color[v]
  <2>1. DOMAIN color \cup {Here} = DOMAIN color
    BY <1>7
  <2> QED
    BY <1>7, <2>1 DEF Painted
<1> HIDE DEF c, L
<1>9. \A e \in edges : Passed(e, Front(dfs), order, c) <=> Passed(e, dfs, order, color)
  <2> TAKE e \in edges
  <2>1. CASE e.from = Here
    <3>1. e \in OutEdges(edges, Here)
      BY <2>1 DEF OutEdges
    <3>2. PICK k \in 1 .. Len(order[Here]) : order[Here][k] = e
      BY <1>5, <3>1
    <3>3. L \in 1 .. Len(dfs) /\ dfs[L].v = e.from /\ k \in 1 .. dfs[L].at
          /\ order[e.from][k] = e
      BY <1>3, <1>4, <1>6, <2>1, <3>2 DEF L
    <3>4. Passed(e, dfs, order, color)
      BY <1>7, <2>1, <3>3 DEF Passed
    <3>5. Passed(e, Front(dfs), order, c)
      BY <1>7, <1>8, <2>1 DEF Passed
    <3> QED
      BY <3>4, <3>5
  <2>2. CASE e.from # Here
    <3>1. \A n \in 1 .. L : dfs[n].v = e.from => n \in 1 .. L - 1
      BY <1>3, <1>4, <2>2
    <3>2. 1 .. L - 1 \subseteq 1 .. L /\ L = Len(dfs)
      BY <1>3 DEF L
    <3>3. (\E n \in 1 .. Len(dfs) :
             dfs[n].v = e.from /\ \E k \in 1 .. dfs[n].at : order[e.from][k] = e)
          <=> (\E n \in 1 .. Len(Front(dfs)) :
             Front(dfs)[n].v = e.from /\ \E k \in 1 .. Front(dfs)[n].at : order[e.from][k] = e)
      BY <1>3, <3>1, <3>2
    <3>4. e.from \in DOMAIN color => c[e.from] = color[e.from]
      BY <1>8, <2>2
    <3> QED
      BY <1>8, <3>3, <3>4 DEF Passed
  <2> QED
    BY <2>1, <2>2
<1>10. lines' = LinesFor(dfs', order', color')
  <2>1. LinesFor(Front(dfs), order, c) = LinesFor(dfs, order, color)
    BY <1>9 DEF LinesFor
  <2> QED
    BY <1>1, <2>1 DEF WrittenInv
<1>11. nodes' = NodesFor(color')
  BY <1>1, <1>8 DEF WrittenInv, NodesFor
<1>12. EntryOf(func) \in DOMAIN color' /\ DOMAIN color' \subseteq Shown
  BY <1>1, <1>8 DEF WrittenInv
<1> QED
  BY <1>1, <1>10, <1>11, <1>12, WrittenNext DEF WrittenInv

LEMMA WrittenStep == DotInv /\ WrittenInv /\ [Next]_vars => WrittenInv'
<1>1. WrittenInv /\ UNCHANGED vars => WrittenInv'
  <2> SUFFICES ASSUME WrittenInv, UNCHANGED vars PROVE WrittenInv'
    OBVIOUS
  <2>1. /\ UNCHANGED given /\ order' = order /\ dfs' = dfs /\ color' = color
        /\ nodes' = nodes /\ lines' = lines
    BY DEF vars
  <2> QED
    BY <2>1, WrittenNext DEF WrittenInv
<1> QED
  BY <1>1, IgnoreWritten, TreeWritten, OtherWritten, FinishWritten
     DEF Next, Draw, DrawingDone

-----------------------------------------------------------------------------
(* When the stack is empty everything discovered is black, and so it is    *)
(* closed, and so it is all there is to show.                              *)
LEMMA AllShownAtTheEnd ==
  ASSUME DotInv, WrittenInv, dfs = <<>>
  PROVE  DOMAIN color = Shown /\ \A v \in DOMAIN color : color[v] = "black"
<1>1. GivenOK /\ func \in DOMAIN prog
  BY DEF DotInv, WrittenInv
<1>2. \A v \in DOMAIN color : color[v] = "black"
  <2>1. Len(dfs) = 0
    OBVIOUS
  <2>2. \A n : n \notin 1 .. Len(dfs)
    BY <2>1
  <2> QED
    BY <2>2 DEF DotInv, GrayOK
<1>3. \A e \in OwnEdges(prog) : e.from \in DOMAIN color => e.to \in DOMAIN color
  <2> SUFFICES ASSUME NEW e \in OwnEdges(prog), e.from \in DOMAIN color
               PROVE  e.to \in DOMAIN color
    OBVIOUS
  <2>1. e \in edges
    BY <1>1 DEF GivenOK, EdgesOf
  <2>2. ~Ignored(e)
    BY <1>1, <2>1, OwnAreDrawn
  <2>3. e \in OutEdges(edges, e.from)
    BY <2>1 DEF OutEdges
  <2> QED
    BY <1>2, <2>2, <2>3 DEF DotInv, BlackOK, DoneIn
<1>4. EntryOf(func) \in DOMAIN color
  BY DEF WrittenInv
<1>5. Shown \subseteq DOMAIN color
  BY <1>1, <1>3, <1>4, ShownLeast
<1> QED
  BY <1>2, <1>5 DEF WrittenInv

LEMMA WellTyped == DotInv /\ WrittenInv => TypeOK
<1> SUFFICES ASSUME DotInv, WrittenInv PROVE TypeOK
  OBVIOUS
<1>1. prog \in Programs /\ edges = EdgesOf(prog) \cup SelfEdges(prog)
      /\ func \in Drawn \cap DOMAIN prog
  BY DEF DotInv, GivenOK, WrittenInv
<1>2. \A v \in DOMAIN order : v \in VerticesOf(prog) /\ order[v] \in Orderings(OutEdges(edges, v))
  BY DEF DotInv, OrderOK, WrittenInv
<1>3. Shown \subseteq VerticesOf(prog)
  <2>1. GivenOK /\ func \in DOMAIN prog
    BY DEF DotInv, WrittenInv
  <2> QED
    BY <2>1, EndsAreVertices, ShownLeast
<1>4. DOMAIN color \subseteq VerticesOf(prog) /\ \A v \in DOMAIN color : color[v] \in {"gray", "black"}
  BY <1>3 DEF DotInv, GrayOK, WrittenInv
<1>5. dfs \in Seq([v : DOMAIN order, at : Nat])
  BY DEF DotInv, StackOK
<1>6. nodes \in [VerticesOf(prog) -> Nat] /\ lines \in [edges -> Nat]
  BY DEF WrittenInv, NodesFor, LinesFor
<1> QED
  BY <1>1, <1>2, <1>4, <1>5, <1>6 DEF TypeOK

(* In every drawing of a function of any finite program, in whatever order *)
(* edges are walked: when it is finished, exactly the vertices that can be *)
(* reached in the function's own graph and the edges that leave them have  *)
(* been written, each once, and nothing of another function.               *)
THEOREM DrawingIsWhole == Spec => []DrawnWhole
<1>1. DotInv /\ WrittenInv => DrawnWhole
  <2> SUFFICES ASSUME DotInv, WrittenInv PROVE DrawnWhole
    OBVIOUS
  <2>1. TypeOK
    BY WellTyped
  <2>2. ASSUME dfs = <<>>, NEW v \in VerticesOf(prog)
        PROVE  nodes[v] = IF v \in Shown THEN 1 ELSE 0
    BY <2>2, AllShownAtTheEnd DEF WrittenInv, NodesFor
  <2>3. ASSUME dfs = <<>>, NEW e \in edges
        PROVE  lines[e] = IF e \in OwnOut(Shown) THEN 1 ELSE 0
    <3>1. DOMAIN color = Shown /\ \A v \in DOMAIN color : color[v] = "black"
      BY <2>3, AllShownAtTheEnd
    <3>2. ~Ignored(e) <=> e \in OwnEdges(prog)
      BY OwnAreDrawn DEF DotInv
    <3>3. Passed(e, dfs, order, color) <=> e.from \in Shown
      BY <3>1 DEF Passed
    <3>4. lines[e] = IF ~Ignored(e) /\ Passed(e, dfs, order, color) THEN 1 ELSE 0
      BY DEF WrittenInv, LinesFor
    <3>5. e \in OwnOut(Shown) <=> e \in OwnEdges(prog) /\ e.from \in Shown
      BY DEF OwnOut
    <3> QED
      BY <3>2, <3>3, <3>4, <3>5
  <2> QED
    BY <2>1, <2>2, <2>3 DEF DrawnWhole
<1>2. Spec => []WrittenInv
  <2>1. DotInv /\ WrittenInv /\ [Next]_vars => WrittenInv'
    BY WrittenStep
  <2> QED
    BY <2>1, InitWritten, DotInvariant, PTL DEF Spec
<1> QED
  BY <1>1, <1>2, DotInvariant, PTL
=============================================================================
