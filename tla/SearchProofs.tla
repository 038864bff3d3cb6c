---------------------------- MODULE SearchProofs ----------------------------
(***************************************************************************)
(* Proofs about the search for a constraint: its types, that the frame no  *)
(* call pushed never leaves the call stack, and that both verdicts are     *)
(* right.                                                                  *)
(*                                                                         *)
(* The argument for the verdicts leaves the colors aside: the vertices     *)
(* that have ever been given an order are the ones discovered, in whatever *)
(* frame; all of them can be reached, and an edge ahead of one leads to    *)
(* another unless some entry of the stack is still to examine it.          *)
(*                                                                         *)
(* The argument for the path reported is about the colors, and rests on    *)
(* the walk being deterministic: what is done in a function from its call  *)
(* on depends on the orders of the edges alone.  Two activations of one    *)
(* function do the same until each comes to its own EXIT in its own frame, *)
(* so none is taken back by a frame that another has left behind.          *)
(***************************************************************************)
EXTENDS ReachabilitySearch, SequenceTheorems, FiniteSetTheorems, WellFoundedInduction, TLAPS

-----------------------------------------------------------------------------
(* The inductive invariant.                                                *)

Frame(p) ==
  [call  : CallSites(p) \cup {NoCall},
   color : UNION {[D -> Colors] : D \in SUBSET VerticesOf(p)}]

GivenOK ==
  prog \in Programs /\ edges = EdgesOf(prog) /\ source \in Sources /\ sink \in Sinks

OrderOK(o) ==
  \A v \in DOMAIN o : v \in VerticesOf(prog) /\ o[v] \in Orderings(OutEdges(edges, v))

(* A call stack the search may look a color up in.                         *)
StackOK(fs) ==
  /\ fs \in Seq(Frame(prog))
  /\ Len(fs) >= 1
  /\ fs[1].call = NoCall

SearchInv ==
  /\ GivenOK
  /\ OrderOK(order)
  /\ StackOK(frames) /\ Len(frames) <= MaxFrames
  /\ dfs \in Seq([v : DOMAIN order, at : Nat])
  /\ path \in Seq(edges)
  /\ verdict \in {"running", "violation", "no violation", "exhausted"}

-----------------------------------------------------------------------------
(* Sequences.                                                              *)

LEMMA FrontSeq ==
  ASSUME NEW S, NEW s \in Seq(S), s # <<>>
  PROVE  /\ Front(s) \in Seq(S)
         /\ Len(Front(s)) = Len(s) - 1
         /\ \A n \in 1 .. Len(s) - 1 : Front(s)[n] = s[n]
<1>1. Len(s) \in Nat /\ Len(s) # 0 /\ \A n \in 1 .. Len(s) : s[n] \in S
  BY EmptySeq, LenProperties, ElementOfSeq
<1> DEFINE m == Len(s) - 1
<1>2. m \in Int /\ \A n \in 1 .. m : s[n] \in S
  BY <1>1
<1>3. /\ SubSeq(s, 1, m) \in Seq(S)
      /\ Len(SubSeq(s, 1, m)) = IF 1 <= m THEN m - 1 + 1 ELSE 0
      /\ \A i \in 1 .. m - 1 + 1 : SubSeq(s, 1, m)[i] = s[1 + i - 1]
  <2> HIDE DEF m
  <2> QED BY <1>2, SubSeqProperties
<1>4. m \in Nat
  BY <1>1
<1>5. Len(SubSeq(s, 1, m)) = m /\ \A i \in 1 .. m : SubSeq(s, 1, m)[i] = s[i]
  <2> HIDE DEF m
  <2> QED BY <1>3, <1>4
<1> QED
  BY <1>3, <1>5 DEF Front

LEMMA LastInSeq ==
  ASSUME NEW S, NEW s \in Seq(S), s # <<>>
  PROVE  Len(s) \in Nat \ {0} /\ Last(s) \in S
  BY EmptySeq, ElementOfSeq DEF Last

LEMMA AppendSeq ==
  ASSUME NEW S, NEW s \in Seq(S), NEW x \in S
  PROVE  /\ Append(s, x) \in Seq(S)
         /\ Len(Append(s, x)) = Len(s) + 1
         /\ Append(s, x)[Len(s) + 1] = x
         /\ \A n \in 1 .. Len(s) : Append(s, x)[n] = s[n]
  OBVIOUS

-----------------------------------------------------------------------------
(* Programs.                                                               *)

(* The edges of a program join its vertices, and a call or a return names  *)
(* the call it belongs to.                                                 *)
LEMMA EdgeFacts ==
  ASSUME NEW p \in Programs, NEW e \in EdgesOf(p)
  PROVE  /\ e.from \in VerticesOf(p) /\ e.to \in VerticesOf(p)
         /\ e.kind \in EdgeKind
         /\ e.kind \in {"call", "return"} => e.call \in CallSites(p) /\ e.call # NoCall
<1>1. e.from \in VerticesOf(p) /\ e.to \in VerticesOf(p)
  BY DEF VerticesOf
<1>2. CASE e \in OwnEdges(p)
  <2>1. PICK f \in DOMAIN p : \E a \in p[f].arcs : e.kind = a.kind
    BY <1>2 DEF OwnEdges
  <2>2. e.kind \in ArcKind
    BY <2>1, ProgramsAssumption
  <2> QED
    BY <1>1, <2>2 DEF ArcKind, EdgeKind
<1>3. CASE e \in LinkEdges(p)
  <2>1. PICK c \in Resolved(p) : e.kind \in {"call", "return"} /\ e.call = c
    BY <1>3 DEF LinkEdges
  <2>2. c \in CallSites(p) /\ c # NoCall
    BY ProgramsAssumption DEF Resolved
  <2> QED
    BY <1>1, <2>1, <2>2 DEF EdgeKind
<1> QED
  BY <1>2, <1>3 DEF EdgesOf

(* An order lists out-edges of its vertex.                                 *)
LEMMA OrderingFacts ==
  ASSUME NEW p \in Programs, NEW v, NEW s \in Orderings(OutEdges(EdgesOf(p), v))
  PROVE  s \in Seq(EdgesOf(p))
<1> DEFINE S == OutEdges(EdgesOf(p), v)
<1>1. S \subseteq EdgesOf(p)
  BY DEF OutEdges
<1>2. IsFiniteSet(S)
  BY <1>1, ProgramsAssumption, FS_Subset
<1>3. Cardinality(S) \in Nat
  BY <1>2, FS_CardinalityType
<1>4. s \in [1 .. Cardinality(S) -> S]
  BY DEF Orderings
<1>5. s \in Seq(S)
  BY <1>3, <1>4, SeqDef
<1> QED
  BY <1>1, <1>5, SeqMonotonic

LEMMA OrdersWithGood ==
  ASSUME GivenOK, OrderOK(order), NEW v \in VerticesOf(prog),
         NEW o \in OrdersWith(edges, order, v)
  PROVE  OrderOK(o) /\ DOMAIN order \subseteq DOMAIN o /\ v \in DOMAIN o
<1>1. CASE v \in DOMAIN order
  BY <1>1 DEF OrdersWith
<1>2. CASE v \notin DOMAIN order
  <2>1. PICK s \in Orderings(OutEdges(edges, v)) :
          o = [w \in DOMAIN order \cup {v} |-> IF w = v THEN s ELSE order[w]]
    BY <1>2 DEF OrdersWith
  <2> QED
    BY <2>1 DEF OrderOK
<1> QED
  BY <1>1, <1>2

-----------------------------------------------------------------------------
(* Frames.                                                                 *)

LEMMA PaintGood ==
  ASSUME NEW fs, StackOK(fs), NEW v \in VerticesOf(prog), NEW c \in Colors
  PROVE  StackOK(Paint(fs, v, c)) /\ Len(Paint(fs, v, c)) = Len(fs)
<1> DEFINE n   == Len(fs)
           old == fs[n].color
           new == [w \in DOMAIN old \cup {v} |-> IF w = v THEN c ELSE old[w]]
           f   == [fs[n] EXCEPT !.color = new]
<1>1. n \in Nat /\ n \in 1 .. Len(fs) /\ fs \in Seq(Frame(prog))
  BY LenProperties DEF StackOK
<1>2. fs[n] \in Frame(prog)
  BY <1>1, ElementOfSeq
<1>3. PICK D \in SUBSET VerticesOf(prog) : old \in [D -> Colors]
  BY <1>2 DEF Frame
<1>4. new \in [D \cup {v} -> Colors]
  BY <1>3
<1>5. D \cup {v} \in SUBSET VerticesOf(prog)
  BY <1>3
<1> HIDE DEF new
<1>6. new \in UNION {[E -> Colors] : E \in SUBSET VerticesOf(prog)}
  BY <1>4, <1>5
<1>7. f \in Frame(prog) /\ f.call = fs[n].call
  BY <1>2, <1>6 DEF Frame
<1>8. Paint(fs, v, c) = [fs EXCEPT ![n] = f]
  BY DEF Paint, new
<1> HIDE DEF f, n
<1>9. /\ [fs EXCEPT ![n] = f] \in Seq(Frame(prog))
      /\ Len([fs EXCEPT ![n] = f]) = Len(fs)
      /\ \A j \in 1 .. Len(fs) : [fs EXCEPT ![n] = f][j] = IF j = n THEN f ELSE fs[j]
  BY <1>1, <1>7, ExceptSeq
<1> QED
  BY <1>1, <1>7, <1>8, <1>9 DEF StackOK

(* An edge that is not skipped leaves a call stack in order: a return is   *)
(* followed only from a frame its call has pushed, which is never the      *)
(* first; and what has just been pushed has seen nothing.                  *)
LEMMA FramesForGood ==
  ASSUME GivenOK, StackOK(frames), Len(frames) <= MaxFrames,
         NEW e \in edges, ~Skipped(e)
  PROVE  /\ StackOK(FramesFor(e))
         /\ \/ Len(FramesFor(e)) <= MaxFrames
            \/ ColorIn(FramesFor(e), e.to) = "white"
<1>1. frames \in Seq(Frame(prog)) /\ frames # <<>> /\ Len(frames) \in Nat
  BY LenProperties, EmptySeq DEF StackOK
<1>2. /\ e.kind \in EdgeKind
      /\ e.kind \in {"call", "return"} => e.call \in CallSites(prog) /\ e.call # NoCall
  BY EdgeFacts DEF GivenOK
<1>3. CASE e.kind = "return"
  <2>1. frames[Len(frames)].call # NoCall
    BY <1>2, <1>3 DEF Skipped, Matches, TopFrame, Last
  <2>2. Len(frames) >= 2
    BY <1>1, <2>1 DEF StackOK
  <2>3. FramesFor(e) = Front(frames)
    BY <1>3 DEF FramesFor
  <2> QED
    BY <1>1, <2>2, <2>3, FrontSeq, MaxFramesAssumption DEF StackOK
<1>4. CASE e.kind = "call"
  <2>1. FramesFor(e) = Append(frames, NewFrame(e.call))
    BY <1>4 DEF FramesFor
  <2>2. <<>> \in [{} -> Colors] /\ {} \in SUBSET VerticesOf(prog)
    OBVIOUS
  <2>3. NewFrame(e.call) \in Frame(prog) /\ DOMAIN NewFrame(e.call).color = {}
    BY <1>2, <1>4, <2>2 DEF NewFrame, Frame
  <2>4. StackOK(FramesFor(e)) /\ Last(FramesFor(e)) = NewFrame(e.call)
    BY <1>1, <2>1, <2>3, AppendSeq DEF StackOK, Last
  <2> QED
    BY <2>3, <2>4 DEF ColorIn
<1>5. CASE e.kind \notin {"call", "return"}
  BY <1>5 DEF FramesFor
<1> QED
  BY <1>3, <1>4, <1>5

-----------------------------------------------------------------------------
(* Steps.                                                                  *)

(* The vertex being worked on is known, and so is the edge examined.       *)
LEMMA HereFacts ==
  ASSUME SearchInv, dfs # <<>>
  PROVE  /\ Len(dfs) \in Nat \ {0}
         /\ Here \in VerticesOf(prog)
         /\ Working => Examined \in edges
<1>1. Len(dfs) \in Nat \ {0} /\ Last(dfs) \in [v : DOMAIN order, at : Nat]
  BY LastInSeq DEF SearchInv
<1>2. Here \in DOMAIN order /\ Last(dfs).at \in Nat
  BY <1>1 DEF Here
<1>3. Here \in VerticesOf(prog) /\ order[Here] \in Orderings(OutEdges(edges, Here))
  BY <1>2 DEF SearchInv, OrderOK
<1>4. order[Here] \in Seq(edges)
  BY <1>3, OrderingFacts DEF SearchInv, GivenOK
<1>5. ASSUME Working PROVE Examined \in edges
  <2>1. Len(order[Here]) \in Nat
    BY <1>4, LenProperties
  <2>2. Last(dfs).at + 1 \in 1 .. Len(order[Here])
    BY <1>2, <1>5, <2>1 DEF Working, MoreEdges
  <2> QED
    BY <1>4, <2>2, ElementOfSeq DEF Examined
<1> QED
  BY <1>1, <1>3, <1>5

LEMMA AdvancedSeq ==
  ASSUME SearchInv, dfs # <<>>
  PROVE  Advanced \in Seq([v : DOMAIN order, at : Nat])
<1> DEFINE n == Len(dfs)
           T == [v : DOMAIN order, at : Nat]
           f == [dfs[n] EXCEPT !.at = dfs[n].at + 1]
<1>1. dfs \in Seq(T) /\ n \in 1 .. Len(dfs)
  <2>1. dfs \in Seq(T)
    BY DEF SearchInv
  <2>2. n \in Nat \ {0}
    BY HereFacts
  <2>3. n \in 1 .. n
    BY <2>2
  <2> QED
    BY <2>1, <2>3
<1>2. dfs[n] \in T
  BY <1>1, ElementOfSeq
<1>3. f \in T
  BY <1>2
<1>4. Advanced = [dfs EXCEPT ![n] = f]
  BY DEF Advanced
<1> HIDE DEF f, n, T
<1>5. [dfs EXCEPT ![n] = f] \in Seq(T)
  BY <1>1, <1>3, ExceptSeq
<1> QED
  BY <1>4, <1>5 DEF T

LEMMA InitGood == Init => SearchInv
<1> SUFFICES ASSUME Init PROVE SearchInv
  OBVIOUS
<1> DEFINE s == EntryOf(source)
           none == [v \in {} |-> v]
<1>1. GivenOK
  BY DEF Init, GivenOK
<1>2. s \in VerticesOf(prog)
  BY DEF Init, VerticesOf
<1>3. PICK q \in Orderings(OutEdges(edges, s)) : order = [w \in {s} |-> q]
  <2>1. PICK q \in Orderings(OutEdges(edges, s)) :
          order = [w \in DOMAIN <<>> \cup {s} |-> IF w = s THEN q ELSE <<>>[w]]
    <3>1. DOMAIN <<>> = {} /\ order \in OrdersWith(edges, <<>>, s)
      BY DEF Init
    <3> QED
      BY <3>1 DEF OrdersWith
  <2> QED
    BY <2>1
<1>4. OrderOK(order) /\ DOMAIN order = {s} /\ order[s] = q
  BY <1>2, <1>3 DEF OrderOK
<1>5. StackOK(frames) /\ Len(frames) = 1
  <2>1. <<>> \in [{} -> Colors] /\ {} \in SUBSET VerticesOf(prog)
    OBVIOUS
  <2>2. NewFrame(NoCall) \in Frame(prog) /\ NewFrame(NoCall).call = NoCall
    BY <2>1 DEF NewFrame, Frame
  <2>3. StackOK(<<NewFrame(NoCall)>>) /\ Len(<<NewFrame(NoCall)>>) = 1
    BY <2>2 DEF StackOK
  <2>4. "gray" \in Colors
    BY DEF Colors
  <2>5. frames = Paint(<<NewFrame(NoCall)>>, s, "gray")
    BY DEF Init
  <2> QED
    BY <1>2, <2>3, <2>4, <2>5, PaintGood
<1>6. Len(order[s]) \in Nat
  BY <1>1, <1>4, OrderingFacts, LenProperties DEF GivenOK
<1>7. dfs \in Seq([v : DOMAIN order, at : Nat])
  BY <1>4, <1>6 DEF Init
<1>8. path \in Seq(edges) /\ verdict = "running"
  BY DEF Init
<1>9. Len(frames) <= MaxFrames
  BY <1>5, MaxFramesAssumption
<1> QED
  BY <1>1, <1>4, <1>5, <1>7, <1>8, <1>9 DEF SearchInv

LEMMA DiscoverGood ==
  ASSUME SearchInv, Discover
  PROVE  SearchInv'
<1> DEFINE e  == Examined
           fs == FramesFor(e)
<1>1. e \in edges /\ dfs # <<>>
  BY HereFacts DEF Discover, Working
<1>2. e.to \in VerticesOf(prog)
  BY <1>1, EdgeFacts DEF SearchInv, GivenOK
<1>3. StackOK(fs)
  BY <1>1, FramesForGood DEF SearchInv, Discover
<1>4. UNCHANGED given /\ GivenOK'
  BY DEF SearchInv, GivenOK, Discover, given
<1>5. CASE Len(fs) <= MaxFrames
  <2>1. Enter(e, fs)
    BY <1>5 DEF Discover
  <2>2. OrderOK(order') /\ DOMAIN order \subseteq DOMAIN order' /\ e.to \in DOMAIN order'
    <3>1. order' \in OrdersWith(edges, order, e.to)
      BY <2>1 DEF Enter
    <3> QED
      BY <1>2, <3>1, OrdersWithGood DEF SearchInv
  <2>3. StackOK(frames') /\ Len(frames') <= MaxFrames
    <3>1. frames' = Paint(fs, e.to, "gray") /\ "gray" \in Colors
      BY <2>1 DEF Enter, Colors
    <3> QED
      BY <1>2, <1>3, <1>5, <3>1, PaintGood
  <2>4. path' \in Seq(edges)
    <3>1. path' = Append(path, e)
      BY <2>1 DEF Enter
    <3> QED
      BY <1>1, <3>1, AppendSeq DEF SearchInv
  <2>5. dfs' \in Seq([v : DOMAIN order', at : Nat])
    <3> DEFINE T == [v : DOMAIN order', at : Nat]
    <3>1. [v : DOMAIN order, at : Nat] \subseteq T
      BY <2>2
    <3>2. dfs \in Seq(T) /\ Advanced \in Seq(T)
      BY <1>1, <3>1, AdvancedSeq, SeqMonotonic DEF SearchInv
    <3>3. [v |-> e.to, at |-> 0] \in T
      BY <2>2
    <3>4. Append(Advanced, [v |-> e.to, at |-> 0]) \in Seq(T)
      BY <3>2, <3>3, AppendSeq
    <3>5. dfs' = dfs \/ dfs' = Append(Advanced, [v |-> e.to, at |-> 0])
      BY <2>1 DEF Enter
    <3> QED
      BY <3>2, <3>4, <3>5
  <2>6. verdict' \in {"running", "violation", "no violation", "exhausted"}
    BY <2>1 DEF Enter, SearchInv
  <2> QED
    BY <1>4, <2>2, <2>3, <2>4, <2>5, <2>6 DEF SearchInv, OrderOK, StackOK, given
<1>6. CASE ~(Len(fs) <= MaxFrames)
  <2>1. verdict' = "exhausted" /\ UNCHANGED <<order, frames, dfs, path>>
    BY <1>6 DEF Discover
  <2> QED
    BY <1>4, <2>1 DEF SearchInv, OrderOK, StackOK, given
<1> QED
  BY <1>5, <1>6

LEMMA AlreadyColoredGood ==
  ASSUME SearchInv, AlreadyColored
  PROVE  SearchInv'
<1>1. Examined \in edges /\ dfs # <<>>
  BY HereFacts DEF AlreadyColored, Working
<1>2. StackOK(FramesFor(Examined)) /\ Len(FramesFor(Examined)) <= MaxFrames
  BY <1>1, FramesForGood DEF SearchInv, AlreadyColored
<1>3. dfs' \in Seq([v : DOMAIN order, at : Nat])
  BY <1>1, AdvancedSeq DEF AlreadyColored
<1> QED
  BY <1>2, <1>3 DEF AlreadyColored, SearchInv, GivenOK, OrderOK, StackOK, given

LEMMA FinishGood ==
  ASSUME SearchInv, Finish
  PROVE  SearchInv'
<1>1. dfs # <<>> /\ Here \in VerticesOf(prog) /\ "black" \in Colors
  BY HereFacts DEF Finish, Colors
<1>2. StackOK(frames') /\ Len(frames') <= MaxFrames
  <2>1. frames' = Paint(frames, Here, "black")
    BY DEF Finish
  <2> QED
    BY <1>1, <2>1, PaintGood DEF SearchInv
<1>3. dfs' \in Seq([v : DOMAIN order, at : Nat])
  BY <1>1, FrontSeq DEF Finish, SearchInv
<1>4. path' \in Seq(edges)
  BY FrontSeq DEF Finish, SearchInv
<1> QED
  BY <1>2, <1>3, <1>4 DEF Finish, SearchInv, GivenOK, OrderOK, StackOK, given

LEMMA SearchInvStep == SearchInv /\ [Next]_vars => SearchInv'
<1> SUFFICES ASSUME SearchInv, [Next]_vars PROVE SearchInv'
  OBVIOUS
<1>1. CASE Skip
  <2>1. dfs' \in Seq([v : DOMAIN order, at : Nat])
    BY <1>1, AdvancedSeq DEF Skip, Working
  <2> QED
    BY <1>1, <2>1 DEF Skip, SearchInv, GivenOK, OrderOK, StackOK, given
<1>2. CASE Discover
  BY <1>2, DiscoverGood
<1>3. CASE AlreadyColored
  BY <1>3, AlreadyColoredGood
<1>4. CASE Finish
  BY <1>4, FinishGood
<1>5. CASE Reported \/ UNCHANGED vars
  BY <1>5 DEF Reported, vars, given, SearchInv, GivenOK, OrderOK, StackOK
<1> QED
  BY <1>1, <1>2, <1>3, <1>4, <1>5 DEF Next, Walk

THEOREM SearchInvariant == Spec => []SearchInv
  BY InitGood, SearchInvStep, PTL DEF Spec

-----------------------------------------------------------------------------
(* Every variable stays in its type: what is on the stacks and in the path *)
(* are vertices and edges of the program, the colors are two, and the call *)
(* stack does not outgrow its bound.                                       *)
THEOREM SearchTypeCorrect == Spec => []TypeOK
<1>1. SearchInv => TypeOK
  <2> SUFFICES ASSUME SearchInv PROVE TypeOK
    OBVIOUS
  <2>1. \A e \in edges : /\ e.from \in VerticesOf(prog) /\ e.to \in VerticesOf(prog)
                         /\ e.kind \in EdgeKind
    BY EdgeFacts DEF SearchInv, GivenOK
  <2>2. \A n \in DOMAIN frames :
          /\ frames[n].call \in CallSites(prog) \cup {NoCall}
          /\ DOMAIN frames[n].color \subseteq VerticesOf(prog)
          /\ \A v \in DOMAIN frames[n].color : frames[n].color[v] \in Colors
    <3> TAKE n \in DOMAIN frames
    <3>1. frames[n] \in Frame(prog)
      BY LenProperties, ElementOfSeq DEF SearchInv, StackOK
    <3>2. PICK D \in SUBSET VerticesOf(prog) : frames[n].color \in [D -> Colors]
      BY <3>1 DEF Frame
    <3> QED
      BY <3>1, <3>2 DEF Frame
  <2>3. dfs \in Seq([v : VerticesOf(prog), at : Nat])
    <3>1. DOMAIN order \subseteq VerticesOf(prog)
      BY DEF SearchInv, OrderOK
    <3>2. [v : DOMAIN order, at : Nat] \subseteq [v : VerticesOf(prog), at : Nat]
      BY <3>1
    <3> QED
      BY <3>2, SeqMonotonic DEF SearchInv
  <2> QED
    BY <2>1, <2>2, <2>3 DEF TypeOK, SearchInv, GivenOK, OrderOK
<1> QED
  BY <1>1, SearchInvariant, PTL

(* PopCallStack reads the call of the frame it removes: the frame without  *)
(* a call, which Traverse pushes first, is never removed, in no program    *)
(* and with no order of the edges.                                         *)
THEOREM FirstFrameKept == Spec => []RootFrameKept
<1>1. SearchInv => RootFrameKept
  <2>1. StackOK(frames) => frames # <<>> /\ frames[1].call = NoCall
    BY EmptySeq DEF StackOK
  <2> QED
    BY <2>1 DEF SearchInv, RootFrameKept
<1> QED
  BY <1>1, SearchInvariant, PTL

(* For every program, source, sink and order the stacks of the search, its *)
(* colors and its path stay well typed, and the first frame is never       *)
(* popped.                                                                 *)
THEOREM SearchStaysWellFormed == Spec => []SearchWellFormed
  BY SearchTypeCorrect, FirstFrameKept, PTL DEF SearchWellFormed
-----------------------------------------------------------------------------
(* What can be reached.  Within is the recursion TLC evaluates; what is    *)
(* needed of it is that Reachable is the least set that has the source's   *)
(* ENTRY and is closed under forward edges and calls.                      *)

LEMMA Least ==
  ASSUME NEW S \in SUBSET Nat, S # {}
  PROVE  \E m \in S : \A n \in S : m <= n
<1>1. PICK m \in S : \A n \in S : ~(<<n, m>> \in OpToRel(<, Nat))
  BY NatLessThanWellFounded, WFMin
<1>2. \A n \in S : ~(n < m)
  BY <1>1 DEF OpToRel
<1> QED
  BY <1>2

(* The recursion that defines Within has a solution: a finite piece of one *)
(* exists for every length, and two pieces agree where both are defined.   *)
Grow(S) == S \cup Ahead(S)
Piece(g, n) ==
  /\ g[0] = {EntryOf(source)}
  /\ \A i \in 1 .. n : g[i] = Grow(g[i - 1])

LEMMA PiecesExist == \A n \in Nat : \E g : Piece(g, n)
<1> SUFFICES ASSUME NEW k \in Nat, ~ \E g : Piece(g, k) PROVE FALSE
  OBVIOUS
<1> DEFINE bad == {n \in Nat : ~ \E g : Piece(g, n)}
<1>1. PICK n \in bad : \A m \in bad : n <= m
  <2>1. bad \in SUBSET Nat /\ bad # {}
    OBVIOUS
  <2> HIDE DEF bad
  <2> QED
    BY <2>1, Least
<1>2. n # 0
  <2>1. Piece([i \in {0} |-> {EntryOf(source)}], 0)
    BY DEF Piece
  <2> QED
    BY <2>1
<1>3. n \in Nat /\ n - 1 \in Nat /\ n - 1 \notin bad
  BY <1>1, <1>2
<1>4. PICK g : Piece(g, n - 1)
  BY <1>3
<1> DEFINE h == [i \in 0 .. n |-> IF i = n THEN Grow(g[n - 1]) ELSE g[i]]
<1>5. h[0] = {EntryOf(source)}
  BY <1>2, <1>3, <1>4 DEF Piece
<1>6. ASSUME NEW i \in 1 .. n PROVE h[i] = Grow(h[i - 1])
  <2>1. i - 1 \in 0 .. n /\ i - 1 # n /\ i \in 0 .. n
    BY <1>3
  <2>2. h[i - 1] = g[i - 1]
    BY <2>1
  <2>3. CASE i = n
    BY <2>1, <2>2, <2>3
  <2>4. CASE i # n
    <3>1. i \in 1 .. n - 1
      BY <1>3, <2>4
    <3> QED
      BY <1>4, <2>1, <2>2, <2>4, <3>1 DEF Piece
  <2> QED
    BY <2>3, <2>4
<1>7. Piece(h, n)
  BY <1>5, <1>6 DEF Piece
<1> QED
  BY <1>1, <1>7

LEMMA PiecesAgree ==
  ASSUME NEW g, NEW h, NEW m \in Nat, NEW n \in Nat, Piece(g, m), Piece(h, n),
         NEW k \in Nat, k <= m, k <= n
  PROVE  g[k] = h[k]
<1> SUFFICES ASSUME g[k] # h[k] PROVE FALSE
  OBVIOUS
<1> DEFINE bad == {i \in Nat : i <= m /\ i <= n /\ g[i] # h[i]}
<1>1. PICK i \in bad : \A j \in bad : i <= j
  <2>1. bad \in SUBSET Nat /\ bad # {}
    OBVIOUS
  <2> HIDE DEF bad
  <2> QED
    BY <2>1, Least
<1>2. i # 0
  BY <1>1 DEF Piece
<1>3. i - 1 \in Nat /\ i - 1 <= m /\ i - 1 <= n /\ i \in 1 .. m /\ i \in 1 .. n
  BY <1>1, <1>2
<1>4. g[i - 1] = h[i - 1]
  BY <1>1, <1>3
<1> QED
  BY <1>1, <1>3, <1>4 DEF Piece

LEMMA WithinSteps ==
  /\ Within[0] = {EntryOf(source)}
  /\ \A n \in Nat \ {0} : Within[n] = Within[n - 1] \cup Ahead(Within[n - 1])
<1> DEFINE P(n) == CHOOSE g : Piece(g, n)
           F == [n \in Nat |-> P(n)[n]]
           Solves(f) == f = [n \in Nat |-> IF n = 0 THEN {EntryOf(source)}
                                           ELSE f[n - 1] \cup Ahead(f[n - 1])]
<1>1. \A n \in Nat : Piece(P(n), n)
  BY PiecesExist
<1> HIDE DEF P
<1>2. F[0] = {EntryOf(source)}
  BY <1>1 DEF Piece
<1>3. ASSUME NEW n \in Nat, n # 0 PROVE F[n] = F[n - 1] \cup Ahead(F[n - 1])
  <2>1. n - 1 \in Nat /\ n \in 1 .. n /\ n - 1 <= n /\ n - 1 <= n - 1
    BY <1>3
  <2>2. P(n)[n] = Grow(P(n)[n - 1])
    BY <1>1, <2>1 DEF Piece
  <2>3. P(n)[n - 1] = P(n - 1)[n - 1]
    BY <1>1, <2>1, PiecesAgree
  <2> QED
    BY <2>1, <2>2, <2>3 DEF Grow
<1>4. Solves(F)
  BY <1>2, <1>3
<1>5. Within = CHOOSE f : Solves(f)
  BY DEF Within
<1> HIDE DEF F, Solves
<1>6. Solves(Within)
  BY <1>4, <1>5
<1> QED
  BY <1>6 DEF Solves

LEMMA WithinBounded ==
  ASSUME NEW T, EntryOf(source) \in T, Ahead(T) \subseteq T, NEW k \in Nat
  PROVE  Within[k] \subseteq T
<1> SUFFICES ASSUME ~ Within[k] \subseteq T PROVE FALSE
  OBVIOUS
<1> DEFINE bad == {n \in Nat : ~ Within[n] \subseteq T}
<1>1. PICK n \in bad : \A m \in bad : n <= m
  <2>1. bad \in SUBSET Nat /\ bad # {}
    OBVIOUS
  <2> HIDE DEF bad
  <2> QED
    BY <2>1, Least
<1>2. n # 0
  BY <1>1, WithinSteps
<1>3. n \in Nat \ {0} /\ Within[n - 1] \subseteq T
  <2>1. n \in Nat /\ n - 1 \in Nat /\ n - 1 \notin bad
    BY <1>1, <1>2
  <2> QED
    BY <1>2, <2>1
<1>4. Ahead(Within[n - 1]) \subseteq Ahead(T)
  BY <1>3 DEF Ahead
<1> QED
  BY <1>1, <1>3, <1>4, WithinSteps

LEMMA WithinStable ==
  ASSUME NEW i \in Nat, Within[i + 1] = Within[i], NEW k \in Nat, i <= k
  PROVE  Within[k] = Within[i]
<1> SUFFICES ASSUME Within[k] # Within[i] PROVE FALSE
  OBVIOUS
<1> DEFINE bad == {n \in Nat : i <= n /\ Within[n] # Within[i]}
<1>1. PICK n \in bad : \A m \in bad : n <= m
  <2>1. bad \in SUBSET Nat /\ bad # {}
    OBVIOUS
  <2> HIDE DEF bad
  <2> QED
    BY <2>1, Least
<1>2. n \in Nat /\ n - 1 \in Nat /\ i <= n - 1 /\ n # 0 /\ n - 1 \notin bad
  BY <1>1
<1>3. Within[n - 1] = Within[i]
  BY <1>2
<1>4. /\ Within[n] = Within[n - 1] \cup Ahead(Within[n - 1])
      /\ Within[i + 1] = Within[i] \cup Ahead(Within[i])
  <2>1. i + 1 \in Nat \ {0} /\ (i + 1) - 1 = i
    OBVIOUS
  <2> QED
    BY <1>2, <2>1, WithinSteps
<1> QED
  BY <1>1, <1>3, <1>4

(* As many rounds as there are vertices are enough.                        *)
LEMMA WithinClosed ==
  ASSUME GivenOK, source \in DOMAIN prog
  PROVE  /\ Reachable \subseteq VerticesOf(prog)
         /\ Ahead(Reachable) \subseteq Reachable
<1> DEFINE V == VerticesOf(prog)
           N == Cardinality(V)
<1>1. IsFiniteSet(V) /\ N \in Nat
  BY ProgramsAssumption, FS_CardinalityType DEF GivenOK
<1>2. Ahead(V) \subseteq V /\ EntryOf(source) \in V
  <2>1. \A e \in edges : e.to \in V
    BY EdgeFacts DEF GivenOK
  <2>2. EntryOf(source) \in V
    BY DEF VerticesOf
  <2> QED
    BY <2>1, <2>2 DEF Ahead
<1> HIDE DEF V
<1>3. \A n \in Nat : Within[n] \subseteq V
  BY <1>2, WithinBounded
<1>4. \A n \in Nat : IsFiniteSet(Within[n]) /\ Cardinality(Within[n]) \in Nat
  BY <1>1, <1>3, FS_Subset, FS_CardinalityType
<1>5. \A n \in Nat : Within[n + 1] = Within[n] \cup Ahead(Within[n])
  <2> TAKE n \in Nat
  <2>1. n + 1 \in Nat \ {0} /\ (n + 1) - 1 = n
    OBVIOUS
  <2> QED
    BY <2>1, WithinSteps
<1>6. ASSUME Within[N + 1] # Within[N] PROVE FALSE
  <2>1. \A i \in Nat : i <= N => Within[i + 1] # Within[i]
    <3> SUFFICES ASSUME NEW i \in Nat, i <= N, Within[i + 1] = Within[i] PROVE FALSE
      OBVIOUS
    <3>1. N + 1 \in Nat /\ i <= N + 1
      BY <1>1
    <3>2. Within[N + 1] = Within[i] /\ Within[N] = Within[i]
      BY <1>1, <3>1, WithinStable
    <3> QED
      BY <1>6, <3>2
  <2>2. ~ Cardinality(Within[N]) >= N + 1
    <3>1. Cardinality(Within[N]) <= N
      BY <1>1, <1>3, FS_Subset DEF N
    <3> QED
      BY <1>1, <1>4, <3>1
  <2> DEFINE bad == {n \in Nat : n <= N /\ ~ Cardinality(Within[n]) >= n + 1}
  <2>3. PICK n \in bad : \A m \in bad : n <= m
    <3>1. bad \in SUBSET Nat /\ bad # {}
      BY <1>1, <2>2
    <3> HIDE DEF bad
    <3> QED
      BY <3>1, Least
  <2>4. n # 0
    <3>1. Cardinality(Within[0]) = 1
      BY WithinSteps, FS_Singleton
    <3> QED
      BY <2>3, <3>1
  <2>5. n \in Nat /\ n - 1 \in Nat /\ n - 1 <= N /\ (n - 1) + 1 = n /\ n - 1 \notin bad
    BY <1>1, <2>3, <2>4
  <2>6. Cardinality(Within[n - 1]) >= n
    BY <1>1, <2>5
  <2>7. Within[n] # Within[n - 1] /\ Within[n - 1] \subseteq Within[n]
    BY <1>5, <2>1, <2>5
  <2>8. Cardinality(Within[n - 1]) < Cardinality(Within[n])
    <3>1. /\ Cardinality(Within[n - 1]) <= Cardinality(Within[n])
          /\ Cardinality(Within[n - 1]) = Cardinality(Within[n]) => Within[n - 1] = Within[n]
      BY <1>4, <2>5, <2>7, FS_Subset
    <3> QED
      BY <1>4, <2>5, <2>7, <3>1
  <2> QED
    BY <1>4, <2>3, <2>5, <2>6, <2>8
<1>7. Within[N] \cup Ahead(Within[N]) = Within[N]
  BY <1>1, <1>5, <1>6
<1>8. Reachable = Within[N]
  BY DEF Reachable, N, V
<1> QED
  BY <1>1, <1>3, <1>7, <1>8 DEF V

LEMMA ReachableFacts ==
  ASSUME GivenOK, source \in DOMAIN prog
  PROVE  /\ EntryOf(source) \in Reachable /\ Reachable \subseteq VerticesOf(prog)
         /\ \A e \in edges : e.from \in Reachable /\ e.kind \in {"plain", "call"}
              => e.to \in Reachable
         /\ \A T : EntryOf(source) \in T /\ Ahead(T) \subseteq T => Reachable \subseteq T
<1>1. Cardinality(VerticesOf(prog)) \in Nat
  BY ProgramsAssumption, FS_CardinalityType DEF GivenOK
<1>2. Within[0] \subseteq Reachable
  <2> DEFINE bad == {n \in Nat : ~ EntryOf(source) \in Within[n]}
  <2>1. SUFFICES ASSUME bad # {} PROVE FALSE
    BY <1>1, WithinSteps DEF Reachable
  <2>2. PICK n \in bad : \A m \in bad : n <= m
    <3>1. bad \in SUBSET Nat
      OBVIOUS
    <3> HIDE DEF bad
    <3> QED
      BY <2>1, <3>1, Least
  <2>3. n # 0
    BY <2>2, WithinSteps
  <2>4. n \in Nat \ {0} /\ n - 1 \in Nat /\ n - 1 \notin bad
    BY <2>2, <2>3
  <2> QED
    BY <2>2, <2>4, WithinSteps
<1>3. \A e \in edges : e.from \in Reachable /\ e.kind \in {"plain", "call"} => e.to \in Reachable
  BY WithinClosed DEF Ahead
<1>4. \A T : EntryOf(source) \in T /\ Ahead(T) \subseteq T => Reachable \subseteq T
  BY <1>1, WithinBounded DEF Reachable
<1> QED
  BY <1>2, <1>3, <1>4, WithinClosed, WithinSteps
-----------------------------------------------------------------------------
(* Where back edges and returns lead.                                      *)

ArcEdge(f, a) == [from |-> <<f, a.from>>, to |-> <<f, a.to>>, kind |-> a.kind, call |-> NoCall]

LEMMA OwnArc ==
  ASSUME NEW p, NEW f \in DOMAIN p, NEW a \in p[f].arcs
  PROVE  ArcEdge(f, a) \in EdgesOf(p)
<1>1. ArcEdge(f, a) \in {ArcEdge(f, x) : x \in p[f].arcs}
  OBVIOUS
<1>2. {ArcEdge(f, x) : x \in p[f].arcs} \subseteq OwnEdges(p)
  BY Zenon DEF OwnEdges, ArcEdge
<1> QED
  BY <1>1, <1>2 DEF EdgesOf

LEMMA EdgeForms ==
  ASSUME NEW p \in Programs, NEW e \in EdgesOf(p)
  PROVE  \/ \E f \in DOMAIN p : \E a \in p[f].arcs : e = ArcEdge(f, a)
         \/ \E c \in Resolved(p) :
              \/ e = [from |-> c, to |-> EntryOf(Callee(p, c)), kind |-> "call", call |-> c]
              \/ e = [from |-> ExitOf(Callee(p, c)), to |-> ReturnPoint(p, c),
                      kind |-> "return", call |-> c]
<1>1. CASE e \in OwnEdges(p)
  BY <1>1 DEF OwnEdges, ArcEdge
<1>2. CASE e \in LinkEdges(p)
  BY <1>2 DEF LinkEdges
<1> QED
  BY <1>1, <1>2 DEF EdgesOf

(* A function one of whose statements is reached has been entered.         *)
LEMMA EntryReached ==
  ASSUME GivenOK, source \in DOMAIN prog, NEW v \in Reachable
  PROVE  EntryOf(v[1]) \in Reachable
<1> DEFINE T == {w \in Reachable : EntryOf(w[1]) \in Reachable}
<1>1. EntryOf(source) \in T
  BY ReachableFacts DEF EntryOf
<1>2. ASSUME NEW e \in edges, e.from \in T, e.kind \in {"plain", "call"}
      PROVE  e.to \in T
  <2>1. e.to \in Reachable
    BY <1>2, ReachableFacts
  <2>2. CASE \E f \in DOMAIN prog : \E a \in prog[f].arcs : e = ArcEdge(f, a)
    <3>1. e.from[1] = e.to[1]
      BY <2>2 DEF ArcEdge
    <3> QED
      BY <1>2, <2>1, <3>1
  <2>3. CASE \E f : e.to = EntryOf(f)
    <3>1. EntryOf(e.to[1]) = e.to
      BY <2>3 DEF EntryOf
    <3> QED
      BY <2>1, <3>1
  <2> QED
    BY <1>2, <2>2, <2>3, EdgeForms DEF GivenOK
<1>3. Ahead(T) \subseteq T
  <2> HIDE DEF T
  <2> QED
    BY <1>2 DEF Ahead
<1>4. Reachable \subseteq T
  <2> HIDE DEF T
  <2> QED
    BY <1>1, <1>3, ReachableFacts
<1> QED
  BY <1>4

(* The target of a back edge is reached without it.                        *)
LEMMA HeaderReached ==
  ASSUME GivenOK, source \in DOMAIN prog, NEW f \in DOMAIN prog, NEW a \in prog[f].arcs,
         <<f, a.from>> \in Reachable, a.kind = "back"
  PROVE  <<f, a.to>> \in Reachable
<1> DEFINE S == {n \in {0} \cup {b.to : b \in prog[f].arcs} : <<f, n>> \in Reachable}
<1>1. <<f, 0>> \in Reachable
  <2>1. EntryOf(<<f, a.from>>[1]) \in Reachable
    BY EntryReached
  <2> QED
    BY <2>1 DEF EntryOf
<1>2. ASSUME NEW b \in prog[f].arcs, b.from \in S, b.kind = "plain"
      PROVE  b.to \in S
  <2>1. ArcEdge(f, b) \in edges
    BY OwnArc DEF GivenOK
  <2>2. ArcEdge(f, b).from \in Reachable /\ ArcEdge(f, b).kind = "plain" /\ ArcEdge(f, b).to = <<f, b.to>>
    BY <1>2 DEF ArcEdge
  <2>3. <<f, b.to>> \in Reachable
    BY <2>1, <2>2, ReachableFacts
  <2> QED
    BY <2>3
<1>3. S \in SUBSET ({0} \cup {b.to : b \in prog[f].arcs}) /\ 0 \in S
  BY <1>1
<1> HIDE DEF S
<1>4. a.to \in S
  BY <1>2, <1>3, ProgramsAssumption DEF GivenOK
<1> QED
  BY <1>4 DEF S

(* Where a call returns to is reached if the call is.                      *)
LEMMA ReturnReached ==
  ASSUME GivenOK, source \in DOMAIN prog, NEW c \in CallSites(prog), c \in Reachable
  PROVE  ReturnPoint(prog, c) \in Reachable
<1>0. PICK f \in DOMAIN prog : \E n \in DOMAIN prog[f].calls : c = <<f, n>>
  BY DEF CallSites
<1>1. PICK n \in DOMAIN prog[f].calls : c = <<f, n>>
  BY <1>0
<1> DEFINE a == CHOOSE x \in prog[f].arcs : x.from = n /\ x.kind # "impossible"
<1>2. a \in prog[f].arcs /\ a.from = n /\ a.kind # "impossible"
  <2>1. \E x \in prog[f].arcs :
          {b \in prog[f].arcs : b.from = n /\ b.kind # "impossible"} = {x}
    BY ProgramsAssumption DEF GivenOK
  <2>2. \E x \in prog[f].arcs : x.from = n /\ x.kind # "impossible"
    BY <2>1
  <2> QED
    BY <2>2
<1>3. ReturnPoint(prog, c) = <<f, a.to>>
  BY <1>1 DEF ReturnPoint
<1> HIDE DEF a
<1>4. a.kind \in {"plain", "back"}
  BY <1>2, ProgramsAssumption DEF ArcKind, GivenOK
<1>5. CASE a.kind = "plain"
  <2>1. ArcEdge(f, a) \in edges
    BY <1>2, OwnArc DEF GivenOK
  <2>2. ArcEdge(f, a).from \in Reachable /\ ArcEdge(f, a).kind = "plain" /\ ArcEdge(f, a).to = <<f, a.to>>
    BY <1>1, <1>2, <1>5 DEF ArcEdge
  <2> QED
    BY <1>3, <2>1, <2>2, ReachableFacts
<1>6. CASE a.kind = "back"
  BY <1>1, <1>2, <1>3, <1>6, HeaderReached
<1> QED
  BY <1>4, <1>5, <1>6

-----------------------------------------------------------------------------
(* The verdict.  Whatever frames are on the stack, a vertex that has once  *)
(* been discovered, in whatever frame, is reachable; and its edges ahead   *)
(* lead to discovered vertices unless the walk is still to examine them.   *)

Discovered == DOMAIN order

FramesKnown(fs, D) ==
  \A n \in 1 .. Len(fs) : /\ DOMAIN fs[n].color \subseteq D
                          /\ fs[n].call \in D \cup {NoCall}

(* The edge at place k of what leaves v has been taken, or is to come.     *)
Settled(o, d, v, k) ==
  o[v][k].kind \in {"plain", "call"} =>
    \/ o[v][k].to \in DOMAIN o
    \/ \E n \in 1 .. Len(d) : d[n].v = v /\ d[n].at < k

VerdictInv ==
  /\ source \in DOMAIN prog
  /\ FramesKnown(frames, Discovered)
  /\ EntryOf(source) \in Discovered /\ Discovered \subseteq Reachable
  /\ verdict = "violation" => EntryOf(sink) \in Discovered
  /\ verdict = "no violation" => dfs = <<>>
  /\ source # sink /\ verdict # "violation" =>
       /\ EntryOf(sink) \notin Discovered
       /\ \A v \in Discovered : \A k \in 1 .. Len(order[v]) : Settled(order, dfs, v, k)

LEMMA SameReachable == GivenOK /\ UNCHANGED given => Reachable' = Reachable
<1> SUFFICES ASSUME GivenOK, UNCHANGED given PROVE Reachable' = Reachable
  OBVIOUS
<1>1. prog' = prog /\ edges' = edges /\ source' = source
  BY DEF given
<1> QED
  BY <1>1 DEF Reachable, Within, Ahead

LEMMA OrdersExtend ==
  ASSUME NEW v, NEW o \in OrdersWith(edges, order, v)
  PROVE  /\ DOMAIN o = Discovered \cup {v}
         /\ \A w \in Discovered : o[w] = order[w]
<1>1. CASE v \in DOMAIN order
  BY <1>1 DEF OrdersWith, Discovered
<1>2. CASE v \notin DOMAIN order
  <2>1. PICK s \in Orderings(OutEdges(edges, v)) :
          o = [w \in DOMAIN order \cup {v} |-> IF w = v THEN s ELSE order[w]]
    BY <1>2 DEF OrdersWith
  <2> QED
    BY <1>2, <2>1 DEF Discovered
<1> QED
  BY <1>1, <1>2

LEMMA ExaminedFacts ==
  ASSUME SearchInv, Working
  PROVE  LET k == Last(dfs).at + 1 IN
           /\ k \in 1 .. Len(order[Here]) /\ Examined = order[Here][k]
           /\ Here \in Discovered /\ Examined \in edges /\ Examined.from = Here
<1>1. Len(dfs) \in Nat \ {0} /\ Last(dfs) \in [v : DOMAIN order, at : Nat]
  BY LastInSeq DEF SearchInv, Working
<1>2. Here \in Discovered /\ Last(dfs).at \in Nat
  BY <1>1 DEF Here, Discovered
<1>3. order[Here] \in Orderings(OutEdges(edges, Here))
  BY <1>2 DEF SearchInv, OrderOK, Discovered
<1>4. order[Here] \in Seq(OutEdges(edges, Here)) /\ Len(order[Here]) \in Nat
  <2> DEFINE S == OutEdges(edges, Here)
  <2>1. S \subseteq edges /\ IsFiniteSet(edges)
    BY ProgramsAssumption DEF OutEdges, SearchInv, GivenOK
  <2>2. Cardinality(S) \in Nat
    BY <2>1, FS_Subset, FS_CardinalityType
  <2>3. order[Here] \in [1 .. Cardinality(S) -> S]
    BY <1>3 DEF Orderings
  <2> HIDE DEF S
  <2>4. order[Here] \in Seq(S)
    BY <2>2, <2>3, SeqDef
  <2> QED
    BY <2>4, LenProperties DEF S
<1>5. Last(dfs).at + 1 \in 1 .. Len(order[Here])
  BY <1>2, <1>4 DEF Working, MoreEdges
<1>6. Examined \in OutEdges(edges, Here)
  BY <1>4, <1>5, ElementOfSeq DEF Examined
<1> QED
  BY <1>2, <1>5, <1>6 DEF OutEdges, Examined

LEMMA AdvancedFacts ==
  ASSUME SearchInv, dfs # <<>>
  PROVE  /\ Len(Advanced) = Len(dfs) /\ Len(dfs) \in Nat \ {0}
         /\ \A n \in 1 .. Len(dfs) : n # Len(dfs) => Advanced[n] = dfs[n]
         /\ Advanced[Len(dfs)].v = Here
         /\ Advanced[Len(dfs)].at = Last(dfs).at + 1
         /\ Last(dfs).at \in Nat
<1> DEFINE T == [v : DOMAIN order, at : Nat]
           m == Len(dfs)
           f == [dfs[m] EXCEPT !.at = dfs[m].at + 1]
<1>1. dfs \in Seq(T) /\ m \in Nat \ {0} /\ dfs[m] \in T
  BY LastInSeq DEF SearchInv, Last
<1>2. f \in T /\ f.v = dfs[m].v /\ f.at = dfs[m].at + 1
  BY <1>1
<1>3. Advanced = [dfs EXCEPT ![m] = f]
  BY DEF Advanced
<1>4. m \in 1 .. m
  BY <1>1
<1> HIDE DEF f, T
<1>5. /\ Len(Advanced) = m
      /\ \A n \in 1 .. m : Advanced[n] = IF n = m THEN f ELSE dfs[n]
  BY <1>1, <1>2, <1>3, <1>4, ExceptSeq
<1> QED
  BY <1>1, <1>2, <1>4, <1>5 DEF Here, Last, T

(* Once the edge examined leads to a discovered vertex, or is none the     *)
(* walk takes forward, the iterator may move on.                           *)
LEMMA AdvanceSettles ==
  ASSUME SearchInv, Working, NEW o,
         Discovered \subseteq DOMAIN o, \A w \in Discovered : o[w] = order[w],
         Examined.kind \in {"plain", "call"} => Examined.to \in DOMAIN o,
         NEW v \in Discovered, NEW k \in 1 .. Len(order[v]), Settled(order, dfs, v, k)
  PROVE  Settled(o, Advanced, v, k)
<1>0. dfs # <<>>
  BY DEF Working
<1>1. o[v][k] = order[v][k]
  OBVIOUS
<1> SUFFICES ASSUME order[v][k].kind \in {"plain", "call"}, order[v][k].to \notin DOMAIN o
             PROVE  \E n \in 1 .. Len(Advanced) : Advanced[n].v = v /\ Advanced[n].at < k
  BY <1>1 DEF Settled
<1>2. PICK n \in 1 .. Len(dfs) : dfs[n].v = v /\ dfs[n].at < k
  BY DEF Settled, Discovered
<1>3. CASE n # Len(dfs)
  BY <1>0, <1>2, <1>3, AdvancedFacts
<1>4. CASE n = Len(dfs)
  <2>1. Here = v /\ Last(dfs).at = dfs[n].at
    BY <1>2, <1>4 DEF Here, Last
  <2>2. k # Last(dfs).at + 1
    BY <2>1, ExaminedFacts
  <2>3. k \in Nat /\ Last(dfs).at \in Nat /\ Len(dfs) \in Nat \ {0}
    <3>1. Len(order[v]) \in Nat \/ k \in Int
      OBVIOUS
    <3> QED
      BY <1>0, <1>2, <2>1, AdvancedFacts, ExaminedFacts
  <2>4. Last(dfs).at + 1 < k
    BY <1>2, <2>1, <2>2, <2>3
  <2> QED
    BY <1>0, <1>4, <2>1, <2>3, <2>4, AdvancedFacts
<1> QED
  BY <1>3, <1>4

LEMMA PaintKnown ==
  ASSUME NEW fs, StackOK(fs), NEW D, FramesKnown(fs, D), NEW v \in D, NEW c
  PROVE  FramesKnown(Paint(fs, v, c), D)
<1> DEFINE n   == Len(fs)
           old == fs[n].color
           new == [w \in DOMAIN old \cup {v} |-> IF w = v THEN c ELSE old[w]]
           f   == [fs[n] EXCEPT !.color = new]
<1>1. n \in Nat /\ n \in 1 .. Len(fs) /\ DOMAIN fs = 1 .. n
  BY LenProperties DEF StackOK
<1>2. fs[n] \in Frame(prog)
  BY <1>1, ElementOfSeq DEF StackOK
<1>3. DOMAIN old \subseteq D /\ fs[n].call \in D \cup {NoCall}
  BY <1>1 DEF FramesKnown
<1>4. DOMAIN new \subseteq D
  BY <1>3
<1>5. Paint(fs, v, c) = [fs EXCEPT ![n] = f]
  BY DEF Paint
<1> HIDE DEF new
<1>6. f.color = new /\ f.call = fs[n].call
  BY <1>2 DEF Frame
<1> HIDE DEF f
<1>7. Len([fs EXCEPT ![n] = f]) = n
  BY <1>1
<1>8. \A i \in 1 .. n : [fs EXCEPT ![n] = f][i] = IF i = n THEN f ELSE fs[i]
  BY <1>1
<1> QED
  BY <1>1, <1>3, <1>4, <1>5, <1>6, <1>7, <1>8 DEF FramesKnown

LEMMA FramesThere ==
  ASSUME SearchInv
  PROVE  frames \in Seq(Frame(prog)) /\ Len(frames) \in Nat \ {0} /\ frames # <<>>
<1>1. frames \in Seq(Frame(prog)) /\ Len(frames) >= 1
  BY DEF SearchInv, StackOK
<1>2. Len(frames) \in Nat
  BY <1>1, LenProperties
<1> QED
  BY <1>1, <1>2, EmptySeq

LEMMA FramesForKnown ==
  ASSUME SearchInv, Working, ~Skipped(Examined), FramesKnown(frames, Discovered)
  PROVE  FramesKnown(FramesFor(Examined), Discovered)
<1> DEFINE e == Examined
           m == Len(frames)
<1>1. e \in edges /\ e.from = Here /\ Here \in Discovered
  BY ExaminedFacts
<1>2. frames \in Seq(Frame(prog)) /\ m \in Nat \ {0} /\ frames # <<>>
  BY FramesThere
<1>3. CASE e.kind = "return"
  <2>1. FramesFor(e) = Front(frames)
    BY <1>3 DEF FramesFor
  <2>2. Len(Front(frames)) = m - 1 /\ \A n \in 1 .. m - 1 : Front(frames)[n] = frames[n]
    BY <1>2, FrontSeq
  <2>3. \A n \in 1 .. m - 1 : n \in 1 .. m
    BY <1>2
  <2> QED
    BY <2>1, <2>2, <2>3 DEF FramesKnown
<1>4. CASE e.kind = "call"
  <2>1. e.call = e.from
    <3>1. e \in EdgesOf(prog) /\ prog \in Programs
      BY <1>1 DEF SearchInv, GivenOK
    <3>2. \A f, a : ArcEdge(f, a).kind = a.kind
      BY DEF ArcEdge
    <3>3. \A f \in DOMAIN prog : \A a \in prog[f].arcs : a.kind # "call"
      BY <3>1, ProgramsAssumption DEF ArcKind
    <3> QED
      BY <1>4, <3>1, <3>2, <3>3, EdgeForms
  <2>2. FramesFor(e) = Append(frames, NewFrame(e.call))
    BY <1>4 DEF FramesFor
  <2>3. DOMAIN NewFrame(e.call).color = {} /\ NewFrame(e.call).call \in Discovered
    <3>1. DOMAIN <<>> = {}
      OBVIOUS
    <3> QED
      BY <1>1, <2>1, <3>1 DEF NewFrame
  <2>4. /\ Len(FramesFor(e)) = m + 1 /\ FramesFor(e)[m + 1] = NewFrame(e.call)
        /\ \A n \in 1 .. m : FramesFor(e)[n] = frames[n]
    BY <1>2, <2>2
  <2>5. \A n \in 1 .. m + 1 : n \in 1 .. m \/ n = m + 1
    BY <1>2
  <2> QED
    BY <2>3, <2>4, <2>5 DEF FramesKnown
<1>5. CASE e.kind \notin {"call", "return"}
  BY <1>5 DEF FramesFor
<1> QED
  BY <1>3, <1>4, <1>5

(* Where an edge leads that is not skipped can be reached: a return goes   *)
(* to where the call that pushed the top frame returns to.                 *)
LEMMA TargetReached ==
  ASSUME SearchInv, VerdictInv, Working, ~Skipped(Examined)
  PROVE  Examined.to \in Reachable
<1> DEFINE e == Examined
<1>1. e \in edges /\ e.from \in Reachable /\ GivenOK /\ source \in DOMAIN prog
  BY ExaminedFacts DEF VerdictInv, SearchInv
<1>2. e.kind \in {"plain", "call", "return"}
  <2>1. e.kind \in EdgeKind
    BY <1>1, EdgeFacts DEF GivenOK
  <2> QED
    BY <2>1 DEF Skipped, EdgeKind, ArcKind
<1>3. CASE e.kind \in {"plain", "call"}
  BY <1>1, <1>3, ReachableFacts
<1>4. CASE e.kind = "return"
  <2>1. e.call \in CallSites(prog) /\ e.call # NoCall
    BY <1>1, <1>4, EdgeFacts DEF GivenOK
  <2>2. e.to = ReturnPoint(prog, e.call)
    <3>1. e \in EdgesOf(prog) /\ prog \in Programs
      BY <1>1 DEF GivenOK
    <3>2. \A f, a : ArcEdge(f, a).kind = a.kind
      BY DEF ArcEdge
    <3>3. \A f \in DOMAIN prog : \A a \in prog[f].arcs : a.kind # "return"
      BY <3>1, ProgramsAssumption DEF ArcKind
    <3> QED
      BY <1>4, <3>1, <3>2, <3>3, EdgeForms
  <2>3. e.call = frames[Len(frames)].call
    BY <1>4 DEF Skipped, Matches, TopFrame, Last
  <2>4. Len(frames) \in 1 .. Len(frames)
    BY FramesThere
  <2>5. e.call \in Reachable
    BY <2>1, <2>3, <2>4 DEF VerdictInv, FramesKnown
  <2> QED
    BY <1>1, <2>1, <2>2, <2>5, ReturnReached
<1> QED
  BY <1>2, <1>3, <1>4

LEMMA InitVerdict == Init => VerdictInv
<1> SUFFICES ASSUME Init PROVE VerdictInv
  OBVIOUS
<1> DEFINE s == EntryOf(source)
<1>1. SearchInv /\ GivenOK /\ source \in DOMAIN prog /\ verdict = "running" /\ sink \in DOMAIN prog
  BY InitGood DEF Init, SearchInv
<1>2. Discovered = {s}
  <2>1. DOMAIN <<>> = {} /\ order \in OrdersWith(edges, <<>>, s)
    BY DEF Init
  <2> QED
    BY <2>1 DEF OrdersWith, Discovered
<1>3. s \in Reachable
  BY <1>1, ReachableFacts
<1>4. FramesKnown(frames, Discovered)
  <2>1. DOMAIN <<>> = {}
    OBVIOUS
  <2>2. NewFrame(NoCall).call = NoCall /\ DOMAIN NewFrame(NoCall).color = {}
    BY <2>1 DEF NewFrame
  <2>3. <<>> \in [{} -> Colors] /\ {} \in SUBSET VerticesOf(prog)
    OBVIOUS
  <2>4. NewFrame(NoCall) \in Frame(prog)
    BY <2>2, <2>3 DEF NewFrame, Frame
  <2>5. StackOK(<<NewFrame(NoCall)>>) /\ FramesKnown(<<NewFrame(NoCall)>>, Discovered)
    BY <2>2, <2>4 DEF StackOK, FramesKnown
  <2> QED
    BY <1>2, <2>5, PaintKnown DEF Init
<1>5. source # sink =>
        /\ EntryOf(sink) \notin Discovered
        /\ \A v \in Discovered : \A k \in 1 .. Len(order[v]) : Settled(order, dfs, v, k)
  <2> SUFFICES ASSUME source # sink
               PROVE  /\ EntryOf(sink) \notin Discovered
                      /\ \A k \in 1 .. Len(order[s]) : Settled(order, dfs, s, k)
    BY <1>2
  <2>1. Len(dfs) = 1 /\ dfs[1].v = s /\ dfs[1].at = 0
    BY DEF Init
  <2>2. EntryOf(sink) # s
    BY DEF EntryOf
  <2>3. ASSUME NEW k \in 1 .. Len(order[s]) PROVE 0 < k
    BY <1>1, <1>2, OrderingFacts, LenProperties DEF SearchInv, OrderOK, GivenOK, Discovered
  <2>4. 1 \in 1 .. Len(dfs)
    BY <2>1
  <2> QED
    BY <1>2, <2>1, <2>2, <2>3, <2>4 DEF Settled
<1> QED
  BY <1>1, <1>2, <1>3, <1>4, <1>5 DEF VerdictInv

(* Steps.                                                                  *)

LEMMA AdvanceVerdict ==
  ASSUME SearchInv, VerdictInv, Working, dfs' = Advanced, UNCHANGED <<given, order, verdict>>,
         FramesKnown(frames', Discovered),
         Examined.kind \in {"plain", "call"} => Examined.to \in Discovered
  PROVE  VerdictInv'
<1>1. Reachable' = Reachable /\ Discovered' = Discovered
  BY SameReachable DEF SearchInv, Discovered
<1>2. ASSUME NEW v \in Discovered, NEW k \in 1 .. Len(order[v]), Settled(order, dfs, v, k)
      PROVE  Settled(order', dfs', v, k)
  BY <1>2, AdvanceSettles DEF Discovered
<1>3. verdict' # "no violation"
  BY DEF Working
<1> QED
  BY <1>1, <1>2, <1>3 DEF VerdictInv, given

LEMMA DiscoverVerdict ==
  ASSUME SearchInv, VerdictInv, Discover
  PROVE  VerdictInv'
<1> DEFINE e  == Examined
           fs == FramesFor(e)
<1>1. Working /\ ~Skipped(e) /\ verdict = "running" /\ dfs # <<>> /\ UNCHANGED given
  BY DEF Discover, Working
<1>2. Reachable' = Reachable
  BY <1>1, SameReachable DEF SearchInv
<1>3. CASE Len(fs) <= MaxFrames
  <2>1. Enter(e, fs)
    BY <1>3 DEF Discover
  <2>2. order' \in OrdersWith(edges, order, e.to)
    BY <2>1 DEF Enter
  <2>3. Discovered' = Discovered \cup {e.to} /\ \A w \in Discovered : order'[w] = order[w]
    BY <2>2, OrdersExtend DEF Discovered
  <2>4. FramesKnown(frames', Discovered')
    <3>1. FramesKnown(fs, Discovered')
      BY <1>1, <2>3, FramesForKnown DEF VerdictInv, FramesKnown
    <3>2. StackOK(fs)
      BY <1>1, ExaminedFacts, FramesForGood DEF SearchInv
    <3>3. frames' = Paint(fs, e.to, "gray") /\ e.to \in Discovered'
      BY <2>1, <2>3 DEF Enter
    <3> HIDE DEF fs, e
    <3> QED
      BY <3>1, <3>2, <3>3, PaintKnown
  <2>5. Discovered' \subseteq Reachable /\ EntryOf(source) \in Discovered'
    BY <1>1, <2>3, TargetReached DEF VerdictInv
  <2>6. CASE e.to = EntryOf(sink)
    <3>1. verdict' = "violation" /\ EntryOf(sink) \in Discovered'
      BY <2>1, <2>3, <2>6 DEF Enter
    <3> QED
      BY <1>1, <1>2, <2>4, <2>5, <3>1 DEF VerdictInv, given
  <2>7. CASE e.to # EntryOf(sink)
    <3>1. verdict' = "running" /\ dfs' = Append(Advanced, [v |-> e.to, at |-> 0])
      BY <1>1, <2>1, <2>7 DEF Enter
    <3>2. /\ Len(dfs) \in Nat \ {0} /\ Len(dfs') = Len(dfs) + 1
          /\ \A n \in 1 .. Len(dfs) : dfs'[n] = Advanced[n]
          /\ dfs'[Len(dfs) + 1].v = e.to /\ dfs'[Len(dfs) + 1].at = 0
          /\ Len(Advanced) = Len(dfs)
      <4>1. Advanced \in Seq([v : DOMAIN order, at : Nat])
        BY <1>1, AdvancedSeq
      <4>2. Len(Advanced) = Len(dfs) /\ Len(dfs) \in Nat \ {0}
        BY <1>1, AdvancedFacts
      <4> QED
        BY <3>1, <4>1, <4>2
    <3>3. ASSUME source # sink, NEW v \in Discovered', NEW k \in 1 .. Len(order'[v])
          PROVE  Settled(order', dfs', v, k)
      <4>1. CASE v \in Discovered
        <5>1. k \in 1 .. Len(order[v]) /\ Settled(order, dfs, v, k)
          BY <1>1, <2>3, <3>3, <4>1 DEF VerdictInv
        <5>2. Settled(order', Advanced, v, k)
          BY <1>1, <2>3, <4>1, <5>1, AdvanceSettles DEF Discovered
        <5>3. \A n \in 1 .. Len(Advanced) : n \in 1 .. Len(dfs') /\ dfs'[n] = Advanced[n]
          BY <3>2
        <5> QED
          BY <5>2, <5>3 DEF Settled
      <4>2. CASE v = e.to
        <5>1. 0 < k
          <6>1. order'[v] \in Seq(edges)
            <7>1. SearchInv'
              BY DiscoverGood
            <7>2. OrderOK(order)' /\ GivenOK'
              BY <7>1 DEF SearchInv
            <7> QED
              BY <1>1, <3>3, <7>2, OrderingFacts DEF OrderOK, GivenOK, Discovered, given
          <6> QED
            BY <6>1, <3>3, LenProperties
        <5>2. Len(dfs) + 1 \in 1 .. Len(dfs')
          BY <3>2
        <5> QED
          BY <3>2, <4>2, <5>1, <5>2 DEF Settled
      <4> QED
        BY <2>3, <4>1, <4>2
    <3>4. source # sink => EntryOf(sink) \notin Discovered'
      BY <1>1, <2>3, <2>7 DEF VerdictInv
    <3> QED
      BY <1>1, <1>2, <2>4, <2>5, <3>1, <3>3, <3>4 DEF VerdictInv, given
  <2> QED
    BY <2>6, <2>7
<1>4. CASE ~(Len(fs) <= MaxFrames)
  <2>1. verdict' = "exhausted" /\ UNCHANGED <<order, frames, dfs, path>>
    BY <1>4 DEF Discover
  <2>2. Discovered' = Discovered
    BY <2>1 DEF Discovered
  <2> QED
    BY <1>1, <1>2, <2>1, <2>2 DEF VerdictInv, given
<1> QED
  BY <1>3, <1>4

LEMMA FinishVerdict ==
  ASSUME SearchInv, VerdictInv, Finish
  PROVE  VerdictInv'
<1>1. /\ verdict = "running" /\ dfs # <<>> /\ ~MoreEdges /\ UNCHANGED <<given, order>>
      /\ frames' = Paint(frames, Here, "black") /\ dfs' = Front(dfs)
      /\ verdict' = IF Len(dfs) = 1 THEN "no violation" ELSE verdict
  BY DEF Finish
<1>2. Reachable' = Reachable /\ Discovered' = Discovered
  BY <1>1, SameReachable DEF SearchInv, Discovered
<1>3. /\ Len(dfs) \in Nat \ {0} /\ Here \in Discovered /\ Last(dfs).at \in Nat
      /\ Len(Front(dfs)) = Len(dfs) - 1
      /\ \A n \in 1 .. Len(dfs) - 1 : Front(dfs)[n] = dfs[n]
      /\ Front(dfs) \in Seq([v : DOMAIN order, at : Nat])
  <2> DEFINE T == [v : DOMAIN order, at : Nat]
  <2>1. dfs \in Seq(T) /\ dfs # <<>>
    BY <1>1 DEF SearchInv
  <2> HIDE DEF T
  <2>2. Len(dfs) \in Nat \ {0} /\ Last(dfs) \in T
    BY <2>1, LastInSeq
  <2>3. /\ Front(dfs) \in Seq(T) /\ Len(Front(dfs)) = Len(dfs) - 1
        /\ \A n \in 1 .. Len(dfs) - 1 : Front(dfs)[n] = dfs[n]
    BY <2>1, FrontSeq
  <2> QED
    BY <2>2, <2>3 DEF T, Here, Discovered
<1>4. FramesKnown(frames', Discovered)
  BY <1>1, <1>3, PaintKnown DEF SearchInv, VerdictInv
<1>5. ASSUME NEW v \in Discovered, NEW k \in 1 .. Len(order[v]), Settled(order, dfs, v, k)
      PROVE  Settled(order, Front(dfs), v, k)
  <2> SUFFICES ASSUME order[v][k].kind \in {"plain", "call"}, order[v][k].to \notin DOMAIN order
               PROVE  \E n \in 1 .. Len(Front(dfs)) : Front(dfs)[n].v = v /\ Front(dfs)[n].at < k
    BY DEF Settled
  <2>1. PICK n \in 1 .. Len(dfs) : dfs[n].v = v /\ dfs[n].at < k
    BY <1>5 DEF Settled
  <2>2. n # Len(dfs)
    <3> SUFFICES ASSUME n = Len(dfs) PROVE FALSE
      OBVIOUS
    <3>1. Here = v /\ Last(dfs).at = dfs[n].at
      BY <2>1 DEF Here, Last
    <3>2. Len(order[v]) \in Nat
      BY <1>5, OrderingFacts, LenProperties DEF SearchInv, OrderOK, GivenOK, Discovered
    <3>3. ~ Last(dfs).at < Len(order[v])
      BY <1>1, <3>1 DEF MoreEdges
    <3> QED
      BY <1>3, <2>1, <3>1, <3>2, <3>3
  <2>3. n \in 1 .. Len(Front(dfs)) /\ Front(dfs)[n] = dfs[n]
    BY <1>3, <2>2
  <2> QED
    BY <2>1, <2>3
<1>6. verdict' = "no violation" => dfs' = <<>>
  <2> SUFFICES ASSUME Len(dfs) = 1 PROVE Front(dfs) = <<>>
    BY <1>1
  <2>1. Len(Front(dfs)) = 0
    BY <1>3
  <2> QED
    BY <1>3, <2>1, EmptySeq
<1>7. verdict' # "violation"
  BY <1>1
<1> QED
  BY <1>1, <1>2, <1>4, <1>5, <1>6, <1>7 DEF VerdictInv, given

LEMMA VerdictStep == SearchInv /\ VerdictInv /\ [Next]_vars => VerdictInv'
<1> SUFFICES ASSUME SearchInv, VerdictInv, [Next]_vars PROVE VerdictInv'
  OBVIOUS
<1>1. CASE Skip
  <2>1. /\ Working /\ Skipped(Examined) /\ dfs' = Advanced
        /\ UNCHANGED <<given, order, frames, path, verdict>>
    BY <1>1 DEF Skip
  <2>2. Examined.kind \notin {"plain", "call"}
    BY <2>1 DEF Skipped
  <2>3. FramesKnown(frames', Discovered)
    BY <2>1 DEF VerdictInv
  <2> QED
    BY <2>1, <2>2, <2>3, AdvanceVerdict
<1>2. CASE Discover
  BY <1>2, DiscoverVerdict
<1>3. CASE AlreadyColored
  <2> DEFINE fs == FramesFor(Examined)
  <2>1. /\ Working /\ ~Skipped(Examined) /\ ColorIn(fs, Examined.to) # "white"
        /\ frames' = fs /\ dfs' = Advanced
        /\ UNCHANGED <<given, order, path, verdict>>
    BY <1>3 DEF AlreadyColored
  <2>2. FramesKnown(fs, Discovered)
    BY <2>1, FramesForKnown DEF VerdictInv
  <2>3. StackOK(fs)
    BY <2>1, ExaminedFacts, FramesForGood DEF SearchInv
  <2> HIDE DEF fs
  <2>4. Len(fs) \in 1 .. Len(fs)
    <3>1. fs \in Seq(Frame(prog)) /\ Len(fs) >= 1
      BY <2>3 DEF StackOK
    <3>2. Len(fs) \in Nat
      BY <3>1, LenProperties
    <3> QED
      BY <3>1, <3>2
  <2>5. Examined.to \in Discovered
    BY <2>1, <2>2, <2>4 DEF ColorIn, FramesKnown, Last
  <2> QED
    BY <2>1, <2>2, <2>5, AdvanceVerdict
<1>4. CASE Finish
  BY <1>4, FinishVerdict
<1>5. CASE Reported \/ UNCHANGED vars
  <2>1. UNCHANGED <<given, order, frames, dfs, path, verdict>>
    BY <1>5 DEF Reported, vars
  <2>2. Reachable' = Reachable /\ Discovered' = Discovered
    BY <2>1, SameReachable DEF SearchInv, Discovered
  <2>3. /\ source' = source /\ sink' = sink /\ prog' = prog
        /\ order' = order /\ frames' = frames /\ dfs' = dfs /\ verdict' = verdict
    BY <2>1 DEF given
  <2>4. EntryOf(source)' = EntryOf(source) /\ EntryOf(sink)' = EntryOf(sink)
    BY <2>3 DEF EntryOf
  <2>5. FramesKnown(frames, Discovered)'
    BY <2>2, <2>3 DEF VerdictInv, FramesKnown
  <2>6. (\A v \in Discovered : \A k \in 1 .. Len(order[v]) : Settled(order, dfs, v, k)) =>
        (\A v \in Discovered : \A k \in 1 .. Len(order[v]) : Settled(order, dfs, v, k))'
    BY <2>2, <2>3 DEF Settled
  <2> QED
    BY <2>2, <2>3, <2>4, <2>5, <2>6 DEF VerdictInv
<1> QED
  BY <1>1, <1>2, <1>3, <1>4, <1>5 DEF Next, Walk

(* Every edge of a vertex has its place in an order of the vertex.         *)
LEMMA OrderCovers ==
  ASSUME NEW P \in Programs, NEW v, NEW s \in Orderings(OutEdges(EdgesOf(P), v)),
         NEW e \in EdgesOf(P), e.from = v
  PROVE  \E k \in 1 .. Len(s) : s[k] = e
<1> DEFINE S == OutEdges(EdgesOf(P), v)
           n == Cardinality(S)
<1>1. IsFiniteSet(S) /\ n \in Nat
  <2>1. S \subseteq EdgesOf(P) /\ IsFiniteSet(EdgesOf(P))
    BY ProgramsAssumption DEF OutEdges
  <2> QED
    BY <2>1, FS_Subset, FS_CardinalityType
<1>2. s \in [1 .. n -> S] /\ \A i, j \in 1 .. n : s[i] = s[j] => i = j
  BY DEF Orderings
<1>6. e \in S
  BY DEF OutEdges
<1> HIDE DEF S
<1>3. s \in Injection(1 .. n, S)
  BY <1>2 DEF Injection, IsInjective
<1>4. Cardinality(1 .. n) = n
  <2> HIDE DEF n
  <2>1. Cardinality(1 .. n) = IF 1 > n THEN 0 ELSE n - 1 + 1
    BY <1>1, FS_Interval
  <2> QED
    BY <1>1, <2>1
<1>5. s \in Surjection(1 .. n, S)
  BY <1>1, <1>3, <1>4, FS_Injection DEF n
<1>7. Len(s) = n
  BY <1>1, <1>2
<1> HIDE DEF n
<1> QED
  BY <1>5, <1>6, <1>7 DEF Surjection

LEMMA OrderHasAll ==
  ASSUME SearchInv, NEW v \in Discovered, NEW e \in edges, e.from = v
  PROVE  \E k \in 1 .. Len(order[v]) : order[v][k] = e
<1>1. prog \in Programs /\ edges = EdgesOf(prog)
  BY DEF SearchInv, GivenOK
<1>2. order[v] \in Orderings(OutEdges(EdgesOf(prog), v))
  BY <1>1 DEF SearchInv, OrderOK, Discovered
<1> QED
  BY <1>1, <1>2, OrderCovers

(* Both verdicts of RunRule are right, for every program, source and sink, *)
(* every order of the edges, and whatever frames the walk has left behind  *)
(* or popped early.                                                        *)
THEOREM VerdictsAreCorrect == Spec => []VerdictCorrect
<1>1. Init => VerdictInv
  BY InitVerdict
<1>2. SearchInv /\ VerdictInv /\ [Next]_vars => VerdictInv'
  BY VerdictStep
<1>3. SearchInv /\ VerdictInv => VerdictCorrect
  <2> SUFFICES ASSUME SearchInv, VerdictInv PROVE VerdictCorrect
    OBVIOUS
  <2>1. verdict = "violation" => EntryOf(sink) \in Reachable
    BY DEF VerdictInv
  <2>2. ASSUME verdict = "no violation", source # sink
        PROVE  EntryOf(sink) \notin Reachable
    <3>1. GivenOK /\ source \in DOMAIN prog /\ dfs = <<>> /\ EntryOf(sink) \notin Discovered
      BY <2>2 DEF SearchInv, VerdictInv
    <3>2. ASSUME NEW e \in edges, e.from \in Discovered, e.kind \in {"plain", "call"}
          PROVE  e.to \in Discovered
      <4>1. PICK k \in 1 .. Len(order[e.from]) : order[e.from][k] = e
        BY <3>2, OrderHasAll
      <4>2. Settled(order, dfs, e.from, k)
        BY <2>2, <3>2 DEF VerdictInv
      <4>3. Len(dfs) = 0
        BY <3>1
      <4> QED
        BY <3>2, <4>1, <4>2, <4>3 DEF Settled, Discovered
    <3>3. EntryOf(source) \in Discovered /\ Ahead(Discovered) \subseteq Discovered
      BY <3>2 DEF VerdictInv, Ahead
    <3>4. Reachable \subseteq Discovered
      BY <3>1, <3>3, ReachableFacts
    <3> QED
      BY <3>1, <3>4
  <2> QED
    BY <2>1, <2>2 DEF VerdictCorrect
<1> QED
  BY <1>1, <1>2, <1>3, SearchInvariant, PTL DEF Spec

-----------------------------------------------------------------------------
(* What one turn of the loop makes of a stack of vertices and of a call    *)
(* stack, for a given order.                                               *)

Topmost(o, s)   == o[Last(s.d).v][Last(s.d).at + 1]
More(o, s)      == Last(s.d).at < Len(o[Last(s.d).v])
MoveOn(d)       == [d EXCEPT ![Len(d)].at = @ + 1]
Passes(f, e)    == \/ e.kind \in {"back", "impossible"}
                   \/ e.kind = "return" /\ e.call # Last(f).call
Switched(f, e)  == IF e.kind = "return" THEN Front(f)
                   ELSE IF e.kind = "call" THEN Append(f, NewFrame(e.call)) ELSE f
Taken(s, e) ==
  IF Passes(s.f, e) THEN [d |-> MoveOn(s.d), f |-> s.f]
  ELSE IF ColorIn(Switched(s.f, e), e.to) # "white"
       THEN [d |-> MoveOn(s.d), f |-> Switched(s.f, e)]
       ELSE [d |-> Append(MoveOn(s.d), [v |-> e.to, at |-> 0]),
             f |-> Paint(Switched(s.f, e), e.to, "gray")]
Left(s) == [d |-> Front(s.d), f |-> Paint(s.f, Last(s.d).v, "black")]
Turn(o, s) == IF More(o, s) THEN Taken(s, Topmost(o, s)) ELSE Left(s)

(* The search of a function by itself: what a walk does from the moment    *)
(* the function is called until its EXIT is visited in the frame of that   *)
(* call, or all of it has been left.  It only depends on the orders.       *)
Start(F) ==
  [d |-> <<[v |-> EntryOf(F), at |-> 0]>>,
   f |-> Paint(<<NewFrame(NoCall)>>, EntryOf(F), "gray")]
AtExit(F, s) == Len(s.f) = 1 /\ Last(s.d).v = ExitOf(F)
Goes(o, F, s) == s.d # <<>> /\ Last(s.d).v \in DOMAIN o /\ ~AtExit(F, s)
Runs(o, F, n, R) ==
  /\ R[0] = Start(F)
  /\ \A k \in 0 .. n - 1 : Goes(o, F, R[k]) /\ R[k + 1] = Turn(o, R[k])
Going(o, F, n, s) == \E R : Runs(o, F, n, R) /\ R[n] = s
ExitAt(o, F, n)   == \E s : Going(o, F, n, s) /\ s.d # <<>> /\ AtExit(F, s)
EndAt(o, F, n)    == \E s : Going(o, F, n, s) /\ Goes(o, F, s) /\ Turn(o, s).d = <<>>

LEMMA RunsAgree ==
  ASSUME NEW o, NEW F, NEW m \in Nat, NEW n \in Nat, NEW R, NEW Q,
         Runs(o, F, m, R), Runs(o, F, n, Q), NEW k \in Nat, k <= m, k <= n
  PROVE  R[k] = Q[k]
<1> SUFFICES ASSUME R[k] # Q[k] PROVE FALSE
  OBVIOUS
<1> DEFINE bad == {i \in Nat : i <= m /\ i <= n /\ R[i] # Q[i]}
<1>1. PICK i \in bad : \A j \in bad : i <= j
  <2>1. bad \in SUBSET Nat /\ bad # {}
    OBVIOUS
  <2> HIDE DEF bad
  <2> QED
    BY <2>1, Least
<1>2. i # 0
  BY <1>1 DEF Runs
<1>3. i - 1 \in Nat /\ i - 1 <= m /\ i - 1 <= n /\ i - 1 \in 0 .. m - 1 /\ i - 1 \in 0 .. n - 1
      /\ (i - 1) + 1 = i
  BY <1>1, <1>2
<1>4. R[i - 1] = Q[i - 1]
  BY <1>1, <1>3
<1>5. R[(i - 1) + 1] = Turn(o, R[i - 1]) /\ Q[(i - 1) + 1] = Turn(o, Q[i - 1])
  BY <1>3 DEF Runs
<1> QED
  BY <1>1, <1>3, <1>4, <1>5

(* Nothing comes after EXIT, and nothing after the end.                    *)
LEMMA NotPastExit ==
  ASSUME NEW o, NEW F, NEW m \in Nat, NEW n \in Nat, ExitAt(o, F, m), NEW s, Going(o, F, n, s)
  PROVE  n <= m
<1>1. PICK t, R : Runs(o, F, m, R) /\ R[m] = t /\ AtExit(F, t)
  BY DEF ExitAt, Going
<1>2. PICK Q : Runs(o, F, n, Q) /\ Q[n] = s
  BY DEF Going
<1> SUFFICES ASSUME m < n PROVE FALSE
  OBVIOUS
<1>3. R[m] = Q[m]
  BY <1>1, <1>2, RunsAgree
<1>4. m \in 0 .. n - 1
  OBVIOUS
<1> QED
  BY <1>1, <1>2, <1>3, <1>4 DEF Runs, Goes

LEMMA NotPastEnd ==
  ASSUME NEW o, NEW F, NEW m \in Nat, NEW n \in Nat, EndAt(o, F, m),
         NEW s, Going(o, F, n, s), s.d # <<>>
  PROVE  n <= m
<1>1. PICK t, R : Runs(o, F, m, R) /\ R[m] = t /\ Turn(o, t).d = <<>>
  BY DEF EndAt, Going
<1>2. PICK Q : Runs(o, F, n, Q) /\ Q[n] = s
  BY DEF Going
<1> SUFFICES ASSUME m < n PROVE FALSE
  OBVIOUS
<1>3. R[m] = Q[m]
  BY <1>1, <1>2, RunsAgree
<1>4. m \in 0 .. n - 1 /\ (m + 1 = n \/ m + 1 \in 0 .. n - 1)
  OBVIOUS
<1>5. Q[m + 1] = Turn(o, Q[m])
  BY <1>2, <1>4 DEF Runs
<1>6. Q[m + 1].d = <<>>
  BY <1>1, <1>3, <1>5
<1> QED
  BY <1>2, <1>4, <1>6 DEF Runs, Goes

LEMMA ExitOrEnd ==
  ASSUME NEW o, NEW F, NEW m \in Nat, NEW n \in Nat, ExitAt(o, F, m), EndAt(o, F, n)
  PROVE  FALSE
<1>1. PICK t, R : Runs(o, F, m, R) /\ R[m] = t /\ AtExit(F, t) /\ Going(o, F, m, t) /\ t.d # <<>>
  BY DEF ExitAt, Going
<1>2. PICK s, Q : Runs(o, F, n, Q) /\ Q[n] = s /\ ~AtExit(F, s) /\ Going(o, F, n, s)
  BY DEF EndAt, Going, Goes
<1>3. n <= m
  BY <1>2, NotPastExit
<1>4. m <= n
  BY <1>1, NotPastEnd
<1>5. m = n
  BY <1>3, <1>4
<1>6. Runs(o, F, m, Q) /\ Q[m] = s
  BY <1>2, <1>5
<1>7. m <= m /\ Runs(o, F, m, R)
  BY <1>1
<1>8. R[m] = Q[m]
  BY <1>6, <1>7, RunsAgree, SMTT(30)
<1> QED
  BY <1>1, <1>2, <1>6, <1>8

LEMMA GoingBegins ==
  ASSUME NEW o, NEW F
  PROVE  Going(o, F, 0, Start(F))
<1>1. Runs(o, F, 0, [k \in {0} |-> Start(F)])
  BY DEF Runs
<1> QED
  BY <1>1 DEF Going

LEMMA GoingOn ==
  ASSUME NEW o, NEW F, NEW n \in Nat, NEW s, Going(o, F, n, s), Goes(o, F, s)
  PROVE  Going(o, F, n + 1, Turn(o, s))
<1>1. PICK R : Runs(o, F, n, R) /\ R[n] = s
  BY DEF Going
<1> DEFINE Q == [k \in 0 .. n + 1 |-> IF k = n + 1 THEN Turn(o, s) ELSE R[k]]
<1>2. \A k \in 0 .. n : Q[k] = R[k]
  OBVIOUS
<1>3. Q[n + 1] = Turn(o, s) /\ Q[0] = R[0] /\ Q[n] = s
  BY <1>1
<1> HIDE DEF Q
<1>4. ASSUME NEW k \in 0 .. (n + 1) - 1
      PROVE  Goes(o, F, Q[k]) /\ Q[k + 1] = Turn(o, Q[k])
  <2>1. CASE k = n
    BY <1>1, <1>3, <2>1
  <2>2. CASE k # n
    <3>1. k \in 0 .. n - 1 /\ k \in 0 .. n /\ k + 1 \in 0 .. n
      BY <2>2
    <3> QED
      BY <1>1, <1>2, <3>1 DEF Runs
  <2> QED
    BY <2>1, <2>2
<1>5. Runs(o, F, n + 1, Q)
  BY <1>1, <1>3, <1>4 DEF Runs
<1> QED
  BY <1>3, <1>5 DEF Going

(* The orders not yet known play no part.                                  *)
Extends(o, q) == DOMAIN o \subseteq DOMAIN q /\ \A w \in DOMAIN o : q[w] = o[w]

LEMMA TurnSame ==
  ASSUME NEW o, NEW q, Extends(o, q), NEW s, Last(s.d).v \in DOMAIN o
  PROVE  Turn(q, s) = Turn(o, s)
<1>1. q[Last(s.d).v] = o[Last(s.d).v]
  BY DEF Extends
<1> QED
  BY <1>1, Zenon DEF Turn, More, Topmost

LEMMA GoingSame ==
  ASSUME NEW o, NEW q, Extends(o, q), NEW F, NEW n \in Nat
  PROVE  /\ \A s : Going(o, F, n, s) => Going(q, F, n, s)
         /\ ExitAt(o, F, n) => ExitAt(q, F, n)
         /\ EndAt(o, F, n) => EndAt(q, F, n)
<1>1. \A s : Goes(o, F, s) => Goes(q, F, s) /\ Turn(q, s) = Turn(o, s)
  BY TurnSame DEF Goes, Extends
<1>2. \A R : Runs(o, F, n, R) => Runs(q, F, n, R)
  BY <1>1 DEF Runs
<1>3. \A s : Going(o, F, n, s) => Going(q, F, n, s)
  BY <1>2 DEF Going
<1>4. ExitAt(o, F, n) => ExitAt(q, F, n)
  BY <1>3 DEF ExitAt
<1>5. ASSUME EndAt(o, F, n) PROVE EndAt(q, F, n)
  <2>1. PICK s : Going(o, F, n, s) /\ Goes(o, F, s) /\ Turn(o, s).d = <<>>
    BY <1>5 DEF EndAt
  <2> QED
    BY <1>1, <1>3, <2>1 DEF EndAt
<1> QED
  BY <1>3, <1>4, <1>5


Entry(P) == [v : VerticesOf(P), at : Nat]

(* The part of a stack above its c lowest entries.                         *)
Above(A, B, c) == Len(A) = Len(B) + c /\ \A k \in 1 .. Len(B) : B[k] = A[k + c]

LEMMA MoveOnIs ==
  ASSUME NEW P, NEW d \in Seq(Entry(P)), d # <<>>
  PROVE  /\ MoveOn(d) \in Seq(Entry(P)) /\ Len(MoveOn(d)) = Len(d) /\ MoveOn(d) # <<>>
         /\ \A k \in 1 .. Len(d) : k # Len(d) => MoveOn(d)[k] = d[k]
         /\ MoveOn(d)[Len(d)] = [v |-> d[Len(d)].v, at |-> d[Len(d)].at + 1]
         /\ \A k \in 1 .. Len(d) : MoveOn(d)[k].v = d[k].v
<1> DEFINE m == Len(d)
           f == [d[m] EXCEPT !.at = d[m].at + 1]
<1>1. m \in Nat \ {0} /\ d[m] \in Entry(P)
  BY LastInSeq DEF Last
<1>2. f \in Entry(P) /\ f = [v |-> d[m].v, at |-> d[m].at + 1]
  BY <1>1 DEF Entry
<1>3. MoveOn(d) = [d EXCEPT ![m] = f]
  BY DEF MoveOn
<1>4. m \in 1 .. m
  BY <1>1
<1> HIDE DEF f
<1>5. /\ MoveOn(d) \in Seq(Entry(P)) /\ Len(MoveOn(d)) = m
      /\ \A n \in 1 .. m : MoveOn(d)[n] = IF n = m THEN f ELSE d[n]
  BY <1>1, <1>2, <1>3, <1>4, ExceptSeq
<1>6. MoveOn(d) # <<>>
  BY <1>1, <1>5, EmptySeq
<1>7. f.v = d[m].v
  BY <1>2
<1> QED
  BY <1>1, <1>2, <1>4, <1>5, <1>6, <1>7

LEMMA AboveLast ==
  ASSUME NEW S, NEW A \in Seq(S), NEW B \in Seq(S), NEW c \in Nat, Above(A, B, c), B # <<>>
  PROVE  Last(B) = Last(A) /\ A # <<>> /\ Len(B) \in Nat \ {0} /\ Len(A) \in Nat \ {0}
<1>1. Len(B) \in Nat \ {0} /\ Len(A) \in Nat
  BY LastInSeq, LenProperties
<1>2. Len(B) \in 1 .. Len(B) /\ Len(A) # 0
  BY <1>1 DEF Above
<1> QED
  BY <1>1, <1>2, EmptySeq DEF Above, Last

LEMMA AboveMoveOn ==
  ASSUME NEW P, NEW A \in Seq(Entry(P)), NEW B \in Seq(Entry(P)), NEW c \in Nat, Above(A, B, c),
         B # <<>>
  PROVE  Above(MoveOn(A), MoveOn(B), c)
<1>1. A # <<>> /\ Len(B) \in Nat \ {0} /\ Len(A) \in Nat \ {0}
  BY AboveLast
<1>2. Len(MoveOn(A)) = Len(A) /\ Len(MoveOn(B)) = Len(B)
  BY <1>1, MoveOnIs
<1>3. ASSUME NEW k \in 1 .. Len(B) PROVE MoveOn(B)[k] = MoveOn(A)[k + c]
  <2>0. Len(A) = Len(B) + c /\ B[k] = A[k + c]
    BY DEF Above
  <2>1. k + c \in 1 .. Len(A) /\ (k = Len(B) <=> k + c = Len(A))
    BY <1>1, <2>0
  <2>2. CASE k = Len(B)
    <3>1. MoveOn(B)[k] = [v |-> B[k].v, at |-> B[k].at + 1]
      BY <2>2, MoveOnIs
    <3>2. MoveOn(A)[k + c] = [v |-> A[k + c].v, at |-> A[k + c].at + 1]
      BY <1>1, <2>1, <2>2, MoveOnIs
    <3> QED
      BY <2>0, <3>1, <3>2
  <2>3. CASE k # Len(B)
    <3>1. MoveOn(B)[k] = B[k]
      BY <2>3, MoveOnIs
    <3>2. MoveOn(A)[k + c] = A[k + c]
      BY <1>1, <2>1, <2>3, MoveOnIs
    <3> QED
      BY <2>0, <3>1, <3>2
  <2> QED
    BY <2>2, <2>3
<1> QED
  BY <1>1, <1>2, <1>3 DEF Above

LEMMA AboveAppend ==
  ASSUME NEW S, NEW A \in Seq(S), NEW B \in Seq(S), NEW x \in S, NEW c \in Nat, Above(A, B, c)
  PROVE  Above(Append(A, x), Append(B, x), c)
<1>1. Len(B) \in Nat /\ Len(A) \in Nat /\ Len(A) = Len(B) + c
  BY LenProperties DEF Above
<1>2. Len(Append(A, x)) = Len(A) + 1 /\ Len(Append(B, x)) = Len(B) + 1
  BY AppendSeq
<1>3. ASSUME NEW k \in 1 .. Len(B) + 1 PROVE Append(B, x)[k] = Append(A, x)[k + c]
  <2>1. CASE k = Len(B) + 1
    <3>1. k + c = Len(A) + 1
      BY <1>1, <2>1
    <3> QED
      BY <2>1, <3>1, AppendSeq
  <2>2. CASE k # Len(B) + 1
    <3>1. k \in 1 .. Len(B) /\ k + c \in 1 .. Len(A)
      BY <1>1, <2>2
    <3>2. Append(B, x)[k] = B[k] /\ Append(A, x)[k + c] = A[k + c]
      BY <3>1, AppendSeq
    <3> QED
      BY <3>1, <3>2 DEF Above
  <2> QED
    BY <2>1, <2>2
<1> QED
  BY <1>1, <1>2, <1>3 DEF Above

LEMMA AboveFront ==
  ASSUME NEW S, NEW A \in Seq(S), NEW B \in Seq(S), NEW c \in Nat, Above(A, B, c), B # <<>>
  PROVE  Above(Front(A), Front(B), c)
<1>1. A # <<>> /\ Len(B) \in Nat \ {0} /\ Len(A) \in Nat \ {0} /\ Len(A) = Len(B) + c
  BY AboveLast DEF Above
<1>2. /\ Len(Front(A)) = Len(A) - 1 /\ \A n \in 1 .. Len(A) - 1 : Front(A)[n] = A[n]
      /\ Len(Front(B)) = Len(B) - 1 /\ \A n \in 1 .. Len(B) - 1 : Front(B)[n] = B[n]
  BY <1>1, FrontSeq
<1>3. ASSUME NEW k \in 1 .. Len(B) - 1 PROVE Front(B)[k] = Front(A)[k + c]
  <2>1. k + c \in 1 .. Len(A) - 1 /\ k \in 1 .. Len(B)
    BY <1>1
  <2> QED
    BY <1>2, <2>1 DEF Above
<1> QED
  BY <1>1, <1>2, <1>3 DEF Above

-----------------------------------------------------------------------------
(* The same of call stacks, where the lowest frame above is to look like   *)
(* the one no call pushed.                                                 *)
Like(A, B, c) ==
  /\ Len(A) = Len(B) + c
  /\ \A k \in 1 .. Len(B) : /\ B[k].color = A[k + c].color
                            /\ B[k].call = IF k = 1 THEN NoCall ELSE A[k + c].call

Recolored(old, v, c) == [w \in DOMAIN old \cup {v} |-> IF w = v THEN c ELSE old[w]]
Painted(fs, v, c, q) ==
  /\ Len(q) = Len(fs)
  /\ \A k \in 1 .. Len(fs) : q[k].call = fs[k].call
  /\ \A k \in 1 .. Len(fs) : k # Len(fs) => q[k] = fs[k]
  /\ q[Len(fs)].color = Recolored(fs[Len(fs)].color, v, c)

LEMMA PaintIs ==
  ASSUME NEW P, NEW fs \in Seq(Frame(P)), fs # <<>>, NEW v \in VerticesOf(P), NEW c \in Colors
  PROVE  /\ Paint(fs, v, c) \in Seq(Frame(P)) /\ Paint(fs, v, c) # <<>>
         /\ Painted(fs, v, c, Paint(fs, v, c))
<1> DEFINE n   == Len(fs)
           old == fs[n].color
           new == Recolored(old, v, c)
           f   == [fs[n] EXCEPT !.color = new]
<1>1. n \in Nat \ {0} /\ n \in 1 .. Len(fs) /\ fs[n] \in Frame(P)
  <2>1. n \in Nat \ {0} /\ fs[n] \in Frame(P)
    BY LastInSeq DEF Last
  <2> QED
    BY <2>1
<1>3. PICK D \in SUBSET VerticesOf(P) : old \in [D -> Colors]
  BY <1>1 DEF Frame
<1>4. new \in [D \cup {v} -> Colors]
  BY <1>3 DEF Recolored
<1>5. D \cup {v} \in SUBSET VerticesOf(P)
  BY <1>3
<1> HIDE DEF new
<1>6. new \in UNION {[E -> Colors] : E \in SUBSET VerticesOf(P)}
  BY <1>4, <1>5
<1>7. f \in Frame(P) /\ f.call = fs[n].call /\ f.color = new
  BY <1>1, <1>6 DEF Frame
<1>8. Paint(fs, v, c) = [fs EXCEPT ![n] = f]
  BY DEF Paint, new, Recolored
<1> HIDE DEF f, n
<1>9. /\ [fs EXCEPT ![n] = f] \in Seq(Frame(P))
      /\ Len([fs EXCEPT ![n] = f]) = Len(fs)
      /\ \A j \in 1 .. Len(fs) : [fs EXCEPT ![n] = f][j] = IF j = n THEN f ELSE fs[j]
  BY <1>1, <1>7, ExceptSeq
<1>10. Paint(fs, v, c) # <<>>
  BY <1>1, <1>8, <1>9, EmptySeq DEF n
<1>11. n = Len(fs) /\ Paint(fs, v, c)[n].color = new
  BY <1>1, <1>7, <1>8, <1>9 DEF n
<1> QED
  BY <1>1, <1>7, <1>8, <1>9, <1>10, <1>11 DEF new, Painted

LEMMA LikeLast ==
  ASSUME NEW S, NEW A \in Seq(S), NEW B \in Seq(S), NEW c \in Nat, Like(A, B, c), B # <<>>
  PROVE  /\ Last(B).color = Last(A).color /\ A # <<>>
         /\ Len(B) \in Nat \ {0} /\ Len(A) \in Nat \ {0}
         /\ Last(B).call = IF Len(B) = 1 THEN NoCall ELSE Last(A).call
<1>1. Len(B) \in Nat \ {0} /\ Len(A) \in Nat
  BY LastInSeq, LenProperties
<1>2. Len(B) \in 1 .. Len(B) /\ Len(A) # 0
  BY <1>1 DEF Like
<1> QED
  BY <1>1, <1>2, EmptySeq DEF Like, Last

LEMMA LikePaint ==
  ASSUME NEW P, NEW A \in Seq(Frame(P)), NEW B \in Seq(Frame(P)), NEW c \in Nat, Like(A, B, c),
         B # <<>>, NEW v \in VerticesOf(P), NEW x \in Colors
  PROVE  Like(Paint(A, v, x), Paint(B, v, x), c)
<1>1. A # <<>> /\ Len(B) \in Nat \ {0} /\ Len(A) \in Nat \ {0} /\ Len(A) = Len(B) + c
      /\ Last(B).color = Last(A).color
  BY LikeLast DEF Like
<1> DEFINE a == Paint(A, v, x)
           b == Paint(B, v, x)
<1>2. Painted(A, v, x, a) /\ Painted(B, v, x, b)
  BY <1>1, PaintIs
<1> HIDE DEF a, b
<1>3. Len(a) = Len(A) /\ Len(b) = Len(B)
  BY <1>2 DEF Painted
<1>4. b[Len(B)].color = a[Len(A)].color
  BY <1>1, <1>2 DEF Last, Painted
<1>5. ASSUME NEW k \in 1 .. Len(B)
      PROVE  b[k].color = a[k + c].color /\ b[k].call = IF k = 1 THEN NoCall ELSE a[k + c].call
  <2>1. k + c \in 1 .. Len(A) /\ (k = Len(B) <=> k + c = Len(A))
    BY <1>1
  <2>2. B[k].color = A[k + c].color /\ B[k].call = IF k = 1 THEN NoCall ELSE A[k + c].call
    BY DEF Like
  <2>3. b[k].call = B[k].call /\ a[k + c].call = A[k + c].call
    BY <1>2, <2>1 DEF Painted
  <2>4. b[k].color = a[k + c].color
    <3>1. CASE k = Len(B)
      BY <1>4, <2>1, <3>1
    <3>2. CASE k # Len(B)
      <4>1. b[k] = B[k] /\ a[k + c] = A[k + c]
        BY <1>2, <2>1, <3>2 DEF Painted
      <4> QED
        BY <2>2, <4>1
    <3> QED
      BY <3>1, <3>2
  <2> QED
    BY <2>2, <2>3, <2>4
<1> QED
  BY <1>1, <1>2, <1>3, <1>5 DEF Like, a, b

LEMMA LikeAppend ==
  ASSUME NEW S, NEW A \in Seq(S), NEW B \in Seq(S), NEW x \in S, NEW c \in Nat, Like(A, B, c),
         B # <<>>
  PROVE  Like(Append(A, x), Append(B, x), c)
<1>1. Len(B) \in Nat \ {0} /\ Len(A) \in Nat /\ Len(A) = Len(B) + c
  BY LikeLast DEF Like
<1>2. Len(Append(A, x)) = Len(A) + 1 /\ Len(Append(B, x)) = Len(B) + 1
  BY AppendSeq
<1> DEFINE a == Append(A, x)
           b == Append(B, x)
<1>3. ASSUME NEW k \in 1 .. Len(B) + 1
      PROVE  b[k].color = a[k + c].color /\ b[k].call = IF k = 1 THEN NoCall ELSE a[k + c].call
  <2>1. CASE k = Len(B) + 1
    <3>1. k + c = Len(A) + 1 /\ k # 1
      BY <1>1, <2>1
    <3> QED
      BY <2>1, <3>1, AppendSeq
  <2>2. CASE k # Len(B) + 1
    <3>1. k \in 1 .. Len(B) /\ k + c \in 1 .. Len(A)
      BY <1>1, <2>2
    <3>2. b[k] = B[k] /\ a[k + c] = A[k + c]
      BY <3>1, AppendSeq
    <3> QED
      BY <3>1, <3>2 DEF Like
  <2> QED
    BY <2>1, <2>2
<1> QED
  BY <1>1, <1>2, <1>3 DEF Like

LEMMA LikeFront ==
  ASSUME NEW S, NEW A \in Seq(S), NEW B \in Seq(S), NEW c \in Nat, Like(A, B, c), B # <<>>
  PROVE  Like(Front(A), Front(B), c)
<1>1. A # <<>> /\ Len(B) \in Nat \ {0} /\ Len(A) \in Nat \ {0} /\ Len(A) = Len(B) + c
  BY LikeLast DEF Like
<1>2. /\ Len(Front(A)) = Len(A) - 1 /\ \A n \in 1 .. Len(A) - 1 : Front(A)[n] = A[n]
      /\ Len(Front(B)) = Len(B) - 1 /\ \A n \in 1 .. Len(B) - 1 : Front(B)[n] = B[n]
  BY <1>1, FrontSeq
<1>3. ASSUME NEW k \in 1 .. Len(B) - 1
      PROVE  /\ Front(B)[k].color = Front(A)[k + c].color
             /\ Front(B)[k].call = IF k = 1 THEN NoCall ELSE Front(A)[k + c].call
  <2>1. k + c \in 1 .. Len(A) - 1 /\ k \in 1 .. Len(B)
    BY <1>1
  <2> QED
    BY <1>2, <2>1 DEF Like
<1> QED
  BY <1>1, <1>2, <1>3 DEF Like


OrderFits(P, o) ==
  \A v \in DOMAIN o : v \in VerticesOf(P) /\ o[v] \in Orderings(OutEdges(EdgesOf(P), v))

LEMMA TopmostIs ==
  ASSUME NEW P \in Programs, NEW o, OrderFits(P, o), NEW d \in Seq(Entry(P)), d # <<>>, NEW f,
         Last(d).v \in DOMAIN o, More(o, [d |-> d, f |-> f])
  PROVE  LET e == Topmost(o, [d |-> d, f |-> f]) IN
           /\ e \in EdgesOf(P) /\ e.from = Last(d).v /\ e.to \in VerticesOf(P)
           /\ e.kind \in {"call", "return"} => e.call \in CallSites(P) /\ e.call # NoCall
<1> DEFINE v == Last(d).v
           S == OutEdges(EdgesOf(P), v)
           e == Topmost(o, [d |-> d, f |-> f])
<1>1. Last(d).at \in Nat /\ v \in VerticesOf(P) /\ o[v] \in Orderings(S)
  <2>1. Last(d) \in Entry(P)
    BY LastInSeq
  <2> QED
    BY <2>1 DEF Entry, OrderFits
<1>2. o[v] \in Seq(S)
  <2>1. S \subseteq EdgesOf(P) /\ IsFiniteSet(EdgesOf(P))
    BY ProgramsAssumption DEF OutEdges
  <2>2. Cardinality(S) \in Nat
    BY <2>1, FS_Subset, FS_CardinalityType
  <2>3. o[v] \in [1 .. Cardinality(S) -> S]
    BY <1>1 DEF Orderings
  <2> HIDE DEF S, v
  <2> QED
    BY <2>2, <2>3, SeqDef
<1>3. Last(d).at < Len(o[v]) /\ e = o[v][Last(d).at + 1]
  BY DEF More, Topmost
<1> HIDE DEF S, e, v
<1>4. e \in S
  <2>1. Len(o[v]) \in Nat
    BY <1>2, LenProperties
  <2>2. Last(d).at + 1 \in 1 .. Len(o[v])
    BY <1>1, <1>3, <2>1
  <2> QED
    BY <1>2, <1>3, <2>2, ElementOfSeq
<1>5. e \in EdgesOf(P) /\ e.from = v
  BY <1>4 DEF S, OutEdges
<1> QED
  BY <1>5, EdgeFacts DEF e, v

(* What can be seen of a search above its lowest entries and frames, when  *)
(* it is looked at as one that has just begun there.                       *)
Looks(P, d, f, c, h, T) ==
  /\ T.d \in Seq(Entry(P)) /\ T.d # <<>> /\ T.f \in Seq(Frame(P)) /\ T.f # <<>>
  /\ Above(d, T.d, c) /\ Like(f, T.f, h)

LEMMA NewFrameIn ==
  ASSUME NEW P, NEW c \in CallSites(P) \cup {NoCall}
  PROVE  NewFrame(c) \in Frame(P) /\ NewFrame(c).call = c
<1>1. <<>> \in [{} -> Colors] /\ {} \in SUBSET VerticesOf(P)
  OBVIOUS
<1> QED
  BY <1>1 DEF NewFrame, Frame

LEMMA FrontLeft ==
  ASSUME NEW S, NEW s \in Seq(S), Len(s) > 1
  PROVE  Front(s) \in Seq(S) /\ Front(s) # <<>>
<1>1. Len(s) \in Nat /\ Len(<<>>) = 0
  BY LenProperties
<1>2. s # <<>>
  BY <1>1
<1>3. Front(s) \in Seq(S) /\ Len(Front(s)) = Len(s) - 1
  BY <1>2, FrontSeq
<1>4. Len(Front(s)) # 0
  BY <1>1, <1>3
<1> QED
  BY <1>1, <1>3, <1>4

LEMMA LooksLeft ==
  ASSUME NEW P, NEW d \in Seq(Entry(P)), NEW f \in Seq(Frame(P)), NEW c \in Nat, NEW h \in Nat,
         NEW T, Looks(P, d, f, c, h, T), Len(d) > c + 1
  PROVE  Looks(P, Front(d), Paint(f, Last(d).v, "black"), c, h, Left(T))
<1>1. Last(T.d) = Last(d) /\ Len(T.d) \in Nat \ {0} /\ Len(d) = Len(T.d) + c
      /\ Last(T.d) \in Entry(P)
  BY AboveLast, LastInSeq DEF Looks, Above
<1>2. Front(T.d) \in Seq(Entry(P)) /\ Front(T.d) # <<>>
  <2>1. T.d \in Seq(Entry(P)) /\ Len(T.d) > 1
    BY <1>1 DEF Looks
  <2> QED
    BY <2>1, FrontLeft
<1>3. Above(Front(d), Front(T.d), c)
  BY AboveFront DEF Looks
<1>4. Last(d).v \in VerticesOf(P) /\ "black" \in Colors
  BY <1>1 DEF Entry, Colors
<1>5. /\ Paint(T.f, Last(d).v, "black") \in Seq(Frame(P)) /\ Paint(T.f, Last(d).v, "black") # <<>>
      /\ Like(Paint(f, Last(d).v, "black"), Paint(T.f, Last(d).v, "black"), h)
  BY <1>4, PaintIs, LikePaint DEF Looks
<1> QED
  BY <1>1, <1>2, <1>3, <1>5 DEF Looks, Left

LEMMA LooksMoved ==
  ASSUME NEW P, NEW d \in Seq(Entry(P)), NEW f \in Seq(Frame(P)), NEW c \in Nat, NEW h \in Nat,
         NEW T, Looks(P, d, f, c, h, T), NEW f2, NEW t2 \in Seq(Frame(P)), t2 # <<>>,
         Like(f2, t2, h)
  PROVE  Looks(P, MoveOn(d), f2, c, h, [d |-> MoveOn(T.d), f |-> t2])
<1>1. MoveOn(T.d) \in Seq(Entry(P)) /\ MoveOn(T.d) # <<>> /\ Above(MoveOn(d), MoveOn(T.d), c)
  BY MoveOnIs, AboveMoveOn DEF Looks
<1> QED
  BY <1>1 DEF Looks

LEMMA LooksSwitched ==
  ASSUME NEW P, NEW f \in Seq(Frame(P)), NEW h \in Nat, NEW t \in Seq(Frame(P)), t # <<>>,
         Like(f, t, h), NEW e,
         e.kind = "call" => e.call \in CallSites(P) \cup {NoCall},
         e.kind = "return" => Len(t) # 1
  PROVE  Switched(t, e) \in Seq(Frame(P)) /\ Switched(t, e) # <<>>
         /\ Like(Switched(f, e), Switched(t, e), h)
<1>1. Len(t) \in Nat \ {0}
  BY LastInSeq
<1>2. CASE e.kind = "return"
  <2>1. Front(t) \in Seq(Frame(P)) /\ Len(Front(t)) = Len(t) - 1
    BY FrontSeq
  <2>2. Front(t) # <<>>
    BY <1>1, <1>2, <2>1, EmptySeq
  <2>3. Like(Front(f), Front(t), h)
    BY LikeFront
  <2> QED
    BY <1>2, <2>1, <2>2, <2>3 DEF Switched
<1>3. CASE e.kind = "call"
  <2>1. NewFrame(e.call) \in Frame(P)
    BY <1>3, NewFrameIn
  <2>2. Append(t, NewFrame(e.call)) \in Seq(Frame(P)) /\ Append(t, NewFrame(e.call)) # <<>>
    <3>1. Len(Append(t, NewFrame(e.call))) = Len(t) + 1
      BY <2>1, AppendSeq
    <3> QED
      BY <1>1, <2>1, <3>1, AppendSeq, EmptySeq
  <2>3. Like(Append(f, NewFrame(e.call)), Append(t, NewFrame(e.call)), h)
    BY <2>1, LikeAppend
  <2> QED
    BY <1>3, <2>2, <2>3 DEF Switched
<1> QED
  BY <1>2, <1>3 DEF Switched

(* As long as the return of the call is not taken, and the function not    *)
(* left, a turn looks the same from within.                                *)
LEMMA LooksTurned ==
  ASSUME NEW P \in Programs, NEW o, OrderFits(P, o),
         NEW d \in Seq(Entry(P)), d # <<>>, NEW f \in Seq(Frame(P)), f # <<>>,
         Last(d).v \in DOMAIN o, NEW c \in Nat, NEW h \in Nat, NEW T, Looks(P, d, f, c, h, T),
         LET S == [d |-> d, f |-> f] IN
           /\ More(o, S) /\ Topmost(o, S).kind = "return" /\ Len(f) = h + 1
                => Topmost(o, S).call # Last(f).call
           /\ ~More(o, S) => Len(d) > c + 1
  PROVE  LET S == Turn(o, [d |-> d, f |-> f])
         IN  Looks(P, S.d, S.f, c, h, Turn(o, T))
<1> DEFINE S == [d |-> d, f |-> f]
           e == Topmost(o, S)
<1>1. Last(T.d) = Last(d)
  BY AboveLast DEF Looks
<1>2. More(o, T) = More(o, S) /\ Topmost(o, T) = e
  BY <1>1 DEF More, Topmost
<1>3. CASE ~More(o, S)
  <2>1. Turn(o, S) = Left(S) /\ Turn(o, T) = Left(T)
    BY <1>2, <1>3 DEF Turn
  <2>2. Left(S).d = Front(d) /\ Left(S).f = Paint(f, Last(d).v, "black")
    BY DEF Left
  <2> QED
    BY <1>3, <2>1, <2>2, LooksLeft
<1>4. CASE More(o, S)
  <2>1. Turn(o, S) = Taken(S, e) /\ Turn(o, T) = Taken(T, e)
    BY <1>2, <1>4, Zenon DEF Turn
  <2>2. /\ e \in EdgesOf(P) /\ e.from = Last(d).v /\ e.to \in VerticesOf(P)
        /\ e.kind \in {"call", "return"} => e.call \in CallSites(P) /\ e.call # NoCall
    BY <1>4, TopmostIs
  <2>3. Len(f) = Len(T.f) + h /\ Len(T.f) \in Nat \ {0}
        /\ Last(T.f).color = Last(f).color
        /\ Last(T.f).call = IF Len(T.f) = 1 THEN NoCall ELSE Last(f).call
    <3>1. T.f \in Seq(Frame(P)) /\ T.f # <<>> /\ Like(f, T.f, h)
      BY DEF Looks
    <3> HIDE DEF e
    <3>2. Len(f) = Len(T.f) + h
      BY <3>1 DEF Like
    <3> QED
      BY <3>1, <3>2, LikeLast
  <2>4. e.kind = "return" /\ Len(f) = h + 1 => e.call # Last(f).call
    BY <1>4
  <2> HIDE DEF e
  <2>5. Passes(T.f, e) <=> Passes(f, e)
    <3>1. CASE e.kind = "return"
      <4>1. CASE Len(T.f) = 1
        <5>1. Len(f) = h + 1
          BY <2>3, <4>1
        <5>2. e.call # Last(f).call /\ e.call # Last(T.f).call
          BY <2>2, <2>3, <2>4, <3>1, <4>1, <5>1
        <5> QED
          BY <3>1, <5>2, Zenon DEF Passes
      <4>2. CASE Len(T.f) # 1
        <5>1. Last(T.f).call = Last(f).call
          BY <2>3, <4>2
        <5> QED
          BY <5>1, Zenon DEF Passes
      <4> QED
        BY <4>1, <4>2
    <3>2. CASE e.kind # "return"
      BY <3>2, Zenon DEF Passes
    <3> QED
      BY <3>1, <3>2
  <2>6. CASE Passes(f, e)
    <3>1. Taken(S, e) = [d |-> MoveOn(d), f |-> f] /\ Taken(T, e) = [d |-> MoveOn(T.d), f |-> T.f]
      BY <2>5, <2>6 DEF Taken
    <3>2. Looks(P, MoveOn(d), f, c, h, [d |-> MoveOn(T.d), f |-> T.f])
      BY LooksMoved DEF Looks
    <3> QED
      BY <2>1, <3>1, <3>2
  <2>7. CASE ~Passes(f, e)
    <3> DEFINE g == Switched(f, e)
               t == Switched(T.f, e)
    <3>1. e.kind = "return" => Len(T.f) # 1
      <4> SUFFICES ASSUME e.kind = "return" PROVE Len(T.f) # 1
        OBVIOUS
      <4>1. e.call # NoCall /\ e.call = Last(T.f).call
        BY <2>2, <2>5, <2>7, Zenon DEF Passes
      <4> QED
        BY <2>3, <4>1, Zenon
    <3>2. t \in Seq(Frame(P)) /\ t # <<>> /\ Like(g, t, h)
      BY <2>2, <3>1, LooksSwitched DEF Looks
    <3>3. g \in Seq(Frame(P))
      <4>1. e.kind = "call" => NewFrame(e.call) \in Frame(P)
        BY <2>2, NewFrameIn
      <4> QED
        BY <4>1, AppendSeq, FrontSeq DEF Switched
    <3>4. S.d = d /\ S.f = f
      OBVIOUS
    <3> HIDE DEF g, t, S
    <3>5. Last(t).color = Last(g).color
      BY <3>2, <3>3, LikeLast
    <3>6. ColorIn(t, e.to) = ColorIn(g, e.to)
      BY <3>5 DEF ColorIn
    <3>7. CASE ColorIn(g, e.to) # "white"
      <4>1. Taken(S, e) = [d |-> MoveOn(d), f |-> g] /\ Taken(T, e) = [d |-> MoveOn(T.d), f |-> t]
        BY <2>5, <2>7, <3>4, <3>6, <3>7 DEF Taken, g, t
      <4>2. Looks(P, MoveOn(d), g, c, h, [d |-> MoveOn(T.d), f |-> t])
        BY <3>2, LooksMoved
      <4> QED
        BY <2>1, <4>1, <4>2 DEF S
    <3>8. CASE ColorIn(g, e.to) = "white"
      <4> DEFINE x == [v |-> e.to, at |-> 0]
                 g2 == Paint(g, e.to, "gray")
                 t2 == Paint(t, e.to, "gray")
      <4>1. /\ Taken(S, e) = [d |-> Append(MoveOn(d), x), f |-> g2]
            /\ Taken(T, e) = [d |-> Append(MoveOn(T.d), x), f |-> t2]
        BY <2>5, <2>7, <3>4, <3>6, <3>8 DEF Taken, g, t
      <4>2. x \in Entry(P)
        BY <2>2 DEF Entry
      <4>3. t2 \in Seq(Frame(P)) /\ t2 # <<>> /\ Like(g2, t2, h)
        BY <2>2, <3>2, <3>3, PaintIs, LikePaint DEF Colors
      <4>4. /\ MoveOn(T.d) \in Seq(Entry(P)) /\ Above(MoveOn(d), MoveOn(T.d), c)
            /\ MoveOn(d) \in Seq(Entry(P))
        BY MoveOnIs, AboveMoveOn DEF Looks
      <4> HIDE DEF x
      <4>5. /\ Append(MoveOn(T.d), x) \in Seq(Entry(P)) /\ Append(MoveOn(T.d), x) # <<>>
            /\ Above(Append(MoveOn(d), x), Append(MoveOn(T.d), x), c)
        <5>1. Append(MoveOn(T.d), x) \in Seq(Entry(P)) /\ Len(Append(MoveOn(T.d), x)) = Len(MoveOn(T.d)) + 1
          BY <4>2, <4>4, AppendSeq
        <5>3. Len(MoveOn(T.d)) \in Nat
          BY <4>4, LenProperties
        <5>2. Append(MoveOn(T.d), x) # <<>>
          <6>1. PICK a \in Seq(Entry(P)) : a = Append(MoveOn(T.d), x)
            BY <5>1
          <6>2. Len(a) # 0
            BY <5>1, <5>3, <6>1
          <6>3. a # <<>>
            BY <6>2, EmptySeq
          <6> QED
            BY <6>1, <6>3
        <5> QED
          BY <4>2, <4>4, <5>1, <5>2, AboveAppend
      <4> HIDE DEF g2, t2
      <4>6. Looks(P, Append(MoveOn(d), x), g2, c, h, [d |-> Append(MoveOn(T.d), x), f |-> t2])
        BY <4>3, <4>5 DEF Looks
      <4>7. Turn(o, S) = [d |-> Append(MoveOn(d), x), f |-> g2]
            /\ Turn(o, T) = [d |-> Append(MoveOn(T.d), x), f |-> t2]
        BY <2>1, <4>1, Zenon
      <4>8. Turn(o, S).d = Append(MoveOn(d), x) /\ Turn(o, S).f = g2
        BY <4>7
      <4> QED
        BY <4>6, <4>7, <4>8, Zenon DEF S
    <3> QED
      BY <3>7, <3>8
  <2> QED
    BY <2>6, <2>7
<1> QED
  BY <1>3, <1>4


-----------------------------------------------------------------------------
(* Paths.  An activation of a function is named by the place on the stack  *)
(* of vertices where its ENTRY is: the source's is 1, and that of a call   *)
(* one behind the place of its call edge on the path.                      *)
At(src, p, n)       == IF n = 0 THEN EntryOf(src) ELSE p[n].to
FunAt(P, src, p, i) == IF i = 1 THEN src ELSE Callee(P, p[i - 1].call)

(* The activations that the first n edges of a path have not returned from.*)
StackAt(P, src, p, s, n) ==
  /\ s \in Seq(1 .. n + 1) /\ s # <<>> /\ s[1] = 1
  /\ \A j, k \in 1 .. Len(s) : j < k => s[j] < s[k]
  /\ \A k \in 2 .. Len(s) : /\ p[s[k] - 1].kind = "call" /\ p[s[k] - 1].call \in Resolved(P)
                            /\ p[s[k] - 1].call[1] = FunAt(P, src, p, s[k - 1])
  /\ At(src, p, n)[1] = FunAt(P, src, p, Last(s))

OpenStep(p, O, n) ==
  \/ p[n].kind = "call" /\ O[n] = Append(O[n - 1], n + 1)
  \/ /\ p[n].kind = "return" /\ Len(O[n - 1]) # 1
     /\ p[Last(O[n - 1]) - 1].call = p[n].call
     /\ O[n] = Front(O[n - 1])
  \/ p[n].kind \notin {"call", "return"} /\ O[n] = O[n - 1]

OpenPath(P, src, p, O) ==
  /\ p \in Seq(EdgesOf(P))
  /\ O[0] = <<1>>
  /\ \A n \in 1 .. Len(p) : p[n].from = At(src, p, n - 1) /\ OpenStep(p, O, n)
  /\ \A n \in 0 .. Len(p) : StackAt(P, src, p, O[n], n)

LEMMA LenBounds ==
  ASSUME NEW S, NEW s \in Seq(S), s # <<>>
  PROVE  /\ Len(s) \in Nat \ {0} /\ 1 \in 1 .. Len(s) /\ Len(s) \in 1 .. Len(s)
         /\ Len(s) # 1 => 1 < Len(s) /\ Len(s) \in 2 .. Len(s) /\ Len(s) - 1 \in 1 .. Len(s)
<1>1. Len(s) \in Nat \ {0}
  BY LastInSeq
<1>2. PICK n \in Nat \ {0} : n = Len(s)
  BY <1>1
<1>3. 1 \in 1 .. n /\ n \in 1 .. n /\ (n # 1 => 1 < n /\ n \in 2 .. n /\ n - 1 \in 1 .. n)
  BY <1>2
<1> QED
  BY <1>1, <1>2, <1>3, Zenon

LEMMA StackSame ==
  ASSUME NEW P, NEW src, NEW p, NEW q, NEW n \in Nat, \A k \in 1 .. n : q[k] = p[k],
         NEW s, StackAt(P, src, p, s, n)
  PROVE  StackAt(P, src, q, s, n)
<1>1. s \in Seq(1 .. n + 1) /\ s # <<>>
  BY DEF StackAt
<1>2. Len(s) \in Nat \ {0} /\ \A k \in 1 .. Len(s) : s[k] \in 1 .. n + 1
  <2>1. Len(s) \in Nat \ {0}
    BY <1>1, LastInSeq
  <2> QED
    BY <1>1, <2>1, ElementOfSeq
<1>3. ASSUME NEW i \in 1 .. n + 1 PROVE FunAt(P, src, q, i) = FunAt(P, src, p, i)
  <2>1. i = 1 \/ i - 1 \in 1 .. n
    OBVIOUS
  <2> QED
    BY <2>1 DEF FunAt
<1>4. At(src, q, n) = At(src, p, n)
  <2>1. n = 0 \/ n \in 1 .. n
    OBVIOUS
  <2> QED
    BY <2>1 DEF At
<1>5. FunAt(P, src, q, Last(s)) = FunAt(P, src, p, Last(s))
  <2>1. Len(s) \in 1 .. Len(s)
    BY <1>2
  <2> QED
    BY <1>2, <1>3, <2>1 DEF Last
<1>6. ASSUME NEW k \in 2 .. Len(s)
      PROVE  /\ q[s[k] - 1].kind = "call" /\ q[s[k] - 1].call \in Resolved(P)
             /\ q[s[k] - 1].call[1] = FunAt(P, src, q, s[k - 1])
  <2>1. k \in 1 .. Len(s) /\ k - 1 \in 1 .. Len(s) /\ 1 \in 1 .. Len(s) /\ 1 < k
    BY <1>2
  <2>2. s[k] \in 1 .. n + 1 /\ s[k - 1] \in 1 .. n + 1 /\ s[1] = 1 /\ s[1] < s[k]
    BY <1>2, <2>1 DEF StackAt
  <2>3. s[k] - 1 \in 1 .. n
    BY <2>2
  <2> QED
    BY <1>3, <2>2, <2>3 DEF StackAt
<1> QED
  BY <1>1, <1>4, <1>5, <1>6 DEF StackAt

LEMMA PathShortens ==
  ASSUME NEW P, NEW src, NEW p, p # <<>>, NEW O, OpenPath(P, src, p, O)
  PROVE  OpenPath(P, src, Front(p), O)
<1> DEFINE q == Front(p)
<1>1. p \in Seq(EdgesOf(P)) /\ Len(p) \in Nat \ {0}
  BY LastInSeq DEF OpenPath
<1>2. q \in Seq(EdgesOf(P)) /\ Len(q) = Len(p) - 1 /\ \A k \in 1 .. Len(p) - 1 : q[k] = p[k]
  BY <1>1, FrontSeq
<1> HIDE DEF q
<1>3. ASSUME NEW n \in 1 .. Len(q) PROVE q[n].from = At(src, q, n - 1) /\ OpenStep(q, O, n)
  <2>1. n \in 1 .. Len(p) /\ n \in 1 .. Len(p) - 1 /\ n - 1 \in 0 .. Len(p)
        /\ (n - 1 = 0 \/ n - 1 \in 1 .. Len(p) - 1)
    BY <1>1, <1>2
  <2>2. p[n].from = At(src, p, n - 1) /\ OpenStep(p, O, n) /\ q[n] = p[n]
    BY <1>2, <2>1 DEF OpenPath
  <2>3. At(src, q, n - 1) = At(src, p, n - 1)
    BY <1>2, <2>1 DEF At
  <2>4. CASE p[n].kind = "return"
    <3>1. StackAt(P, src, p, O[n - 1], n - 1) /\ Len(O[n - 1]) # 1
          /\ p[Last(O[n - 1]) - 1].call = p[n].call /\ O[n] = Front(O[n - 1])
      BY <2>1, <2>2, <2>4 DEF OpenPath, OpenStep
    <3>2. Last(O[n - 1]) - 1 \in 1 .. Len(p) - 1
      <4> DEFINE s == O[n - 1]
      <4>1. s \in Seq(1 .. (n - 1) + 1) /\ s # <<>> /\ s[1] = 1
            /\ \A j, k \in 1 .. Len(s) : j < k => s[j] < s[k]
        BY <3>1 DEF StackAt
      <4>2. Len(s) \in Nat \ {0} /\ Last(s) \in 1 .. (n - 1) + 1 /\ Len(s) # 1
        BY <3>1, <4>1, LastInSeq
      <4> HIDE DEF s
      <4>3. 1 \in 1 .. Len(s) /\ Len(s) \in 1 .. Len(s) /\ 1 < Len(s)
        BY <4>1, <4>2, LenBounds
      <4>4. 1 < Last(s)
        BY <4>1, <4>3 DEF Last
      <4>5. Last(s) - 1 \in 1 .. Len(p) - 1
        BY <1>1, <2>1, <4>2, <4>4
      <4> QED
        BY <4>5 DEF s
    <3> QED
      BY <1>2, <2>2, <2>3, <2>4, <3>1, <3>2 DEF OpenStep
  <2> QED
    BY <2>2, <2>3, <2>4 DEF OpenStep
<1>4. ASSUME NEW n \in 0 .. Len(q) PROVE StackAt(P, src, q, O[n], n)
  <2>1. n \in 0 .. Len(p) /\ n \in Nat /\ \A k \in 1 .. n : k \in 1 .. Len(p) - 1
    BY <1>1, <1>2
  <2>2. StackAt(P, src, p, O[n], n) /\ \A k \in 1 .. n : q[k] = p[k]
    BY <1>2, <2>1 DEF OpenPath
  <2> QED
    BY <2>1, <2>2, StackSame
<1> QED
  BY <1>2, <1>3, <1>4 DEF OpenPath, q

(* The links: which call an edge between functions belongs to.             *)
IsCall(P, e, c) ==
  e.kind = "call" /\ e.from = c /\ e.to = EntryOf(Callee(P, c)) /\ e.call = c
IsReturn(P, e, c) ==
  /\ e.kind = "return" /\ e.from = ExitOf(Callee(P, c)) /\ e.to = ReturnPoint(P, c)
  /\ e.call = c

LEMMA LinkForms ==
  ASSUME NEW P \in Programs, NEW e \in EdgesOf(P)
  PROVE  /\ e.kind = "call" => \E c \in Resolved(P) : IsCall(P, e, c)
         /\ e.kind = "return" => \E c \in Resolved(P) : IsReturn(P, e, c)
         /\ e.kind \notin {"call", "return"} =>
              \E f \in DOMAIN P : \E a \in P[f].arcs : e = ArcEdge(f, a)
<1>1. \A f, a : ArcEdge(f, a).kind = a.kind
  BY DEF ArcEdge
<1>2. \A f \in DOMAIN P : \A a \in P[f].arcs : a.kind \notin {"call", "return"}
  BY ProgramsAssumption DEF ArcKind
<1>3. ASSUME NEW c, e = [from |-> c, to |-> EntryOf(Callee(P, c)), kind |-> "call", call |-> c]
      PROVE  IsCall(P, e, c) /\ e.kind = "call"
  BY <1>3 DEF IsCall
<1>4. ASSUME NEW c, e = [from |-> ExitOf(Callee(P, c)), to |-> ReturnPoint(P, c),
                         kind |-> "return", call |-> c]
      PROVE  IsReturn(P, e, c) /\ e.kind = "return"
  BY <1>4 DEF IsReturn
<1> QED
  BY <1>1, <1>2, <1>3, <1>4, EdgeForms

NewOpen(s, e, i) ==
  IF e.kind = "call" THEN Append(s, i) ELSE IF e.kind = "return" THEN Front(s) ELSE s
Reopened(O, p, e) ==
  [n \in 0 .. Len(p) + 1 |-> IF n <= Len(p) THEN O[n] ELSE NewOpen(O[Len(p)], e, Len(p) + 2)]

(* What is open after one more edge.                                       *)
LEMMA NewOpenStack ==
  ASSUME NEW P \in Programs, NEW src, NEW q, NEW n \in Nat, NEW s, StackAt(P, src, q, s, n),
         q[n + 1] \in EdgesOf(P), q[n + 1].from = At(src, q, n),
         q[n + 1].kind = "return" =>
           Len(s) # 1 /\ q[Last(s) - 1].call = q[n + 1].call
  PROVE  StackAt(P, src, q, NewOpen(s, q[n + 1], n + 2), n + 1)
<1> DEFINE e == q[n + 1]
<1>1. s \in Seq(1 .. n + 1) /\ s # <<>> /\ s[1] = 1 /\ Len(s) \in Nat \ {0}
      /\ \A k \in 1 .. Len(s) : s[k] \in 1 .. n + 1
  <2>1. s \in Seq(1 .. n + 1) /\ s # <<>> /\ s[1] = 1
    BY DEF StackAt
  <2>2. Len(s) \in Nat \ {0}
    BY <2>1, LastInSeq
  <2> QED
    BY <2>1, <2>2, ElementOfSeq
<1>2. /\ \A j, k \in 1 .. Len(s) : j < k => s[j] < s[k]
      /\ \A k \in 2 .. Len(s) : /\ q[s[k] - 1].kind = "call" /\ q[s[k] - 1].call \in Resolved(P)
                                /\ q[s[k] - 1].call[1] = FunAt(P, src, q, s[k - 1])
      /\ e.from[1] = FunAt(P, src, q, Last(s))
  BY DEF StackAt
<1>3. At(src, q, n + 1) = e.to
  BY DEF At
<1>4. s \in Seq(1 .. (n + 1) + 1)
  <2>1. 1 .. n + 1 \subseteq 1 .. (n + 1) + 1
    OBVIOUS
  <2> QED
    BY <1>1, <2>1, SeqMonotonic
<1>5. CASE e.kind \notin {"call", "return"}
  <2>1. \E f \in DOMAIN P : \E a \in P[f].arcs : e = ArcEdge(f, a)
    BY <1>5, EdgeForms
  <2>2. e.to[1] = e.from[1]
    BY <2>1 DEF ArcEdge
  <2>3. NewOpen(s, e, n + 2) = s
    BY <1>5 DEF NewOpen
  <2> QED
    BY <1>1, <1>2, <1>3, <1>4, <2>2, <2>3 DEF StackAt
<1>6. /\ e.kind = "call" => \E c \in Resolved(P) : IsCall(P, e, c)
      /\ e.kind = "return" => \E c \in Resolved(P) : IsReturn(P, e, c)
  BY LinkForms
<1>7. CASE e.kind = "call"
  <2>1. PICK c \in Resolved(P) : e.from = c /\ e.to = EntryOf(Callee(P, c)) /\ e.call = c
    BY <1>6, <1>7, Zenon DEF IsCall
  <2> DEFINE t == Append(s, n + 2)
  <2>2. n + 2 \in 1 .. (n + 1) + 1
    OBVIOUS
  <2>3. /\ t \in Seq(1 .. (n + 1) + 1) /\ Len(t) = Len(s) + 1 /\ t[Len(s) + 1] = n + 2
        /\ \A k \in 1 .. Len(s) : t[k] = s[k]
    BY <1>4, <2>2, AppendSeq
  <2>4. NewOpen(s, e, n + 2) = t
    BY <1>7 DEF NewOpen
  <2> HIDE DEF t
  <2>5. t # <<>> /\ t[1] = 1 /\ Last(t) = n + 2
    <3>1. Len(t) # 0 /\ 1 \in 1 .. Len(s)
      BY <1>1, <2>3
    <3> QED
      BY <1>1, <2>3, <3>1, EmptySeq DEF Last
  <2>6. ASSUME NEW j \in 1 .. Len(t), NEW k \in 1 .. Len(t), j < k PROVE t[j] < t[k]
    <3>0. PICK m \in Nat : m = Len(s) /\ Len(t) = m + 1
      BY <1>1, <2>3
    <3>1. j \in 1 .. Len(s) /\ (k \in 1 .. Len(s) \/ k = Len(s) + 1)
      <4>1. j \in 1 .. m + 1 /\ k \in 1 .. m + 1 /\ j < k
        BY <2>6, <3>0
      <4>2. j \in 1 .. m /\ (k \in 1 .. m \/ k = m + 1)
        BY <4>1
      <4> QED
        BY <3>0, <4>2, Zenon
    <3>2. CASE k \in 1 .. Len(s)
      BY <1>2, <2>3, <2>6, <3>1, <3>2
    <3>3. CASE k = Len(s) + 1
      <4>1. t[j] \in 1 .. n + 1 /\ t[k] = n + 2
        BY <1>1, <2>3, <3>1, <3>3
      <4> QED
        BY <4>1
    <3> QED
      BY <3>1, <3>2, <3>3
  <2>7. ASSUME NEW k \in 2 .. Len(t)
        PROVE  /\ q[t[k] - 1].kind = "call" /\ q[t[k] - 1].call \in Resolved(P)
               /\ q[t[k] - 1].call[1] = FunAt(P, src, q, t[k - 1])
    <3>1. CASE k = Len(s) + 1
      <4>1. t[k] = n + 2 /\ t[k] - 1 = n + 1 /\ Len(s) \in 1 .. Len(s) /\ k - 1 = Len(s)
        BY <1>1, <2>3, <3>1
      <4>2. t[k - 1] = Last(s)
        BY <2>3, <4>1 DEF Last
      <4>3. q[t[k] - 1] = e
        BY <4>1
      <4> QED
        BY <1>2, <1>7, <2>1, <4>2, <4>3
    <3>2. CASE k # Len(s) + 1
      <4>1. k \in 2 .. Len(s) /\ k \in 1 .. Len(s) /\ k - 1 \in 1 .. Len(s)
        BY <1>1, <2>3, <3>2
      <4>2. t[k] = s[k] /\ t[k - 1] = s[k - 1]
        BY <2>3, <4>1
      <4> QED
        BY <1>2, <4>1, <4>2
    <3> QED
      BY <3>1, <3>2
  <2>8. e.to[1] = FunAt(P, src, q, Last(t))
    <3>1. n + 2 # 1 /\ (n + 2) - 1 = n + 1
      OBVIOUS
    <3>2. FunAt(P, src, q, n + 2) = Callee(P, e.call)
      BY <3>1 DEF FunAt
    <3> QED
      BY <2>1, <2>5, <3>2 DEF EntryOf
  <2> QED
    BY <1>3, <2>3, <2>4, <2>5, <2>6, <2>7, <2>8 DEF StackAt
<1>8. CASE e.kind = "return"
  <2>1. PICK c \in Resolved(P) : e.to = ReturnPoint(P, c) /\ e.call = c
    BY <1>6, <1>8, Zenon DEF IsReturn
  <2>2. Len(s) # 1 /\ q[Last(s) - 1].call = c
    BY <1>8, <2>1
  <2> DEFINE t == Front(s)
  <2>3. t \in Seq(1 .. (n + 1) + 1) /\ Len(t) = Len(s) - 1 /\ \A k \in 1 .. Len(s) - 1 : t[k] = s[k]
    BY <1>1, <1>4, FrontSeq
  <2>4. NewOpen(s, e, n + 2) = t
    BY <1>8 DEF NewOpen
  <2> HIDE DEF t
  <2>5. t # <<>> /\ t[1] = 1 /\ Last(t) = s[Len(s) - 1]
    <3>1. Len(t) # 0 /\ 1 \in 1 .. Len(s) - 1 /\ Len(s) - 1 \in 1 .. Len(s) - 1
      BY <1>1, <2>2, <2>3
    <3> QED
      BY <1>1, <2>3, <3>1, EmptySeq DEF Last
  <2>6. \A j, k \in 1 .. Len(t) : j < k => t[j] < t[k]
    <3>1. \A k \in 1 .. Len(t) : k \in 1 .. Len(s) /\ t[k] = s[k]
      BY <1>1, <2>3
    <3> QED
      BY <1>2, <3>1
  <2>7. ASSUME NEW k \in 2 .. Len(t)
        PROVE  /\ q[t[k] - 1].kind = "call" /\ q[t[k] - 1].call \in Resolved(P)
               /\ q[t[k] - 1].call[1] = FunAt(P, src, q, t[k - 1])
    <3>1. k \in 2 .. Len(s) /\ k \in 1 .. Len(s) - 1 /\ k - 1 \in 1 .. Len(s) - 1
      BY <1>1, <2>3
    <3> QED
      BY <1>2, <2>3, <3>1
  <2>8. e.to[1] = FunAt(P, src, q, Last(t))
    <3>1. Len(s) \in 2 .. Len(s)
      BY <1>1, <2>2, LenBounds
    <3>2. c[1] = FunAt(P, src, q, s[Len(s) - 1])
      BY <1>2, <2>2, <3>1 DEF Last
    <3> QED
      BY <2>1, <2>5, <3>2 DEF ReturnPoint
  <2> QED
    BY <1>3, <2>3, <2>4, <2>5, <2>6, <2>7, <2>8 DEF StackAt
<1> QED
  BY <1>5, <1>7, <1>8

LEMMA PathExtends ==
  ASSUME NEW P \in Programs, NEW src, NEW p, NEW O, OpenPath(P, src, p, O),
         NEW e \in EdgesOf(P), e.from = At(src, p, Len(p)),
         e.kind = "return" =>
           Len(O[Len(p)]) # 1 /\ p[Last(O[Len(p)]) - 1].call = e.call
  PROVE  OpenPath(P, src, Append(p, e), Reopened(O, p, e))
<1> DEFINE q == Append(p, e)
           N == Reopened(O, p, e)
           m == Len(p)
<1>1. p \in Seq(EdgesOf(P)) /\ m \in Nat
  BY LenProperties DEF OpenPath
<1>2. q \in Seq(EdgesOf(P)) /\ Len(q) = m + 1 /\ q[m + 1] = e /\ \A k \in 1 .. m : q[k] = p[k]
  BY <1>1, AppendSeq
<1>3. (\A n \in 0 .. m : N[n] = O[n]) /\ N[m + 1] = NewOpen(O[m], e, m + 2)
  BY <1>1 DEF Reopened
<1> HIDE DEF q, N
<1>4. ASSUME NEW n \in 0 .. m PROVE StackAt(P, src, q, N[n], n) /\ At(src, q, n) = At(src, p, n)
  <2>1. n \in Nat /\ (\A k \in 1 .. n : k \in 1 .. m) /\ (n = 0 \/ n \in 1 .. m)
    BY <1>1
  <2>2. StackAt(P, src, p, O[n], n) /\ \A k \in 1 .. n : q[k] = p[k]
    BY <1>2, <2>1 DEF OpenPath
  <2> QED
    BY <1>2, <1>3, <2>1, <2>2, StackSame DEF At
<1>5. m \in 0 .. m
  BY <1>1
<1>6. ASSUME e.kind = "return"
      PROVE  Len(N[m]) # 1 /\ q[Last(N[m]) - 1].call = e.call
  <2> DEFINE s == O[m]
  <2>1. StackAt(P, src, p, s, m)
    BY <1>5 DEF OpenPath
  <2>2. s \in Seq(1 .. m + 1) /\ s # <<>> /\ s[1] = 1
        /\ \A j, k \in 1 .. Len(s) : j < k => s[j] < s[k]
    BY <2>1 DEF StackAt
  <2>3. Len(s) \in Nat \ {0} /\ Last(s) \in 1 .. m + 1 /\ Len(s) # 1
    BY <1>6, <2>2, LastInSeq
  <2>4. 1 \in 1 .. Len(s) /\ Len(s) \in 1 .. Len(s) /\ 1 < Len(s)
    BY <2>2, <2>3, LenBounds
  <2>5. Last(s) - 1 \in 1 .. m
    <3>1. 1 < Last(s)
      BY <2>2, <2>4 DEF Last
    <3> HIDE DEF s
    <3> QED
      BY <1>1, <2>3, <3>1
  <2> QED
    BY <1>2, <1>3, <1>5, <1>6, <2>5
<1>7. StackAt(P, src, q, N[m + 1], m + 1)
  <2>1. StackAt(P, src, q, N[m], m) /\ At(src, q, m) = e.from
    BY <1>4, <1>5
  <2> QED
    BY <1>1, <1>2, <1>3, <1>5, <1>6, <2>1, NewOpenStack
<1>8. ASSUME NEW n \in 0 .. m + 1 PROVE StackAt(P, src, q, N[n], n)
  <2>1. n \in 0 .. m \/ n = m + 1
    BY <1>1
  <2> QED
    BY <1>4, <1>7, <2>1
<1>9. ASSUME NEW n \in 1 .. m + 1 PROVE q[n].from = At(src, q, n - 1) /\ OpenStep(q, N, n)
  <2>1. CASE n = m + 1
    <3>1. n - 1 = m /\ n + 1 = m + 2 /\ N[n] = NewOpen(N[m], e, m + 2) /\ q[n] = e
      BY <1>1, <1>2, <1>3, <1>5, <2>1
    <3>2. At(src, q, n - 1) = e.from
      BY <1>4, <1>5, <3>1
    <3> QED
      BY <1>6, <3>1, <3>2 DEF OpenStep, NewOpen
  <2>2. CASE n # m + 1
    <3>1. n \in 1 .. m /\ n - 1 \in 0 .. m /\ n \in 0 .. m
      BY <1>1, <2>2
    <3>2. p[n].from = At(src, p, n - 1) /\ OpenStep(p, O, n) /\ q[n] = p[n]
          /\ N[n] = O[n] /\ N[n - 1] = O[n - 1]
      BY <1>2, <1>3, <3>1 DEF OpenPath
    <3>3. CASE p[n].kind = "return"
      <4> DEFINE s == O[n - 1]
      <4>1. StackAt(P, src, p, s, n - 1) /\ Len(s) # 1 /\ p[Last(s) - 1].call = p[n].call
            /\ O[n] = Front(s)
        BY <3>1, <3>2, <3>3 DEF OpenPath, OpenStep
      <4>2. s \in Seq(1 .. (n - 1) + 1) /\ s # <<>> /\ s[1] = 1
            /\ \A j, k \in 1 .. Len(s) : j < k => s[j] < s[k]
        BY <4>1 DEF StackAt
      <4>3. Len(s) \in Nat \ {0} /\ Last(s) \in 1 .. (n - 1) + 1 /\ Len(s) # 1
        BY <4>1, <4>2, LastInSeq
      <4>4. 1 \in 1 .. Len(s) /\ Len(s) \in 1 .. Len(s) /\ 1 < Len(s)
        BY <4>2, <4>3, LenBounds
      <4>5. 1 < Last(s)
        BY <4>2, <4>4 DEF Last
      <4> HIDE DEF s
      <4>6. Last(s) - 1 \in 1 .. m
        BY <1>1, <3>1, <4>3, <4>5
      <4> QED
        BY <1>2, <1>4, <3>1, <3>2, <3>3, <4>1, <4>6 DEF OpenStep, s
    <3> QED
      BY <1>4, <3>1, <3>2, <3>3 DEF OpenStep
  <2> QED
    BY <2>1, <2>2
<1>10. N[0] = <<1>>
  <2>1. 0 \in 0 .. m
    BY <1>1
  <2> QED
    BY <1>3, <2>1 DEF OpenPath
<1> QED
  BY <1>2, <1>8, <1>9, <1>10 DEF OpenPath, q, N


-----------------------------------------------------------------------------
(* The activations of functions on a path, and what the walk keeps of the  *)
(* ones it still works in.                                                 *)

Acts(p)  == {1} \cup {i \in 2 .. Len(p) + 1 : p[i - 1].kind = "call"}
Elems(s) == {s[k] : k \in 1 .. Len(s)}

(* The walk is at the end of a path.                                       *)
Ground(P, src, o, d, f, p, O) ==
  /\ OrderFits(P, o) /\ OpenPath(P, src, p, O)
  /\ d \in Seq(Entry(P)) /\ f \in Seq(Frame(P)) /\ f # <<>> /\ f[1].call = NoCall
  /\ Len(d) = Len(p) + 1
  /\ \A n \in 1 .. Len(d) : d[n].v = At(src, p, n - 1) /\ d[n].v \in DOMAIN o

(* The activations whose call has not returned, live, have their frames on *)
(* the call stack, in order, and the inner ones have begun later.          *)
Framed(p, f, live, g, t) ==
  /\ \A i \in live : /\ g[i] \in 1 .. Len(f) /\ (g[i] = 1 <=> i = 1)
                     /\ i # 1 => f[g[i]].call = p[i - 1].call
  /\ \A i, k \in live : i < k => g[i] < g[k] /\ t[k] < t[i]

(* Each of them is where a search of its function alone is after as many   *)
(* turns, and sees the same.                                               *)
Evolves(P, src, o, d, f, p, live, g, t) ==
  \A i \in live : \E s : /\ Going(o, FunAt(P, src, p, i), t[i], s)
                         /\ Looks(P, d, f, i - 1, g[i] - 1, s)
Inside(P, src, d, f, p, live, g) ==
  \A i \in live : ~ (Len(f) = g[i] /\ Last(d).v = ExitOf(FunAt(P, src, p, i)))

(* The other ones have come to their EXIT, sooner than those around them.  *)
Exited(P, src, o, p, live, t, x) ==
  \A i \in Acts(p) \ live : /\ ExitAt(o, FunAt(P, src, p, i), x[i])
                            /\ \A k \in live : k < i => x[i] < t[k]

(* Any other frame was left behind by a function that had been searched to *)
(* its end, sooner than the one the frame is above.                        *)
Ended(P, o, f, live, back, g, t, z) ==
  \A j \in 2 .. Len(f) :
    /\ f[j].call \in Resolved(P)
    /\ \/ \E i \in live : g[i] = j
       \/ back # 0 /\ j = Len(f)
       \/ /\ EndAt(o, Callee(P, f[j].call), z[j])
          /\ \A i \in live : g[i] < j => z[j] < t[i]

(* The call whose return is being looked for at EXIT.                      *)
Returns(P, src, o, d, f, p, s, live, back, g) ==
  back # 0 =>
    /\ back = Last(s) /\ back > 1 /\ back \notin live
    /\ Len(f) >= 2 /\ f[Len(f)].call = p[back - 1].call
    /\ \A i \in live : g[i] < Len(f)
    /\ Last(d).v = ExitOf(FunAt(P, src, p, back))
    /\ \A k \in 1 .. Last(d).at : o[Last(d).v][k].call # p[back - 1].call

Tale(P, src, o, d, f, p, O, live, back, g, t, x, z) ==
  /\ live \subseteq Elems(O[Len(p)]) /\ back \in Nat
  /\ g \in [Nat -> Nat] /\ t \in [Nat -> Nat] /\ x \in [Nat -> Nat] /\ z \in [Nat -> Nat]
  /\ Framed(p, f, live, g, t)
  /\ Evolves(P, src, o, d, f, p, live, g, t)
  /\ Exited(P, src, o, p, live, t, x)
  /\ Ended(P, o, f, live, back, g, t, z)
  /\ Returns(P, src, o, d, f, p, O[Len(p)], live, back, g)

LEMMA TopFacts ==
  ASSUME NEW P, NEW src, NEW o, NEW d, NEW f, NEW p, NEW O, Ground(P, src, o, d, f, p, O)
  PROVE  LET s == O[Len(p)] IN
         /\ Len(p) \in Nat /\ Len(d) \in Nat \ {0} /\ d # <<>> /\ Len(f) \in Nat \ {0}
         /\ Last(d).v \in DOMAIN o /\ Last(d).v = At(src, p, Len(p)) /\ Last(d).at \in Nat
         /\ s \in Seq(1 .. Len(p) + 1) /\ s # <<>> /\ s[1] = 1
         /\ Last(d).v[1] = FunAt(P, src, p, Last(s))
         /\ Elems(s) \subseteq Acts(p) /\ Last(s) \in Elems(s)
         /\ \A i \in Elems(s) : i <= Last(s)
         /\ Acts(p) \subseteq 1 .. Len(p) + 1
<1> DEFINE s == O[Len(p)]
<1>1. Len(p) \in Nat /\ Len(d) = Len(p) + 1
  BY LenProperties DEF Ground, OpenPath
<1>2. d # <<>> /\ Len(d) \in Nat \ {0}
  BY <1>1, EmptySeq DEF Ground
<1>3. Len(f) \in Nat \ {0}
  BY LastInSeq DEF Ground
<1>4. Last(d) = d[Len(d)] /\ Len(d) \in 1 .. Len(d) /\ Len(d) - 1 = Len(p)
  BY <1>1, <1>2 DEF Last
<1>5. Last(d).v \in DOMAIN o /\ Last(d).v = At(src, p, Len(p))
  BY <1>4 DEF Ground
<1>6. Last(d).at \in Nat
  <2>1. Last(d) \in Entry(P)
    BY <1>2, LastInSeq DEF Ground
  <2> QED
    BY <2>1 DEF Entry
<1>7. StackAt(P, src, p, s, Len(p))
  <2>1. Len(p) \in 0 .. Len(p)
    BY <1>1
  <2> QED
    BY <2>1 DEF Ground, OpenPath
<1>8. /\ s \in Seq(1 .. Len(p) + 1) /\ s # <<>> /\ s[1] = 1
      /\ \A j, k \in 1 .. Len(s) : j < k => s[j] < s[k]
      /\ \A k \in 2 .. Len(s) : p[s[k] - 1].kind = "call"
      /\ At(src, p, Len(p))[1] = FunAt(P, src, p, Last(s))
  BY <1>7 DEF StackAt
<1> HIDE DEF s
<1>9. Len(s) \in Nat \ {0} /\ 1 \in 1 .. Len(s) /\ Len(s) \in 1 .. Len(s)
  BY <1>8, LenBounds
<1>10. PICK N \in Nat : N = Len(s)
  BY <1>9
<1>11. ASSUME NEW k \in 1 .. Len(s) PROVE s[k] \in Acts(p) /\ s[k] <= Last(s)
  <2>1. s[k] \in 1 .. Len(p) + 1
    BY <1>8, ElementOfSeq
  <2>2. k = 1 \/ (k \in 2 .. Len(s) /\ 1 < k)
    <3>1. k \in 1 .. N
      BY <1>10
    <3>2. k = 1 \/ (k \in 2 .. N /\ 1 < k)
      BY <3>1
    <3> QED
      BY <1>10, <3>2, Zenon
  <2>3. s[k] \in Acts(p)
    <3>1. CASE k = 1
      BY <1>8, <3>1 DEF Acts
    <3>2. CASE k # 1
      <4>1. 1 < s[k] /\ p[s[k] - 1].kind = "call"
        BY <1>8, <1>9, <2>2, <3>2
      <4>2. s[k] \in 2 .. Len(p) + 1
        BY <1>1, <2>1, <4>1
      <4> QED
        BY <4>1, <4>2 DEF Acts
    <3> QED
      BY <3>1, <3>2
  <2>4. s[k] <= Last(s)
    <3>1. k \in 1 .. N
      BY <1>10
    <3>2. k = N \/ k < N
      BY <3>1
    <3>3. CASE k = N
      BY <1>10, <2>1, <3>3 DEF Last
    <3>4. CASE k < N
      <4>1. s[k] < s[N] /\ s[N] \in 1 .. Len(p) + 1
        BY <1>8, <1>9, <1>10, <3>4, ElementOfSeq
      <4> QED
        BY <1>10, <2>1, <4>1 DEF Last
    <3> QED
      BY <3>2, <3>3, <3>4
  <2> QED
    BY <2>3, <2>4
<1>12. Last(s) \in Elems(s)
  BY <1>9 DEF Elems, Last
<1>13. Acts(p) \subseteq 1 .. Len(p) + 1
  BY <1>1 DEF Acts
<1>14. Elems(s) \subseteq Acts(p) /\ \A i \in Elems(s) : i <= Last(s)
  BY <1>11 DEF Elems
<1> QED
  BY <1>1, <1>2, <1>3, <1>5, <1>6, <1>8, <1>12, <1>13, <1>14 DEF s

LEMMA SeenFrom ==
  ASSUME NEW P, NEW d \in Seq(Entry(P)), NEW f \in Seq(Frame(P)), NEW c \in Nat, NEW h \in Nat,
         NEW s, Looks(P, d, f, c, h, s), NEW F
  PROVE  /\ s.d # <<>> /\ Last(s.d) = Last(d) /\ Len(d) = Len(s.d) + c
         /\ Len(s.d) \in Nat \ {0} /\ Len(s.f) \in Nat \ {0} /\ Len(f) = Len(s.f) + h
         /\ AtExit(F, s) <=> Len(f) = h + 1 /\ Last(d).v = ExitOf(F)
<1>1. s.d # <<>> /\ Last(s.d) = Last(d) /\ Len(d) = Len(s.d) + c /\ Len(s.d) \in Nat \ {0}
  BY AboveLast DEF Looks, Above
<1>2. Len(s.f) \in Nat \ {0} /\ Len(f) = Len(s.f) + h
  BY LikeLast DEF Looks, Like
<1>3. Len(s.f) = 1 <=> Len(f) = h + 1
  <2>1. PICK m \in Nat : m = Len(s.f) /\ Len(f) = m + h
    BY <1>2
  <2>2. m = 1 <=> m + h = h + 1
    OBVIOUS
  <2> QED
    BY <2>1, <2>2, Zenon
<1> QED
  BY <1>1, <1>2, <1>3, Zenon DEF AtExit

(* What a live activation looks like.                                      *)
Seen(P, src, o, d, f, p, s, i, g, t) ==
  /\ i \in Acts(p) /\ i \in 1 .. Len(p) + 1 /\ i - 1 \in Nat /\ g[i] - 1 \in Nat
  /\ g[i] \in 1 .. Len(f) /\ t[i] \in Nat
  /\ Going(o, FunAt(P, src, p, i), t[i], s)
  /\ Looks(P, d, f, i - 1, g[i] - 1, s)
  /\ s.d # <<>> /\ Last(s.d) = Last(d) /\ Len(d) = Len(s.d) + (i - 1)
  /\ Len(s.d) \in Nat \ {0}
  /\ AtExit(FunAt(P, src, p, i), s) <=>
       Len(f) = g[i] /\ Last(d).v = ExitOf(FunAt(P, src, p, i))

LEMMA LiveFacts ==
  ASSUME NEW P, NEW src, NEW o, NEW d, NEW f, NEW p, NEW O, Ground(P, src, o, d, f, p, O),
         NEW live, NEW back, NEW g, NEW t, NEW x, NEW z,
         Tale(P, src, o, d, f, p, O, live, back, g, t, x, z), NEW i \in live
  PROVE  /\ i <= Last(O[Len(p)]) /\ \E s : Seen(P, src, o, d, f, p, s, i, g, t)
<1>0. /\ live \subseteq Elems(O[Len(p)]) /\ Framed(p, f, live, g, t)
      /\ Evolves(P, src, o, d, f, p, live, g, t)
      /\ g \in [Nat -> Nat] /\ t \in [Nat -> Nat]
  BY DEF Tale
<1>1. i \in Acts(p) /\ i \in 1 .. Len(p) + 1 /\ i <= Last(O[Len(p)])
  BY <1>0, TopFacts
<1>2. i \in Nat /\ i - 1 \in Nat /\ t[i] \in Nat
  <2>1. Len(p) \in Nat
    BY TopFacts
  <2> QED
    BY <1>0, <1>1, <2>1
<1>3. PICK h \in Nat : g[i] = h + 1
  <2>1. PICK G : G = g[i]
    OBVIOUS
  <2>2. PICK m \in Nat : m = Len(f)
    BY TopFacts
  <2>3. G \in 1 .. m
    BY <1>0, <2>1, <2>2 DEF Framed
  <2>4. G - 1 \in Nat /\ G = (G - 1) + 1
    BY <2>3
  <2> QED
    BY <2>1, <2>4
<1>4. PICK s : Going(o, FunAt(P, src, p, i), t[i], s) /\ Looks(P, d, f, i - 1, g[i] - 1, s)
  BY <1>0 DEF Evolves
<1>5. d \in Seq(Entry(P)) /\ f \in Seq(Frame(P))
  BY DEF Ground
<1>6. g[i] - 1 = h
  BY <1>3
<1>7. PICK c \in Nat : c = i - 1
  BY <1>2
<1>8. Looks(P, d, f, c, h, s)
  BY <1>4, <1>6, <1>7
<1>9. /\ s.d # <<>> /\ Last(s.d) = Last(d) /\ Len(d) = Len(s.d) + c
      /\ Len(s.d) \in Nat \ {0}
      /\ AtExit(FunAt(P, src, p, i), s) <=>
           Len(f) = h + 1 /\ Last(d).v = ExitOf(FunAt(P, src, p, i))
  BY <1>5, <1>8, SeenFrom
<1>10. g[i] \in 1 .. Len(f)
  BY <1>0 DEF Framed
<1> QED
  BY <1>1, <1>2, <1>3, <1>4, <1>6, <1>7, <1>9, <1>10 DEF Seen

(* Only the innermost activation of a path can be at its EXIT in its own   *)
(* frame: one outside it would have been there before.                     *)
LEMMA InnermostExits ==
  ASSUME NEW P, NEW src, NEW o, NEW d, NEW f, NEW p, NEW O, Ground(P, src, o, d, f, p, O),
         NEW live, NEW back, NEW g, NEW t, NEW x, NEW z,
         Tale(P, src, o, d, f, p, O, live, back, g, t, x, z),
         NEW i \in live, Len(f) = g[i], Last(d).v = ExitOf(FunAt(P, src, p, i))
  PROVE  i = Last(O[Len(p)])
<1> DEFINE a == Last(O[Len(p)])
<1>1. a \in Acts(p) /\ a \in 1 .. Len(p) + 1 /\ Len(p) \in Nat /\ Last(d).v[1] = FunAt(P, src, p, a)
  BY TopFacts
<1>2. FunAt(P, src, p, a) = FunAt(P, src, p, i)
  BY <1>1 DEF ExitOf
<1>3. /\ i \in 1 .. Len(p) + 1 /\ i <= a /\ g[i] \in 1 .. Len(f)
      /\ \E s : Going(o, FunAt(P, src, p, i), t[i], s)
  BY LiveFacts DEF Seen
<1>4. x \in [Nat -> Nat] /\ t \in [Nat -> Nat] /\ g \in [Nat -> Nat]
  BY DEF Tale
<1> HIDE DEF a
<1> SUFFICES ASSUME i # a PROVE FALSE
  BY DEF a
<1>5. i < a
  BY <1>1, <1>3
<1>6. CASE a \in live
  <2>1. g[i] < g[a] /\ g[a] \in 1 .. Len(f) /\ Len(f) \in Nat
    BY <1>5, <1>6, TopFacts DEF Tale, Framed
  <2> QED
    BY <2>1
<1>7. CASE a \notin live
  <2>1. ExitAt(o, FunAt(P, src, p, a), x[a]) /\ x[a] < t[i]
    BY <1>1, <1>5, <1>7 DEF Tale, Exited
  <2>2. x[a] \in Nat /\ t[i] \in Nat
    BY <1>1, <1>3, <1>4
  <2>3. t[i] <= x[a]
    BY <1>2, <1>3, <2>1, <2>2, NotPastExit
  <2> QED
    BY <2>1, <2>2, <2>3
<1> QED
  BY <1>6, <1>7

(* A return that the top frame accepts is that of the innermost call of    *)
(* the path, which has just come to its EXIT: whatever frames were left    *)
(* behind, and however often the function is on the stack.                 *)
LEMMA ReturnMatches ==
  ASSUME NEW P \in Programs, NEW src, NEW o, NEW d, NEW f, NEW p, NEW O,
         Ground(P, src, o, d, f, p, O),
         NEW live, NEW back, NEW g, NEW t, NEW x, NEW z,
         Tale(P, src, o, d, f, p, O, live, back, g, t, x, z),
         Inside(P, src, d, f, p, live, g),
         NEW c \in Resolved(P), Last(d).v = ExitOf(Callee(P, c)), Last(f).call = c
  PROVE  back # 0
<1> SUFFICES ASSUME back = 0 PROVE FALSE
  OBVIOUS
<1> DEFINE a == Last(O[Len(p)])
           F == Callee(P, c)
           n == Len(f)
<1>1. /\ a \in Acts(p) /\ a \in 1 .. Len(p) + 1 /\ Len(p) \in Nat /\ n \in Nat \ {0}
      /\ FunAt(P, src, p, a) = F
  <2>1. Last(d).v[1] = F
    BY DEF ExitOf
  <2> QED
    BY <2>1, TopFacts
<1>2. x \in [Nat -> Nat] /\ t \in [Nat -> Nat] /\ g \in [Nat -> Nat] /\ z \in [Nat -> Nat]
  BY DEF Tale
<1>3. \A i \in live : /\ i \in 1 .. Len(p) + 1 /\ i <= a /\ g[i] \in 1 .. n
                       /\ \E s : Going(o, FunAt(P, src, p, i), t[i], s) /\ s.d # <<>>
  <2> TAKE i \in live
  <2>1. PICK s : i <= Last(O[Len(p)]) /\ Seen(P, src, o, d, f, p, s, i, g, t)
    BY LiveFacts
  <2> QED
    BY <2>1 DEF Seen
<1>4. c # NoCall /\ f[n].call = c
  BY ProgramsAssumption DEF Resolved, Last
<1>5. n \in 2 .. n
  BY <1>1, <1>4 DEF Ground
<1> HIDE DEF a, F, n
<1>6. CASE \E i \in live : g[i] = n
  <2>1. PICK i \in live : g[i] = n
    BY <1>6
  <2>2. i # 1 /\ f[n].call = p[i - 1].call
    <3>1. n # 1
      BY <1>5
    <3>2. (g[i] = 1 <=> i = 1) /\ (i # 1 => f[g[i]].call = p[i - 1].call)
      BY DEF Tale, Framed
    <3> QED
      BY <2>1, <3>1, <3>2
  <2>3. FunAt(P, src, p, i) = F
    BY <1>4, <2>2 DEF FunAt, F
  <2>4. FALSE
    BY <2>1, <2>3 DEF Inside, F, n
  <2> QED
    BY <2>4
<1>7. CASE ~ \E i \in live : g[i] = n
  <2>1. EndAt(o, F, z[n]) /\ \A i \in live : g[i] < n => z[n] < t[i]
    <3>1. back = 0 \/ n # Len(f)
      OBVIOUS
    <3>2. /\ \/ \E i \in live : g[i] = n
             \/ back # 0 /\ n = Len(f)
             \/ /\ EndAt(o, Callee(P, f[n].call), z[n])
                /\ \A i \in live : g[i] < n => z[n] < t[i]
      BY <1>5 DEF Tale, Ended, n
    <3> QED
      BY <1>4, <1>7, <3>2 DEF F
  <2>2. z[n] \in Nat
    BY <1>1, <1>2
  <2>3. CASE a \in live
    <3>1. PICK s : Going(o, F, t[a], s) /\ s.d # <<>>
      BY <1>1, <1>3, <2>3
    <3>2. g[a] < n
      <4>1. g[a] \in 1 .. n /\ g[a] # n
        BY <1>3, <1>7, <2>3
      <4> QED
        BY <1>1, <4>1
    <3>3. z[n] < t[a] /\ t[a] \in Nat
      BY <1>1, <1>2, <2>1, <2>3, <3>2
    <3>4. t[a] <= z[n]
      BY <2>1, <2>2, <3>1, <3>3, NotPastEnd
    <3> QED
      BY <2>2, <3>3, <3>4
  <2>4. CASE a \notin live
    <3>1. ExitAt(o, F, x[a]) /\ x[a] \in Nat
      BY <1>1, <1>2, <2>4 DEF Tale, Exited
    <3> QED
      BY <2>1, <2>2, <3>1, ExitOrEnd
  <2> QED
    BY <2>3, <2>4
<1> QED
  BY <1>6, <1>7


Ticked(t) == [i \in Nat |-> t[i] + 1]

LEMMA TickedIs ==
  ASSUME NEW t \in [Nat -> Nat]
  PROVE  Ticked(t) \in [Nat -> Nat] /\ \A i \in Nat : Ticked(t)[i] = t[i] + 1
  BY DEF Ticked

(* One turn: what is kept of an activation that stays live.                *)
LEMMA TurnEvolves ==
  ASSUME NEW P \in Programs, NEW src, NEW o, NEW d, NEW f, NEW p, NEW O,
         Ground(P, src, o, d, f, p, O),
         NEW live, NEW back, NEW g, NEW t, NEW x, NEW z,
         Tale(P, src, o, d, f, p, O, live, back, g, t, x, z),
         Inside(P, src, d, f, p, live, g), NEW i \in live,
         LET S == [d |-> d, f |-> f] IN
           /\ More(o, S) /\ Topmost(o, S).kind = "return" /\ Len(f) = g[i]
                => Topmost(o, S).call # Last(f).call
           /\ ~More(o, S) => Len(d) > i
  PROVE  LET S == Turn(o, [d |-> d, f |-> f])
         IN  \E s : /\ Going(o, FunAt(P, src, p, i), t[i] + 1, s)
                    /\ Looks(P, S.d, S.f, i - 1, g[i] - 1, s)
<1> DEFINE S == [d |-> d, f |-> f]
           F == FunAt(P, src, p, i)
           N == Turn(o, S)
<1>1. PICK s : Seen(P, src, o, d, f, p, s, i, g, t)
  BY LiveFacts
<1>2. Goes(o, F, s)
  <2>1. Last(d).v \in DOMAIN o
    BY TopFacts
  <2>2. ~AtExit(F, s)
    BY <1>1 DEF Seen, Inside
  <2> QED
    BY <1>1, <2>1, <2>2 DEF Goes, Seen
<1>3. Going(o, F, t[i] + 1, Turn(o, s))
  BY <1>1, <1>2, GoingOn DEF Seen
<1>4. PICK c, h : /\ c \in Nat /\ c = i - 1 /\ h \in Nat /\ h = g[i] - 1
                  /\ g[i] = h + 1 /\ i = c + 1
  BY <1>1 DEF Seen
<1>5. /\ d \in Seq(Entry(P)) /\ d # <<>> /\ f \in Seq(Frame(P)) /\ f # <<>>
      /\ Last(d).v \in DOMAIN o /\ OrderFits(P, o)
  BY TopFacts DEF Ground
<1>6. Looks(P, d, f, c, h, s)
  BY <1>1, <1>4 DEF Seen
<1>7. /\ More(o, S) /\ Topmost(o, S).kind = "return" /\ Len(f) = h + 1
           => Topmost(o, S).call # Last(f).call
      /\ ~More(o, S) => Len(d) > c + 1
  BY <1>4
<1>8. Looks(P, N.d, N.f, c, h, Turn(o, s))
  BY <1>4, <1>5, <1>6, <1>7, LooksTurned
<1> QED
  BY <1>3, <1>4, <1>8

(* An activation that is no longer live stays so, one turn later.          *)
Lasts(P, src, p, live, t, q, live2, t2) ==
  /\ Acts(p) \subseteq Nat /\ t \in [Nat -> Nat] /\ t2 \in [Nat -> Nat]
  /\ Acts(q) \ live2 \subseteq Acts(p) \ live
  /\ \A i \in Acts(q) \ live2 : FunAt(P, src, q, i) = FunAt(P, src, p, i)
  /\ \A i \in Acts(q) \ live2 : \A k \in live2 :
       k < i => k \in live /\ k \in Nat /\ t2[k] = t[k] + 1

LEMMA ExitedOn ==
  ASSUME NEW P, NEW src, NEW o, NEW p, NEW live, NEW t, NEW x,
         Exited(P, src, o, p, live, t, x), x \in [Nat -> Nat],
         NEW q, NEW live2, NEW t2, Lasts(P, src, p, live, t, q, live2, t2)
  PROVE  Exited(P, src, o, q, live2, t2, x)
<1> SUFFICES ASSUME NEW i \in Acts(q) \ live2
             PROVE  /\ ExitAt(o, FunAt(P, src, q, i), x[i])
                    /\ \A k \in live2 : k < i => x[i] < t2[k]
  BY DEF Exited
<1>1. i \in Acts(p) \ live /\ x[i] \in Nat /\ FunAt(P, src, q, i) = FunAt(P, src, p, i)
  BY DEF Lasts
<1>2. ExitAt(o, FunAt(P, src, p, i), x[i]) /\ \A k \in live : k < i => x[i] < t[k]
  BY <1>1 DEF Exited
<1>4. ASSUME NEW k \in live2, k < i PROVE x[i] < t2[k]
  <2>1. k \in live /\ t2[k] = t[k] + 1 /\ x[i] < t[k] /\ t[k] \in Nat
    BY <1>2, <1>4 DEF Lasts
  <2> QED
    BY <1>1, <2>1
<1> QED
  BY <1>1, <1>2, <1>4

(* A walk that has just come to its vertex, or is not at EXIT, may call an *)
(* activation left once its EXIT is reached.                               *)
Story(P, src, o, d, f, p) ==
  \E O, live, back, g, t, x, z :
    /\ Ground(P, src, o, d, f, p, O)
    /\ Tale(P, src, o, d, f, p, O, live, back, g, t, x, z)
    /\ Inside(P, src, d, f, p, live, g)

LEMMA Settle ==
  ASSUME NEW P, NEW src, NEW o, NEW d, NEW f, NEW p, NEW O, Ground(P, src, o, d, f, p, O),
         NEW live, NEW g, NEW t, NEW x, NEW z,
         Tale(P, src, o, d, f, p, O, live, 0, g, t, x, z),
         ~ Inside(P, src, d, f, p, live, g) => Last(d).at = 0
  PROVE  Story(P, src, o, d, f, p)
<1>1. CASE Inside(P, src, d, f, p, live, g)
  BY <1>1, Zenon DEF Story
<1>2. CASE ~ Inside(P, src, d, f, p, live, g)
  <2>1. PICK i \in live : Len(f) = g[i] /\ Last(d).v = ExitOf(FunAt(P, src, p, i))
    BY <1>2 DEF Inside
  <2>2. i = Last(O[Len(p)])
    BY <2>1, InnermostExits
  <2>3. PICK s : Seen(P, src, o, d, f, p, s, i, g, t)
    BY LiveFacts
  <2> DEFINE l2 == live \ {i}
             b2 == IF i = 1 THEN 0 ELSE i
             x2 == [x EXCEPT ![i] = t[i]]
  <2>4. /\ live \subseteq Elems(O[Len(p)])
        /\ g \in [Nat -> Nat] /\ t \in [Nat -> Nat] /\ x \in [Nat -> Nat] /\ z \in [Nat -> Nat]
        /\ Framed(p, f, live, g, t) /\ Evolves(P, src, o, d, f, p, live, g, t)
        /\ Exited(P, src, o, p, live, t, x) /\ Ended(P, o, f, live, 0, g, t, z)
    BY DEF Tale
  <2>5. i \in Nat /\ i \in Acts(p) /\ t[i] \in Nat /\ Len(p) \in Nat /\ Len(f) \in Nat \ {0} /\ i # 0
    BY <2>3, TopFacts DEF Seen
  <2>6. x2 \in [Nat -> Nat] /\ x2[i] = t[i] /\ \A k \in Nat : k # i => x2[k] = x[k]
    BY <2>4, <2>5
  <2>7. \A k \in l2 : k \in live /\ k < i /\ g[k] < Len(f) /\ t[i] < t[k]
    <3> TAKE k \in l2
    <3>1. k <= i /\ \E y : Seen(P, src, o, d, f, p, y, k, g, t)
      BY <2>2, LiveFacts
    <3>2. k \in 1 .. Len(p) + 1
      BY <3>1 DEF Seen
    <3>3. k < i
      BY <2>5, <3>1, <3>2
    <3> QED
      BY <2>1, <2>4, <3>3 DEF Framed
  <2>8. Framed(p, f, l2, g, t) /\ Evolves(P, src, o, d, f, p, l2, g, t)
    BY <2>4 DEF Framed, Evolves
  <2>9. Inside(P, src, d, f, p, l2, g)
    BY <2>5, <2>7 DEF Inside
  <2>10. Exited(P, src, o, p, l2, t, x2)
    <3> SUFFICES ASSUME NEW a \in Acts(p) \ l2
                 PROVE  /\ ExitAt(o, FunAt(P, src, p, a), x2[a])
                        /\ \A k \in l2 : k < a => x2[a] < t[k]
      BY DEF Exited
    <3>1. CASE a = i
      <4>1. ExitAt(o, FunAt(P, src, p, i), t[i])
        BY <2>1, <2>3 DEF ExitAt, Seen
      <4> QED
        BY <2>6, <2>7, <3>1, <4>1
    <3>2. CASE a # i
      <4>1. a \in Acts(p) \ live /\ a \in Nat
        <5>1. Acts(p) \subseteq 1 .. Len(p) + 1
          BY TopFacts
        <5> QED
          BY <2>5, <3>2, <5>1
      <4> QED
        BY <2>4, <2>6, <3>2, <4>1 DEF Exited
    <3> QED
      BY <3>1, <3>2
  <2>11. Ended(P, o, f, l2, b2, g, t, z)
    <3> SUFFICES ASSUME NEW j \in 2 .. Len(f)
                 PROVE  /\ f[j].call \in Resolved(P)
                        /\ \/ \E k \in l2 : g[k] = j
                           \/ b2 # 0 /\ j = Len(f)
                           \/ /\ EndAt(o, Callee(P, f[j].call), z[j])
                              /\ \A k \in l2 : g[k] < j => z[j] < t[k]
      BY DEF Ended
    <3>1. /\ f[j].call \in Resolved(P)
          /\ \/ \E k \in live : g[k] = j
             \/ /\ EndAt(o, Callee(P, f[j].call), z[j])
                /\ \A k \in live : g[k] < j => z[j] < t[k]
      BY <2>4 DEF Ended
    <3>2. ASSUME g[i] = j PROVE b2 # 0 /\ j = Len(f)
      <4>1. j # 1
        OBVIOUS
      <4>2. g[i] = 1 <=> i = 1
        BY <2>4 DEF Framed
      <4> QED
        BY <2>1, <2>5, <3>2, <4>1, <4>2
    <3> HIDE DEF b2
    <3> QED
      BY <3>1, <3>2
  <2>12. Returns(P, src, o, d, f, p, O[Len(p)], l2, b2, g)
    <3> SUFFICES ASSUME i # 1
                 PROVE  /\ i = Last(O[Len(p)]) /\ i > 1 /\ i \notin l2
                        /\ Len(f) >= 2 /\ f[Len(f)].call = p[i - 1].call
                        /\ \A k \in l2 : g[k] < Len(f)
                        /\ Last(d).v = ExitOf(FunAt(P, src, p, i))
                        /\ \A k \in 1 .. Last(d).at : o[Last(d).v][k].call # p[i - 1].call
      BY DEF Returns
    <3>1. i > 1 /\ Len(f) # 1 /\ f[Len(f)].call = p[i - 1].call
      <4>1. (g[i] = 1 <=> i = 1) /\ f[g[i]].call = p[i - 1].call
        BY <2>4 DEF Framed
      <4> QED
        BY <2>1, <2>5, <4>1
    <3>2. Len(f) >= 2
      <4>1. PICK n : n = Len(f)
        OBVIOUS
      <4>2. n \in Nat \ {0} /\ n # 1
        BY <2>5, <3>1, <4>1
      <4>3. n >= 2
        BY <4>2
      <4> QED
        BY <4>1, <4>3
    <3>3. 1 .. Last(d).at = {}
      BY <1>2
    <3> QED
      BY <2>1, <2>2, <2>7, <3>1, <3>2, <3>3
  <2>13. Tale(P, src, o, d, f, p, O, l2, b2, g, t, x2, z)
    <3>1. b2 \in Nat /\ l2 \subseteq Elems(O[Len(p)])
      BY <2>4, <2>5
    <3> HIDE DEF b2, l2, x2
    <3> QED
      BY <2>4, <2>6, <2>8, <2>10, <2>11, <2>12, <3>1 DEF Tale
  <2> QED
    BY <2>9, <2>13, Zenon DEF Story
<1> QED
  BY <1>1, <1>2


Stands(p, f, live, q, f2, live2, g) ==
  /\ live2 \subseteq live /\ live \subseteq Nat
  /\ \A i \in live2 : /\ g[i] \in 1 .. Len(f2) /\ f2[g[i]].call = f[g[i]].call
                      /\ i # 1 => q[i - 1] = p[i - 1]

LEMMA FramedOn ==
  ASSUME NEW p, NEW f, NEW live, NEW g, NEW t, t \in [Nat -> Nat], Framed(p, f, live, g, t),
         NEW f2, NEW q, NEW live2, Stands(p, f, live, q, f2, live2, g)
  PROVE  Framed(q, f2, live2, g, Ticked(t))
<1>1. \A i \in live2 : Ticked(t)[i] = t[i] + 1 /\ t[i] \in Nat
  BY TickedIs DEF Stands
<1>2. ASSUME NEW i \in live2
      PROVE  /\ g[i] \in 1 .. Len(f2) /\ (g[i] = 1 <=> i = 1)
             /\ i # 1 => f2[g[i]].call = q[i - 1].call
  <2>1. (g[i] = 1 <=> i = 1) /\ (i # 1 => f[g[i]].call = p[i - 1].call)
    BY DEF Framed, Stands
  <2>2. /\ g[i] \in 1 .. Len(f2) /\ f2[g[i]].call = f[g[i]].call
        /\ i # 1 => q[i - 1] = p[i - 1]
    BY DEF Stands
  <2> QED
    BY <2>1, <2>2, Zenon
<1>3. ASSUME NEW i \in live2, NEW k \in live2, i < k
      PROVE  g[i] < g[k] /\ Ticked(t)[k] < Ticked(t)[i]
  <2>1. g[i] < g[k] /\ t[k] < t[i]
    BY <1>3 DEF Framed, Stands
  <2> QED
    BY <1>1, <2>1
<1> QED
  BY <1>2, <1>3 DEF Framed

LEMMA EvolvesOn ==
  ASSUME NEW P \in Programs, NEW src, NEW o, NEW d, NEW f, NEW p, NEW O,
         Ground(P, src, o, d, f, p, O),
         NEW live, NEW back, NEW g, NEW t, NEW x, NEW z,
         Tale(P, src, o, d, f, p, O, live, back, g, t, x, z),
         Inside(P, src, d, f, p, live, g),
         NEW live2, live2 \subseteq live, NEW d2, NEW f2, NEW q,
         Turn(o, [d |-> d, f |-> f]) = [d |-> d2, f |-> f2],
         \A i \in live2 : i # 1 => q[i - 1] = p[i - 1],
         LET S == [d |-> d, f |-> f] IN \A i \in live2 :
           /\ More(o, S) /\ Topmost(o, S).kind = "return" /\ Len(f) = g[i]
                => Topmost(o, S).call # Last(f).call
           /\ ~More(o, S) => Len(d) > i
  PROVE  Evolves(P, src, o, d2, f2, q, live2, g, Ticked(t))
<1> SUFFICES ASSUME NEW i \in live2
             PROVE  \E s : /\ Going(o, FunAt(P, src, q, i), Ticked(t)[i], s)
                           /\ Looks(P, d2, f2, i - 1, g[i] - 1, s)
  BY DEF Evolves
<1>1. Ticked(t)[i] = t[i] + 1
  <2>1. \E s : Seen(P, src, o, d, f, p, s, i, g, t)
    BY LiveFacts
  <2>2. i \in 1 .. Len(p) + 1
    BY <2>1 DEF Seen
  <2>3. i \in Nat
    BY <2>2
  <2> QED
    BY <2>3 DEF Ticked
<1>2. FunAt(P, src, q, i) = FunAt(P, src, p, i)
  BY DEF FunAt
<1> DEFINE S == Turn(o, [d |-> d, f |-> f])
<1>3. S.d = d2 /\ S.f = f2
  OBVIOUS
<1>4. \E s : /\ Going(o, FunAt(P, src, p, i), t[i] + 1, s)
             /\ Looks(P, S.d, S.f, i - 1, g[i] - 1, s)
  BY TurnEvolves
<1> QED
  BY <1>1, <1>2, <1>3, <1>4, Zenon

LEMMA EndedOn ==
  ASSUME NEW P, NEW src, NEW o, NEW d, NEW f, NEW p, NEW O, Ground(P, src, o, d, f, p, O),
         NEW live, NEW back, NEW g, NEW t, NEW x, NEW z,
         Tale(P, src, o, d, f, p, O, live, back, g, t, x, z),
         NEW f2, NEW back2, Len(f2) \in Nat, Len(f2) <= Len(f),
         \A j \in 1 .. Len(f2) : f2[j].call = f[j].call,
         back # 0 /\ Len(f2) = Len(f) => back2 = back
  PROVE  Ended(P, o, f2, live, back2, g, Ticked(t), z)
<1> SUFFICES ASSUME NEW j \in 2 .. Len(f2)
             PROVE  /\ f2[j].call \in Resolved(P)
                    /\ \/ \E i \in live : g[i] = j
                       \/ back2 # 0 /\ j = Len(f2)
                       \/ /\ EndAt(o, Callee(P, f2[j].call), z[j])
                          /\ \A i \in live : g[i] < j => z[j] < Ticked(t)[i]
  BY DEF Ended
<1>1. PICK n, m : n \in Nat /\ n = Len(f2) /\ m \in Nat /\ m = Len(f) /\ n <= m
  BY TopFacts
<1>2. j \in 1 .. n /\ j \in 2 .. m /\ j \in Nat /\ (j = m => n = m /\ j = n)
  BY <1>1
<1>3. /\ f[j].call \in Resolved(P)
      /\ \/ \E i \in live : g[i] = j
         \/ back # 0 /\ j = Len(f)
         \/ /\ EndAt(o, Callee(P, f[j].call), z[j])
            /\ \A i \in live : g[i] < j => z[j] < t[i]
  BY <1>1, <1>2 DEF Tale, Ended
<1>4. f2[j].call = f[j].call
  BY <1>1, <1>2
<1>5. CASE back # 0 /\ j = Len(f)
  BY <1>1, <1>2, <1>3, <1>4, <1>5
<1>6. CASE EndAt(o, Callee(P, f[j].call), z[j]) /\ \A i \in live : g[i] < j => z[j] < t[i]
  <2>1. ASSUME NEW i \in live, g[i] < j PROVE z[j] < Ticked(t)[i]
    <3>1. t[i] \in Nat /\ i \in Nat
      <4>1. \E s : Seen(P, src, o, d, f, p, s, i, g, t)
        BY LiveFacts
      <4>2. i \in 1 .. Len(p) + 1 /\ t[i] \in Nat
        BY <4>1 DEF Seen
      <4> QED
        BY <4>2
    <3>2. Ticked(t)[i] = t[i] + 1
      BY <3>1 DEF Ticked
    <3>3. z[j] \in Nat /\ z[j] < t[i]
      BY <1>2, <1>6, <2>1 DEF Tale
    <3> QED
      BY <3>1, <3>2, <3>3
  <2> QED
    BY <1>3, <1>4, <1>6, <2>1
<1> QED
  BY <1>3, <1>4, <1>5, <1>6

(* One turn over an edge that is no call.                                  *)
KeepsOn(o, d, f, p, live, back, g, f2, q, s, back2) ==
  LET S == [d |-> d, f |-> f] IN
  /\ More(o, S)
  /\ \A i \in live : Topmost(o, S).kind = "return" /\ Len(f) = g[i]
       => Topmost(o, S).call # Last(f).call
  /\ live \subseteq Elems(s)
  /\ \A k \in 1 .. Len(p) : q[k] = p[k]
  /\ Acts(q) \subseteq Acts(p)
  /\ Len(f2) \in Nat /\ Len(f2) <= Len(f) /\ \A i \in live : g[i] <= Len(f2)
  /\ \A j \in 1 .. Len(f2) : f2[j].call = f[j].call
  /\ back # 0 /\ Len(f2) = Len(f) => back2 = back
  /\ back2 \in Nat

LEMMA TaleOn ==
  ASSUME NEW P \in Programs, NEW src, NEW o, NEW d, NEW f, NEW p, NEW O,
         Ground(P, src, o, d, f, p, O),
         NEW live, NEW back, NEW g, NEW t, NEW x, NEW z,
         Tale(P, src, o, d, f, p, O, live, back, g, t, x, z),
         Inside(P, src, d, f, p, live, g),
         NEW d2, NEW f2, NEW q, NEW N, NEW back2,
         Turn(o, [d |-> d, f |-> f]) = [d |-> d2, f |-> f2],
         KeepsOn(o, d, f, p, live, back, g, f2, q, N[Len(q)], back2),
         Returns(P, src, o, d2, f2, q, N[Len(q)], live, back2, g)
  PROVE  Tale(P, src, o, d2, f2, q, N, live, back2, g, Ticked(t), x, z)
<1> DEFINE S == [d |-> d, f |-> f]
<1>1. /\ \A i \in live : Topmost(o, S).kind = "return" /\ Len(f) = g[i]
           => Topmost(o, S).call # Last(f).call
      /\ More(o, S) /\ live \subseteq Elems(N[Len(q)])
      /\ \A k \in 1 .. Len(p) : q[k] = p[k]
      /\ Acts(q) \subseteq Acts(p)
      /\ Len(f2) \in Nat /\ Len(f2) <= Len(f) /\ \A i \in live : g[i] <= Len(f2)
      /\ \A j \in 1 .. Len(f2) : f2[j].call = f[j].call
      /\ back # 0 /\ Len(f2) = Len(f) => back2 = back
      /\ back2 \in Nat
  BY DEF KeepsOn
<1>2. Len(p) \in Nat /\ Acts(p) \subseteq 1 .. Len(p) + 1
  BY TopFacts
<1>3. ASSUME NEW i \in Acts(p), i # 1 PROVE q[i - 1] = p[i - 1]
  <2>1. i \in 1 .. Len(p) + 1
    BY <1>2
  <2>2. i - 1 \in 1 .. Len(p)
    BY <1>2, <1>3, <2>1
  <2> QED
    BY <1>1, <2>2
<1>4. \A i \in live : i \in Acts(p) /\ g[i] \in 1 .. Len(f)
  BY LiveFacts DEF Seen
<1>5. \A i \in live : /\ g[i] \in 1 .. Len(f2) /\ f2[g[i]].call = f[g[i]].call
                      /\ i # 1 => q[i - 1] = p[i - 1]
  <2> TAKE i \in live
  <2>1. g[i] \in 1 .. Len(f) /\ g[i] <= Len(f2) /\ Len(f2) \in Nat /\ Len(f) \in Nat
    BY <1>1, <1>4, TopFacts
  <2>2. g[i] \in 1 .. Len(f2)
    BY <2>1
  <2> QED
    BY <1>1, <1>3, <1>4, <2>2
<1>6. /\ g \in [Nat -> Nat] /\ t \in [Nat -> Nat] /\ x \in [Nat -> Nat] /\ z \in [Nat -> Nat]
      /\ Framed(p, f, live, g, t) /\ Exited(P, src, o, p, live, t, x)
  BY DEF Tale
<1>7. Framed(q, f2, live, g, Ticked(t)) /\ \A i \in live : Ticked(t)[i] = t[i] + 1
  <2>1. live \in SUBSET live /\ live \subseteq Nat /\ Acts(p) \subseteq Nat
    BY <1>2, <1>4
  <2>2. Stands(p, f, live, q, f2, live, g)
    BY <1>5, <2>1 DEF Stands
  <2>4. Framed(q, f2, live, g, Ticked(t))
    BY <1>6, <2>2, FramedOn, Zenon
  <2>3. \A i \in live : Ticked(t)[i] = t[i] + 1
    BY <1>6, <2>1, TickedIs
  <2> QED
    BY <2>3, <2>4
<1>8. Evolves(P, src, o, d2, f2, q, live, g, Ticked(t))
  <2>1. live \subseteq live
    OBVIOUS
  <2> QED
    BY <1>1, <1>5, <2>1, EvolvesOn
<1>9. Ticked(t) \in [Nat -> Nat]
  BY <1>6, TickedIs
<1>10. Exited(P, src, o, q, live, Ticked(t), x)
  <2>1. \A i \in Acts(q) \ live : FunAt(P, src, q, i) = FunAt(P, src, p, i)
    BY <1>1, <1>3 DEF FunAt
  <2>2. Acts(q) \ live \subseteq Acts(p) \ live
    BY <1>1
  <2>3. \A i \in Acts(q) \ live : \A k \in live : k < i => k \in live /\ k \in Nat /\ Ticked(t)[k] = t[k] + 1
    BY <1>1, <1>2, <1>4, <1>7
  <2>4. Acts(p) \subseteq Nat
    BY <1>2
  <2>5. Lasts(P, src, p, live, t, q, live, Ticked(t))
    BY <1>6, <1>9, <2>1, <2>2, <2>3, <2>4 DEF Lasts
  <2> QED
    BY <1>6, <2>5, ExitedOn, Zenon
<1>11. Ended(P, o, f2, live, back2, g, Ticked(t), z)
  BY <1>1, EndedOn
<1> QED
  BY <1>1, <1>6, <1>7, <1>8, <1>9, <1>10, <1>11 DEF Tale


(* All edges out of an EXIT are returns.                                   *)
LEMMA ExitEdges ==
  ASSUME NEW P \in Programs, NEW e \in EdgesOf(P), NEW F, e.from = ExitOf(F)
  PROVE  e.kind = "return"
<1> SUFFICES ASSUME e.kind # "return" PROVE FALSE
  OBVIOUS
<1>1. e.from[2] = 1
  BY DEF ExitOf
<1>2. CASE e.kind = "call"
  <2>1. PICK c \in Resolved(P) : e.from = c
    BY <1>2, LinkForms DEF IsCall
  <2>2. PICK f \in DOMAIN P : \E n \in DOMAIN P[f].calls : c = <<f, n>>
    BY DEF Resolved, CallSites
  <2>3. 1 \in DOMAIN P[f].calls
    BY <1>1, <2>1, <2>2
  <2>4. \E a \in P[f].arcs : {b \in P[f].arcs : b.from = 1 /\ b.kind # "impossible"} = {a}
    BY <2>3, ProgramsAssumption
  <2>5. \E a \in P[f].arcs : a.from = 1
    BY <2>4
  <2> QED
    BY <2>5, ProgramsAssumption
<1>3. CASE e.kind # "call"
  <2>1. PICK f \in DOMAIN P : \E a \in P[f].arcs : e = ArcEdge(f, a)
    BY <1>3, LinkForms
  <2>2. \E a \in P[f].arcs : a.from = 1
    BY <1>1, <2>1 DEF ArcEdge
  <2> QED
    BY <2>2, ProgramsAssumption
<1> QED
  BY <1>2, <1>3

LEMMA GroundMoves ==
  ASSUME NEW P, NEW src, NEW o, NEW d, NEW f, NEW p, NEW O, Ground(P, src, o, d, f, p, O),
         NEW f2 \in Seq(Frame(P)), f2 # <<>>, f2[1].call = NoCall
  PROVE  /\ Ground(P, src, o, MoveOn(d), f2, p, O)
         /\ Last(MoveOn(d)).v = Last(d).v /\ Last(MoveOn(d)).at = Last(d).at + 1
<1>1. d \in Seq(Entry(P)) /\ d # <<>> /\ Len(d) \in Nat \ {0}
  BY TopFacts DEF Ground
<1>2. /\ MoveOn(d) \in Seq(Entry(P)) /\ Len(MoveOn(d)) = Len(d)
      /\ MoveOn(d)[Len(d)] = [v |-> d[Len(d)].v, at |-> d[Len(d)].at + 1]
      /\ \A k \in 1 .. Len(d) : MoveOn(d)[k].v = d[k].v
  BY <1>1, MoveOnIs
<1>3. Last(MoveOn(d)) = [v |-> Last(d).v, at |-> Last(d).at + 1]
  BY <1>2 DEF Last
<1> QED
  BY <1>2, <1>3 DEF Ground

(* A return the top frame accepts.                                         *)
LEMMA OwnReturn ==
  ASSUME NEW P \in Programs, NEW src, NEW o, NEW d, NEW f, NEW p, NEW O,
         Ground(P, src, o, d, f, p, O),
         NEW live, NEW back, NEW g, NEW t, NEW x, NEW z,
         Tale(P, src, o, d, f, p, O, live, back, g, t, x, z),
         Inside(P, src, d, f, p, live, g),
         NEW e \in EdgesOf(P), e.from = Last(d).v, e.kind = "return", e.call = Last(f).call
  PROVE  /\ back # 0 /\ back = Last(O[Len(p)]) /\ back \notin live /\ Len(f) >= 2
         /\ e.call = p[back - 1].call
         /\ \A i \in live : g[i] < Len(f)
         /\ Len(O[Len(p)]) # 1
<1>1. PICK c \in Resolved(P) : IsReturn(P, e, c)
  BY LinkForms
<1>2. Last(d).v = ExitOf(Callee(P, c)) /\ Last(f).call = c
  BY <1>1 DEF IsReturn
<1>3. back # 0
  BY <1>2, ReturnMatches
<1>4. /\ back = Last(O[Len(p)]) /\ back > 1 /\ back \notin live
      /\ Len(f) >= 2 /\ f[Len(f)].call = p[back - 1].call
      /\ \A i \in live : g[i] < Len(f)
  BY <1>3 DEF Tale, Returns
<1>5. Len(O[Len(p)]) # 1
  <2>1. O[Len(p)][1] = 1
    BY TopFacts
  <2> QED
    BY <1>4, <2>1 DEF Last
<1> QED
  BY <1>3, <1>4, <1>5 DEF Last

LEMMA FrontFrames ==
  ASSUME NEW P, NEW f \in Seq(Frame(P)), f # <<>>, Len(f) >= 2, f[1].call = NoCall
  PROVE  /\ Front(f) \in Seq(Frame(P)) /\ Front(f) # <<>> /\ Front(f)[1].call = NoCall
         /\ Len(Front(f)) = Len(f) - 1 /\ Len(f) \in Nat
         /\ \A k \in 1 .. Len(f) - 1 : Front(f)[k] = f[k]
<1>1. /\ Front(f) \in Seq(Frame(P)) /\ Len(Front(f)) = Len(f) - 1
      /\ \A k \in 1 .. Len(f) - 1 : Front(f)[k] = f[k]
  BY FrontSeq
<1>2. PICK n \in Nat : n = Len(f) /\ n >= 2
  BY LenProperties
<1>3. 1 \in 1 .. n - 1 /\ n - 1 # 0
  BY <1>2
<1>4. Front(f) # <<>>
  <2>1. Len(Front(f)) # 0
    BY <1>1, <1>2, <1>3
  <2> QED
    BY <2>1, EmptySeq
<1>5. Front(f)[1] = f[1]
  BY <1>1, <1>2, <1>3
<1> QED
  BY <1>1, <1>2, <1>4, <1>5

(* An edge passed over, or one to a vertex seen already.                   *)
LEMMA StoryStays ==
  ASSUME NEW P \in Programs, NEW src, NEW o, NEW d, NEW f, NEW p, Story(P, src, o, d, f, p),
         LET S == [d |-> d, f |-> f] IN
           /\ More(o, S) /\ Turn(o, S) = [d |-> MoveOn(d), f |-> f]
           /\ ~(Topmost(o, S).kind = "return" /\ Topmost(o, S).call = Last(f).call)
  PROVE  Story(P, src, o, MoveOn(d), f, p)
<1>1. PICK O, live, back, g, t, x, z :
        /\ Ground(P, src, o, d, f, p, O)
        /\ Tale(P, src, o, d, f, p, O, live, back, g, t, x, z)
        /\ Inside(P, src, d, f, p, live, g)
  BY Zenon DEF Story
<1> DEFINE S == [d |-> d, f |-> f]
           e == Topmost(o, S)
<1>2. Last(d).v \in DOMAIN o /\ d \in Seq(Entry(P)) /\ d # <<>> /\ OrderFits(P, o)
      /\ f \in Seq(Frame(P)) /\ f # <<>> /\ f[1].call = NoCall /\ Last(d).at \in Nat
      /\ Len(f) \in Nat
  BY <1>1, TopFacts DEF Ground
<1>3. e \in EdgesOf(P) /\ e.from = Last(d).v
  BY <1>2, TopmostIs
<1>4. /\ Ground(P, src, o, MoveOn(d), f, p, O)
      /\ Last(MoveOn(d)).v = Last(d).v /\ Last(MoveOn(d)).at = Last(d).at + 1
  BY <1>1, <1>2, GroundMoves
<1>5. Inside(P, src, MoveOn(d), f, p, live, g)
  BY <1>1, <1>4 DEF Inside
<1>6. Returns(P, src, o, MoveOn(d), f, p, O[Len(p)], live, back, g)
  <2>1. Returns(P, src, o, d, f, p, O[Len(p)], live, back, g)
    BY <1>1 DEF Tale
  <2>2. ASSUME back # 0, NEW k \in 1 .. Last(MoveOn(d)).at
        PROVE  o[Last(d).v][k].call # p[back - 1].call
    <3>1. CASE k \in 1 .. Last(d).at
      BY <2>1, <2>2, <3>1 DEF Returns
    <3>2. CASE k \notin 1 .. Last(d).at
      <4>1. k = Last(d).at + 1
        BY <1>2, <1>4, <2>2, <3>2
      <4>2. o[Last(d).v][k] = e
        BY <4>1 DEF Topmost
      <4>3. Last(d).v = ExitOf(FunAt(P, src, p, back)) /\ Last(f).call = p[back - 1].call
        BY <2>1, <2>2 DEF Returns, Last
      <4>4. e.kind = "return"
        BY <1>3, <4>3, ExitEdges
      <4> QED
        BY <4>2, <4>3, <4>4
    <3> QED
      BY <3>1, <3>2
  <2> QED
    BY <1>4, <2>1, <2>2 DEF Returns
<1>7. back \in Nat /\ live \subseteq Elems(O[Len(p)])
  BY <1>1 DEF Tale
<1>8. \A i \in live : g[i] <= Len(f)
  <2> TAKE i \in live
  <2>1. g[i] \in 1 .. Len(f)
    BY <1>1, LiveFacts DEF Seen
  <2> QED
    BY <1>2, <2>1
<1>9. Tale(P, src, o, MoveOn(d), f, p, O, live, back, g, Ticked(t), x, z)
  <2>1. Len(f) <= Len(f)
    BY <1>2
  <2>2. KeepsOn(o, d, f, p, live, back, g, f, p, O[Len(p)], back)
    BY <1>2, <1>7, <1>8, <2>1 DEF KeepsOn
  <2> HIDE DEF S
  <2> QED
    BY <1>1, <1>6, <2>2, TaleOn DEF S
<1> QED
  BY <1>4, <1>5, <1>9, Zenon DEF Story


(* A return to a vertex the caller has seen already.                       *)
LEMMA StoryReturns ==
  ASSUME NEW P \in Programs, NEW src, NEW o, NEW d, NEW f, NEW p, Story(P, src, o, d, f, p),
         LET S == [d |-> d, f |-> f] IN
           /\ More(o, S) /\ Turn(o, S) = [d |-> MoveOn(d), f |-> Front(f)]
           /\ Topmost(o, S).kind = "return" /\ Topmost(o, S).call = Last(f).call
  PROVE  Story(P, src, o, MoveOn(d), Front(f), p)
<1>1. PICK O, live, back, g, t, x, z :
        /\ Ground(P, src, o, d, f, p, O)
        /\ Tale(P, src, o, d, f, p, O, live, back, g, t, x, z)
        /\ Inside(P, src, d, f, p, live, g)
  BY Zenon DEF Story
<1> DEFINE S == [d |-> d, f |-> f]
           e == Topmost(o, S)
<1>2. Last(d).v \in DOMAIN o /\ d \in Seq(Entry(P)) /\ d # <<>> /\ OrderFits(P, o)
      /\ f \in Seq(Frame(P)) /\ f # <<>> /\ f[1].call = NoCall /\ Len(f) \in Nat
  BY <1>1, TopFacts DEF Ground
<1>3. e \in EdgesOf(P) /\ e.from = Last(d).v
  BY <1>2, TopmostIs
<1>4. /\ back # 0 /\ back = Last(O[Len(p)]) /\ back \notin live /\ Len(f) >= 2
      /\ \A i \in live : g[i] < Len(f)
  BY <1>1, <1>3, OwnReturn
<1>5. /\ Front(f) \in Seq(Frame(P)) /\ Front(f) # <<>> /\ Front(f)[1].call = NoCall
      /\ Len(Front(f)) = Len(f) - 1
      /\ \A k \in 1 .. Len(f) - 1 : Front(f)[k] = f[k]
  BY <1>2, <1>4, FrontFrames
<1>6. Ground(P, src, o, MoveOn(d), Front(f), p, O)
  BY <1>1, <1>5, GroundMoves
<1>7. live \subseteq Elems(O[Len(p)]) /\ 0 \in Nat
  BY <1>1 DEF Tale
<1>8. Len(Front(f)) \in Nat /\ Len(Front(f)) <= Len(f) /\ Len(Front(f)) # Len(f)
  BY <1>2, <1>4, <1>5
<1>9. \A i \in live : g[i] <= Len(Front(f)) /\ g[i] # Len(f)
  <2> TAKE i \in live
  <2>1. g[i] \in 1 .. Len(f) /\ g[i] < Len(f)
    BY <1>1, <1>4, LiveFacts DEF Seen
  <2> QED
    BY <1>2, <1>5, <2>1
<1>10. Returns(P, src, o, MoveOn(d), Front(f), p, O[Len(p)], live, 0, g)
  BY DEF Returns
<1>11. \A j \in 1 .. Len(Front(f)) : Front(f)[j].call = f[j].call
  BY <1>5
<1>12. Tale(P, src, o, MoveOn(d), Front(f), p, O, live, 0, g, Ticked(t), x, z)
  <2>1. KeepsOn(o, d, f, p, live, back, g, Front(f), p, O[Len(p)], 0)
    BY <1>7, <1>8, <1>9, <1>11 DEF KeepsOn
  <2> HIDE DEF S
  <2> QED
    BY <1>1, <1>10, <2>1, TaleOn DEF S
<1>13. Inside(P, src, MoveOn(d), Front(f), p, live, g)
  <2> SUFFICES ASSUME NEW i \in live, Len(Front(f)) = g[i],
                      Last(MoveOn(d)).v = ExitOf(FunAt(P, src, p, i))
               PROVE  FALSE
    BY DEF Inside
  <2>1. i = Last(O[Len(p)])
    BY <1>6, <1>12, InnermostExits
  <2> QED
    BY <1>4, <2>1
<1> QED
  BY <1>6, <1>12, <1>13, Zenon DEF Story

-----------------------------------------------------------------------------
(* A new vertex.                                                           *)

Lawful(p, s, e) ==
  e.kind = "return" => Len(s) # 1 /\ p[Last(s) - 1].call = e.call
FramesFit(P, f) == f \in Seq(Frame(P)) /\ f # <<>> /\ f[1].call = NoCall

Onto(d, e) == Append(MoveOn(d), [v |-> e.to, at |-> 0])

LEMMA GroundEnters ==
  ASSUME NEW P \in Programs, NEW src, NEW o, NEW d, NEW f, NEW p, NEW O,
         Ground(P, src, o, d, f, p, O),
         NEW e \in EdgesOf(P), e.from = Last(d).v,
         Lawful(p, O[Len(p)], e)
  PROVE  /\ OpenPath(P, src, Append(p, e), Reopened(O, p, e))
         /\ Reopened(O, p, e)[Len(Append(p, e))] = NewOpen(O[Len(p)], e, Len(p) + 2)
         /\ Append(p, e) \in Seq(EdgesOf(P)) /\ Len(Append(p, e)) = Len(p) + 1
         /\ Append(p, e)[Len(p) + 1] = e
         /\ \A k \in 1 .. Len(p) : Append(p, e)[k] = p[k]
<1>1. e.from = At(src, p, Len(p)) /\ OpenPath(P, src, p, O) /\ Len(p) \in Nat
  BY TopFacts DEF Ground
<1>2. OpenPath(P, src, Append(p, e), Reopened(O, p, e))
  BY <1>1, PathExtends DEF Lawful
<1>3. p \in Seq(EdgesOf(P))
  BY <1>1 DEF OpenPath
<1>4. Reopened(O, p, e)[Len(p) + 1] = NewOpen(O[Len(p)], e, Len(p) + 2)
  BY <1>1 DEF Reopened
<1> QED
  BY <1>2, <1>3, <1>4, AppendSeq

LEMMA GroundGrows ==
  ASSUME NEW P \in Programs, NEW src, NEW o, NEW d, NEW f, NEW p, NEW O,
         Ground(P, src, o, d, f, p, O),
         NEW e \in EdgesOf(P), e.from = Last(d).v, e.to \in DOMAIN o,
         Lawful(p, O[Len(p)], e), NEW f2, FramesFit(P, f2)
  PROVE  /\ Ground(P, src, o, Onto(d, e), f2, Append(p, e), Reopened(O, p, e))
         /\ Last(Onto(d, e)).v = e.to /\ Last(Onto(d, e)).at = 0
<1> DEFINE d2 == Onto(d, e)
           q == Append(p, e)
           N == Reopened(O, p, e)
<1>1. /\ OpenPath(P, src, q, N) /\ Len(q) = Len(p) + 1 /\ q[Len(p) + 1] = e
      /\ \A k \in 1 .. Len(p) : q[k] = p[k]
  BY GroundEnters
<1>2. d \in Seq(Entry(P)) /\ d # <<>> /\ Len(d) = Len(p) + 1 /\ Len(p) \in Nat
      /\ \A n \in 1 .. Len(d) : d[n].v = At(src, p, n - 1) /\ d[n].v \in DOMAIN o
  BY TopFacts DEF Ground
<1>3. /\ MoveOn(d) \in Seq(Entry(P)) /\ Len(MoveOn(d)) = Len(d)
      /\ \A k \in 1 .. Len(d) : MoveOn(d)[k].v = d[k].v
  BY <1>2, MoveOnIs
<1>4. [v |-> e.to, at |-> 0] \in Entry(P)
  BY EdgeFacts DEF Entry
<1>5. /\ d2 \in Seq(Entry(P)) /\ Len(d2) = Len(d) + 1
      /\ d2[Len(d) + 1] = [v |-> e.to, at |-> 0]
      /\ \A k \in 1 .. Len(d) : d2[k] = MoveOn(d)[k]
  BY <1>3, <1>4, AppendSeq DEF Onto
<1>6. Last(d2) = [v |-> e.to, at |-> 0]
  BY <1>5 DEF Last
<1> HIDE DEF d2, q, N
<1>7. ASSUME NEW n \in 1 .. Len(d2) PROVE d2[n].v = At(src, q, n - 1) /\ d2[n].v \in DOMAIN o
  <2>0. PICK m \in Nat : m = Len(p) /\ Len(d) = m + 1 /\ Len(d2) = m + 2
    BY <1>2, <1>5
  <2>1. CASE n = m + 2
    <3>1. n - 1 = Len(p) + 1 /\ n = Len(d) + 1 /\ n - 1 # 0
      BY <2>0, <2>1
    <3>2. At(src, q, n - 1) = e.to
      BY <1>1, <3>1 DEF At
    <3> QED
      BY <1>5, <3>1, <3>2
  <2>2. CASE n # m + 2
    <3>1. n \in 1 .. m + 1 /\ (n - 1 = 0 \/ n - 1 \in 1 .. m)
      BY <2>0, <2>2
    <3>2. d2[n].v = d[n].v /\ d[n].v = At(src, p, n - 1) /\ d[n].v \in DOMAIN o
      BY <1>2, <1>3, <1>5, <2>0, <3>1
    <3>3. At(src, q, n - 1) = At(src, p, n - 1)
      BY <1>1, <2>0, <3>1 DEF At
    <3> QED
      BY <3>2, <3>3
  <2> QED
    BY <2>1, <2>2
<1>8. Ground(P, src, o, d2, f2, q, N)
  <2>1. OrderFits(P, o) /\ Len(d2) = Len(q) + 1
    BY <1>1, <1>2, <1>5 DEF Ground
  <2> QED
    BY <1>1, <1>5, <1>7, <2>1 DEF Ground, FramesFit
<1> QED
  BY <1>6, <1>8 DEF d2, q, N

LEMMA ActsGrow ==
  ASSUME NEW p, NEW q, Len(p) \in Nat, Len(q) = Len(p) + 1, NEW e, q[Len(p) + 1] = e,
         \A k \in 1 .. Len(p) : q[k] = p[k]
  PROVE  /\ e.kind # "call" => Acts(q) \subseteq Acts(p)
         /\ e.kind = "call" => Acts(q) \subseteq Acts(p) \cup {Len(p) + 2}
<1> SUFFICES ASSUME NEW i \in Acts(q), i \notin Acts(p)
             PROVE  e.kind = "call" /\ i = Len(p) + 2
  OBVIOUS
<1>1. i \in 2 .. Len(q) + 1 /\ q[i - 1].kind = "call" /\ i # 1
  BY DEF Acts
<1>2. i = Len(p) + 2 \/ (i \in 2 .. Len(p) + 1 /\ i - 1 \in 1 .. Len(p))
  BY <1>1
<1>3. i \notin 2 .. Len(p) + 1
  <2> SUFFICES ASSUME i \in 2 .. Len(p) + 1 PROVE FALSE
    OBVIOUS
  <2>1. i - 1 \in 1 .. Len(p)
    OBVIOUS
  <2> QED
    BY <1>1, <2>1 DEF Acts
<1>4. i = Len(p) + 2 /\ i - 1 = Len(p) + 1
  BY <1>2, <1>3
<1> QED
  BY <1>1, <1>4


LEMMA ElemsFront ==
  ASSUME NEW T, NEW s \in Seq(T), s # <<>>
  PROVE  Elems(s) \subseteq Elems(Front(s)) \cup {Last(s)}
<1> SUFFICES ASSUME NEW k \in 1 .. Len(s), s[k] # Last(s)
             PROVE  s[k] \in Elems(Front(s))
  BY DEF Elems
<1>1. PICK n \in Nat : n = Len(s)
  BY LastInSeq
<1>2. k \in 1 .. n - 1
  BY <1>1 DEF Last
<1>3. Len(Front(s)) = n - 1 /\ Front(s)[k] = s[k]
  BY <1>1, <1>2, FrontSeq
<1> QED
  BY <1>2, <1>3 DEF Elems

(* What the frames and what is live are like, past an edge of its own      *)
(* function or a return.                                                   *)
LEMMA SwitchedFacts ==
  ASSUME NEW P \in Programs, NEW src, NEW o, NEW d, NEW f, NEW p, NEW O,
         Ground(P, src, o, d, f, p, O),
         NEW live, NEW back, NEW g, NEW t, NEW x, NEW z,
         Tale(P, src, o, d, f, p, O, live, back, g, t, x, z),
         Inside(P, src, d, f, p, live, g),
         NEW e \in EdgesOf(P), e.from = Last(d).v, e.kind # "call", ~Passes(f, e)
  PROVE  LET h == Switched(f, e) IN
         /\ h \in Seq(Frame(P)) /\ h # <<>> /\ h[1].call = NoCall
         /\ Len(h) \in Nat /\ Len(h) <= Len(f)
         /\ \A i \in live : g[i] <= Len(h)
         /\ \A j \in 1 .. Len(h) : h[j].call = f[j].call
         /\ live \subseteq Elems(NewOpen(O[Len(p)], e, Len(p) + 2))
         /\ back # 0 => Len(h) # Len(f)
         /\ e.kind = "return" => \A i \in live : g[i] # Len(f)
         /\ Lawful(p, O[Len(p)], e)
<1> DEFINE h == Switched(f, e)
           s == O[Len(p)]
<1>1. /\ f \in Seq(Frame(P)) /\ f # <<>> /\ f[1].call = NoCall /\ Len(f) \in Nat
      /\ s \in Seq(1 .. Len(p) + 1) /\ s # <<>>
  BY TopFacts DEF Ground
<1>2. live \subseteq Elems(s)
  BY DEF Tale
<1>3. \A i \in live : g[i] \in 1 .. Len(f)
  BY LiveFacts DEF Seen
<1>4. CASE e.kind = "return"
  <2>1. e.call = Last(f).call
    BY <1>4 DEF Passes
  <2>2. /\ back # 0 /\ back = Last(s) /\ back \notin live /\ Len(f) >= 2
        /\ e.call = p[back - 1].call
        /\ \A i \in live : g[i] < Len(f)
        /\ Len(s) # 1
    BY <1>4, <2>1, OwnReturn
  <2>3. /\ Front(f) \in Seq(Frame(P)) /\ Front(f) # <<>> /\ Front(f)[1].call = NoCall
        /\ Len(Front(f)) = Len(f) - 1
        /\ \A k \in 1 .. Len(f) - 1 : Front(f)[k] = f[k]
    BY <1>1, <2>2, FrontFrames
  <2>4. h = Front(f) /\ NewOpen(s, e, Len(p) + 2) = Front(s)
    BY <1>4 DEF Switched, NewOpen
  <2>5. live \subseteq Elems(Front(s))
    BY <1>1, <1>2, <2>2, ElemsFront
  <2> HIDE DEF h, s
  <2>6. \A i \in live : g[i] <= Len(h) /\ g[i] # Len(f)
    <3> TAKE i \in live
    <3>1. g[i] \in 1 .. Len(f) /\ g[i] < Len(f)
      BY <1>3, <2>2
    <3> QED
      BY <1>1, <2>3, <2>4, <3>1
  <2>7. Len(h) \in Nat /\ Len(h) <= Len(f) /\ Len(h) # Len(f)
    BY <1>1, <2>2, <2>3, <2>4
  <2>8. \A j \in 1 .. Len(h) : h[j].call = f[j].call
    BY <2>3, <2>4
  <2>9. p[Last(s) - 1].call = e.call
    BY <2>2
  <2> QED
    BY <2>2, <2>3, <2>4, <2>5, <2>6, <2>7, <2>8, <2>9 DEF h, s, Lawful
<1>5. CASE e.kind # "return"
  <2>1. h = f /\ NewOpen(s, e, Len(p) + 2) = s
    BY <1>5 DEF Switched, NewOpen
  <2>2. back = 0
    <3> SUFFICES ASSUME back # 0 PROVE FALSE
      OBVIOUS
    <3>1. Last(d).v = ExitOf(FunAt(P, src, p, back))
      BY DEF Tale, Returns
    <3> QED
      BY <1>5, <3>1, ExitEdges
  <2> HIDE DEF h, s
  <2>3. \A i \in live : g[i] <= Len(f)
    BY <1>1, <1>3
  <2> QED
    BY <1>1, <1>2, <1>5, <2>1, <2>2, <2>3 DEF h, s, Lawful
<1> QED
  BY <1>4, <1>5

(* The walk goes over e to a vertex the frame it then has knows nothing of.*)
Enters(o, d, f, e, d2, f2) ==
  LET S == [d |-> d, f |-> f] IN
  /\ More(o, S) /\ Topmost(o, S) = e /\ ~Passes(f, e)
  /\ d2 = Onto(d, e) /\ f2 = Paint(Switched(f, e), e.to, "gray")
  /\ Turn(o, S) = [d |-> d2, f |-> f2]

LEMMA StoryEnters ==
  ASSUME NEW P \in Programs, NEW src, NEW o, NEW d, NEW f, NEW p, Story(P, src, o, d, f, p),
         NEW e, NEW d2, NEW f2,
         Enters(o, d, f, e, d2, f2), e.kind # "call", e.to \in DOMAIN o
  PROVE  Story(P, src, o, d2, f2, Append(p, e))
<1>1. PICK O, live, back, g, t, x, z :
        /\ Ground(P, src, o, d, f, p, O)
        /\ Tale(P, src, o, d, f, p, O, live, back, g, t, x, z)
        /\ Inside(P, src, d, f, p, live, g)
  BY Zenon DEF Story
<1> DEFINE S == [d |-> d, f |-> f]
           h == Switched(f, e)
           q == Append(p, e)
           N == Reopened(O, p, e)
<1>2. Last(d).v \in DOMAIN o /\ d \in Seq(Entry(P)) /\ d # <<>> /\ OrderFits(P, o)
      /\ Len(p) \in Nat
  BY <1>1, TopFacts DEF Ground
<1>3. e \in EdgesOf(P) /\ e.from = Last(d).v /\ e.to \in VerticesOf(P)
  BY <1>2, TopmostIs DEF Enters
<1>4. /\ h \in Seq(Frame(P)) /\ h # <<>> /\ h[1].call = NoCall
      /\ Len(h) \in Nat /\ Len(h) <= Len(f)
      /\ \A i \in live : g[i] <= Len(h)
      /\ \A j \in 1 .. Len(h) : h[j].call = f[j].call
      /\ live \subseteq Elems(NewOpen(O[Len(p)], e, Len(p) + 2))
      /\ back # 0 => Len(h) # Len(f)
      /\ e.kind = "return" => \A i \in live : g[i] # Len(f)
      /\ Lawful(p, O[Len(p)], e)
  <2>1. ~Passes(f, e)
    BY DEF Enters
  <2> QED
    BY <1>1, <1>3, <2>1, SwitchedFacts
<1>5. /\ f2 \in Seq(Frame(P)) /\ f2 # <<>> /\ Len(f2) = Len(h)
      /\ \A k \in 1 .. Len(h) : f2[k].call = h[k].call
  <2>1. "gray" \in Colors
    BY DEF Colors
  <2> HIDE DEF h
  <2>2. Paint(h, e.to, "gray") \in Seq(Frame(P)) /\ Paint(h, e.to, "gray") # <<>>
        /\ Painted(h, e.to, "gray", Paint(h, e.to, "gray"))
    BY <1>3, <1>4, <2>1, PaintIs
  <2> QED
    BY <2>2 DEF h, Painted, Enters
<1> HIDE DEF h
<1>6. f2[1].call = NoCall
  <2>1. 1 \in 1 .. Len(h)
    BY <1>4, LenBounds
  <2> QED
    BY <1>4, <1>5, <2>1
<1>7. Ground(P, src, o, d2, f2, q, N) /\ Last(d2).at = 0
  <2>1. FramesFit(P, f2)
    BY <1>5, <1>6 DEF FramesFit
  <2>2. Lawful(p, O[Len(p)], e)
    BY <1>4
  <2>3. /\ Ground(P, src, o, Onto(d, e), f2, q, N)
        /\ Last(Onto(d, e)).at = 0
    BY <1>1, <1>3, <2>1, <2>2, GroundGrows
  <2> QED
    BY <2>3 DEF Enters
<1>8. /\ N[Len(q)] = NewOpen(O[Len(p)], e, Len(p) + 2) /\ Len(q) = Len(p) + 1
      /\ q[Len(p) + 1] = e /\ \A k \in 1 .. Len(p) : q[k] = p[k]
  BY <1>1, <1>3, <1>4, GroundEnters
<1> HIDE DEF q, N
<1>9. Acts(q) \subseteq Acts(p)
  BY <1>2, <1>8, ActsGrow
<1>10. Returns(P, src, o, d2, f2, q, N[Len(q)], live, 0, g) /\ 0 \in Nat
  BY DEF Returns
<1>11. /\ Len(f2) \in Nat /\ Len(f2) <= Len(f) /\ \A i \in live : g[i] <= Len(f2)
       /\ \A j \in 1 .. Len(f2) : f2[j].call = f[j].call
       /\ back # 0 /\ Len(f2) = Len(f) => 0 = back
       /\ live \subseteq Elems(N[Len(q)])
  BY <1>4, <1>5, <1>8
<1>12. Tale(P, src, o, d2, f2, q, N, live, 0, g, Ticked(t), x, z)
  <2>1. /\ More(o, S) /\ Turn(o, S) = [d |-> d2, f |-> f2]
        /\ \A i \in live : Topmost(o, S).kind = "return" /\ Len(f) = g[i]
             => Topmost(o, S).call # Last(f).call
    BY <1>4 DEF Enters
  <2>2. KeepsOn(o, d, f, p, live, back, g, f2, q, N[Len(q)], 0)
    BY <1>8, <1>9, <1>10, <1>11, <2>1 DEF KeepsOn
  <2> QED
    BY <1>1, <1>10, <2>1, <2>2, TaleOn
<1>13. Story(P, src, o, d2, f2, q)
  BY <1>7, <1>12, Settle
<1> QED
  BY <1>13 DEF q


LEMMA ElemsAppend ==
  ASSUME NEW T, NEW s \in Seq(T), NEW y \in T
  PROVE  Elems(s) \cup {y} \subseteq Elems(Append(s, y))
<1>1. PICK n \in Nat : n = Len(s) /\ Len(Append(s, y)) = n + 1
  BY LenProperties, AppendSeq
<1>2. y \in Elems(Append(s, y))
  <2>1. n + 1 \in 1 .. n + 1 /\ Append(s, y)[n + 1] = y
    BY <1>1, AppendSeq
  <2> QED
    BY <1>1, <2>1 DEF Elems
<1>3. ASSUME NEW k \in 1 .. Len(s) PROVE s[k] \in Elems(Append(s, y))
  <2>1. k \in 1 .. n + 1 /\ Append(s, y)[k] = s[k]
    BY <1>1, AppendSeq
  <2> QED
    BY <1>1, <2>1 DEF Elems
<1> QED
  BY <1>2, <1>3 DEF Elems

Called(d, F)      == Append(d, [v |-> EntryOf(F), at |-> 0])
CalledIn(f, F, c) == Paint(Append(f, NewFrame(c)), EntryOf(F), "gray")
Begun(P, d, f, F, c, d2, f2) ==
  /\ Looks(P, d2, f2, Len(d), Len(f), Start(F))
  /\ f2 \in Seq(Frame(P)) /\ f2 # <<>> /\ Len(f2) = Len(f) + 1 /\ f2[Len(f) + 1].call = c
  /\ \A j \in 1 .. Len(f) : f2[j].call = f[j].call

(* A call begins in a frame of its own what a search of its function does. *)
LEMMA CallLooks ==
  ASSUME NEW P \in Programs, NEW F \in DOMAIN P, NEW c \in CallSites(P),
         NEW d \in Seq(Entry(P)), NEW f \in Seq(Frame(P)), f # <<>>
  PROVE  Begun(P, d, f, F, c, Called(d, F), CalledIn(f, F, c))
<1> DEFINE d2 == Called(d, F)
           f2 == CalledIn(f, F, c)
           v == EntryOf(F)
           x == [v |-> v, at |-> 0]
           h == Append(f, NewFrame(c))
           b == <<NewFrame(NoCall)>>
           b2 == Paint(b, v, "gray")
<1>1. v \in VerticesOf(P) /\ x \in Entry(P) /\ "gray" \in Colors
  BY DEF VerticesOf, Entry, Colors
<1>2. NewFrame(c) \in Frame(P) /\ NewFrame(NoCall) \in Frame(P)
  BY NewFrameIn
<1>3. /\ h \in Seq(Frame(P)) /\ Len(h) = Len(f) + 1 /\ h[Len(f) + 1] = NewFrame(c)
      /\ \A j \in 1 .. Len(f) : h[j] = f[j]
  BY <1>2, AppendSeq
<1>4. Len(f) \in Nat \ {0} /\ Len(d) \in Nat
  BY LastInSeq, LenProperties
<1>5. h # <<>>
  <2>1. Len(h) # 0
    BY <1>3, <1>4
  <2> QED
    BY <2>1, EmptySeq
<1>6. b \in Seq(Frame(P)) /\ b # <<>> /\ Len(b) = 1 /\ b[1] = NewFrame(NoCall)
  BY <1>2
<1> HIDE DEF h, b
<1>7. f2 \in Seq(Frame(P)) /\ f2 # <<>> /\ Painted(h, v, "gray", f2)
  <2>1. f2 = Paint(h, v, "gray")
    BY DEF h, CalledIn
  <2> HIDE DEF f2
  <2> QED
    BY <1>1, <1>3, <1>5, <2>1, PaintIs
<1>8. b2 \in Seq(Frame(P)) /\ b2 # <<>> /\ Painted(b, v, "gray", b2)
  BY <1>1, <1>6, PaintIs
<1>9. Start(F).d = <<x>> /\ Start(F).f = b2
  BY DEF Start, b
<1> HIDE DEF f2
<1>10. Above(d2, <<x>>, Len(d))
  <2>1. Len(d2) = Len(d) + 1 /\ d2[Len(d) + 1] = x
    BY <1>1, AppendSeq DEF Called
  <2>2. Len(<<x>>) = 1 /\ <<x>>[1] = x
    OBVIOUS
  <2> HIDE DEF x
  <2>3. Len(d2) = 1 + Len(d) /\ d2[1 + Len(d)] = x
    BY <1>4, <2>1
  <2> QED
    BY <2>2, <2>3 DEF Above
<1> HIDE DEF b2, x, v, d2
<1>11. Len(f2) = Len(f) + 1 /\ Len(b2) = 1 /\ 1 + Len(f) = Len(f) + 1
  BY <1>3, <1>4, <1>6, <1>7, <1>8 DEF Painted
<1>12. f2[Len(f) + 1].call = c /\ b2[1].call = NoCall
  <2>1. Len(f) + 1 \in 1 .. Len(h) /\ 1 \in 1 .. Len(b)
    BY <1>3, <1>4, <1>6
  <2>2. f2[Len(f) + 1].call = h[Len(f) + 1].call
    BY <1>7, <2>1 DEF Painted
  <2>3. b2[1].call = b[1].call
    BY <1>8, <2>1 DEF Painted
  <2>4. NewFrame(c).call = c /\ NewFrame(NoCall).call = NoCall
    BY DEF NewFrame
  <2> QED
    BY <1>3, <1>6, <2>2, <2>3, <2>4
<1>13. f2[Len(f) + 1].color = b2[1].color
  <2>1. f2[Len(f) + 1].color = Recolored(NewFrame(c).color, v, "gray")
    BY <1>3, <1>7 DEF Painted
  <2>2. b2[1].color = Recolored(NewFrame(NoCall).color, v, "gray")
    BY <1>6, <1>8 DEF Painted
  <2> QED
    BY <2>1, <2>2 DEF NewFrame
<1>14. Like(f2, b2, Len(f))
  BY <1>11, <1>12, <1>13 DEF Like
<1>15. \A j \in 1 .. Len(f) : f2[j].call = f[j].call
  <2> TAKE j \in 1 .. Len(f)
  <2>1. j \in 1 .. Len(h)
    BY <1>3, <1>4
  <2> QED
    BY <1>3, <1>7, <2>1 DEF Painted
<1>16. <<x>> \in Seq(Entry(P)) /\ <<x>> # <<>>
  BY <1>1
<1> QED
  BY <1>7, <1>8, <1>9, <1>10, <1>11, <1>12, <1>14, <1>15, <1>16 DEF Looks, Begun, d2, f2


(* The activation k of a call that has just been gone over joins the ones  *)
(* that are live.                                                          *)
Joins(P, p, f, e, live, g, t, q, f2, g2, t2, k) ==
  /\ Len(p) \in Nat /\ k = Len(p) + 2 /\ Len(f) \in Nat \ {0} /\ Len(f2) = Len(f) + 1
  /\ Len(q) = Len(p) + 1 /\ q[Len(p) + 1] = e /\ \A j \in 1 .. Len(p) : q[j] = p[j]
  /\ e.kind = "call" /\ e.call \in Resolved(P)
  /\ f2[Len(f) + 1].call = e.call /\ \A j \in 1 .. Len(f) : f2[j].call = f[j].call
  /\ g2 \in [Nat -> Nat] /\ t2 \in [Nat -> Nat] /\ g2[k] = Len(f) + 1 /\ t2[k] = 0
  /\ \A i \in live : /\ i \in 1 .. Len(p) + 1 /\ g[i] \in 1 .. Len(f) /\ t[i] \in Nat
                     /\ g2[i] = g[i] /\ t2[i] = t[i] + 1

LEMMA JoinsFramed ==
  ASSUME NEW P, NEW p, NEW f, NEW e, NEW live, NEW g, NEW t, Framed(p, f, live, g, t),
         NEW q, NEW f2, NEW g2, NEW t2, NEW k,
         Joins(P, p, f, e, live, g, t, q, f2, g2, t2, k)
  PROVE  Framed(q, f2, live \cup {k}, g2, t2)
<1>1. PICK m \in Nat : m = Len(p) /\ k = m + 2 /\ q[m + 1] = e
  BY DEF Joins
<1>2. PICK n \in Nat \ {0} : n = Len(f) /\ Len(f2) = n + 1 /\ g2[k] = n + 1 /\ t2[k] = 0
                             /\ f2[n + 1].call = e.call
  BY DEF Joins
<1>3. \A i \in live : /\ i \in 1 .. m + 1 /\ g[i] \in 1 .. n /\ t[i] \in Nat
                      /\ g2[i] = g[i] /\ t2[i] = t[i] + 1
  BY <1>1, <1>2 DEF Joins
<1>4. ASSUME NEW i \in live \cup {k}
      PROVE  /\ g2[i] \in 1 .. Len(f2) /\ (g2[i] = 1 <=> i = 1)
             /\ i # 1 => f2[g2[i]].call = q[i - 1].call
  <2>1. CASE i = k
    <3>1. k # 1 /\ k - 1 = m + 1 /\ n + 1 # 1 /\ n + 1 \in 1 .. n + 1
      BY <1>1, <1>2
    <3> QED
      BY <1>1, <1>2, <2>1, <3>1
  <2>2. CASE i \in live
    <3>1. /\ g[i] \in 1 .. n /\ (g[i] = 1 <=> i = 1) /\ g2[i] = g[i]
          /\ i # 1 => f[g[i]].call = p[i - 1].call
      BY <1>3, <2>2 DEF Framed
    <3>2. g[i] \in 1 .. Len(f2) /\ f2[g[i]].call = f[g[i]].call
      <4>1. \A j \in 1 .. Len(f) : f2[j].call = f[j].call
        BY DEF Joins
      <4>2. g[i] \in 1 .. n + 1
        BY <3>1
      <4> QED
        BY <1>2, <3>1, <4>1, <4>2
    <3>3. i # 1 => q[i - 1] = p[i - 1]
      <4> SUFFICES ASSUME i # 1 PROVE q[i - 1] = p[i - 1]
        OBVIOUS
      <4>1. i - 1 \in 1 .. m
        BY <1>3, <2>2
      <4> QED
        BY <1>1, <4>1 DEF Joins
    <3> QED
      BY <3>1, <3>2, <3>3
  <2> QED
    BY <2>1, <2>2
<1>5. ASSUME NEW i \in live \cup {k}, NEW j \in live \cup {k}, i < j
      PROVE  g2[i] < g2[j] /\ t2[j] < t2[i]
  <2>1. i \in live
    BY <1>1, <1>3, <1>5
  <2>2. CASE j = k
    BY <1>2, <1>3, <2>1, <2>2
  <2>3. CASE j \in live
    <3>1. g[i] < g[j] /\ t[j] < t[i]
      BY <1>5, <2>1, <2>3 DEF Framed
    <3>2. t[i] \in Nat /\ t[j] \in Nat /\ t2[i] = t[i] + 1 /\ t2[j] = t[j] + 1
          /\ g2[i] = g[i] /\ g2[j] = g[j]
      BY <1>3, <2>1, <2>3
    <3> QED
      BY <3>1, <3>2
  <2> QED
    BY <2>2, <2>3
<1> QED
  BY <1>4, <1>5 DEF Framed

LEMMA JoinsEnded ==
  ASSUME NEW P, NEW o, NEW p, NEW f, NEW e, NEW live, NEW g, NEW t, NEW z \in [Nat -> Nat],
         Ended(P, o, f, live, 0, g, t, z),
         NEW q, NEW f2, NEW g2, NEW t2, NEW k,
         Joins(P, p, f, e, live, g, t, q, f2, g2, t2, k)
  PROVE  Ended(P, o, f2, live \cup {k}, 0, g2, t2, z)
<1> SUFFICES ASSUME NEW j \in 2 .. Len(f2)
             PROVE  /\ f2[j].call \in Resolved(P)
                    /\ \/ \E i \in live \cup {k} : g2[i] = j
                       \/ /\ EndAt(o, Callee(P, f2[j].call), z[j])
                          /\ \A i \in live \cup {k} : g2[i] < j => z[j] < t2[i]
  BY DEF Ended
<1>1. PICK n \in Nat \ {0} : n = Len(f) /\ Len(f2) = n + 1 /\ g2[k] = n + 1
                             /\ f2[n + 1].call = e.call /\ e.call \in Resolved(P)
  BY DEF Joins
<1>2. CASE j = n + 1
  BY <1>1, <1>2
<1>3. CASE j # n + 1
  <2>0. j \in 2 .. n + 1
    BY <1>1
  <2>1. j \in 2 .. n /\ j \in 1 .. n /\ j \in Nat /\ z[j] \in Nat /\ ~ (n + 1 < j)
    BY <1>3, <2>0
  <2>2. f2[j].call = f[j].call
    BY <1>1, <2>1 DEF Joins
  <2>3. /\ f[j].call \in Resolved(P)
        /\ \/ \E i \in live : g[i] = j
           \/ /\ EndAt(o, Callee(P, f[j].call), z[j])
              /\ \A i \in live : g[i] < j => z[j] < t[i]
    BY <1>1, <2>1 DEF Ended
  <2>4. \A i \in live : t[i] \in Nat /\ g2[i] = g[i] /\ t2[i] = t[i] + 1
    BY DEF Joins
  <2>5. CASE \E i \in live : g[i] = j
    BY <2>2, <2>3, <2>4, <2>5
  <2>6. CASE \A i \in live : g[i] < j => z[j] < t[i]
    <3>1. ASSUME NEW i \in live \cup {k}, g2[i] < j PROVE z[j] < t2[i]
      <4>1. i \in live
        BY <1>1, <2>1, <3>1
      <4>2. t[i] \in Nat /\ g2[i] = g[i] /\ t2[i] = t[i] + 1
        BY <2>4, <4>1
      <4>3. z[j] < t[i]
        BY <2>6, <3>1, <4>1, <4>2
      <4>4. PICK a \in Nat, b \in Nat : a = t[i] /\ b = z[j]
        BY <2>1, <4>2
      <4>5. b < a + 1
        <5>1. b < a
          BY <4>3, <4>4
        <5> QED
          BY <5>1
      <4> QED
        BY <4>2, <4>4, <4>5
    <3> QED
      BY <2>2, <2>3, <2>5, <3>1
  <2> QED
    BY <2>3, <2>5, <2>6
<1> QED
  BY <1>2, <1>3

LEMMA JoinsLasts ==
  ASSUME NEW P, NEW src, NEW p, NEW f, NEW e, NEW live, NEW g, NEW t \in [Nat -> Nat],
         NEW q, NEW f2, NEW g2, NEW t2, NEW k,
         Joins(P, p, f, e, live, g, t, q, f2, g2, t2, k)
  PROVE  Lasts(P, src, p, live, t, q, live \cup {k}, t2)
<1>1. PICK m \in Nat : m = Len(p) /\ k = m + 2 /\ Len(q) = m + 1
  BY DEF Joins
<1>2. Acts(q) \subseteq Acts(p) \cup {k}
  <2>1. /\ Len(p) \in Nat /\ Len(q) = Len(p) + 1 /\ q[Len(p) + 1] = e
        /\ \A j \in 1 .. Len(p) : q[j] = p[j]
        /\ e.kind = "call" /\ k = Len(p) + 2
    BY DEF Joins
  <2> QED
    BY <2>1, ActsGrow
<1>3. Acts(p) \subseteq 1 .. m + 1 /\ 1 .. m + 1 \subseteq Nat
  <2>1. 2 .. m + 1 \subseteq 1 .. m + 1 /\ 1 \in 1 .. m + 1 /\ 1 .. m + 1 \subseteq Nat
    OBVIOUS
  <2>2. Acts(p) \subseteq {1} \cup 2 .. m + 1
    BY <1>1 DEF Acts
  <2> QED
    BY <2>1, <2>2
<1>4. ASSUME NEW i \in Acts(q) \ (live \cup {k})
      PROVE  FunAt(P, src, q, i) = FunAt(P, src, p, i)
  <2>1. i \in 1 .. m + 1
    BY <1>2, <1>3
  <2>2. CASE i = 1
    BY <2>2 DEF FunAt
  <2>3. CASE i # 1
    <3>1. i - 1 \in 1 .. m
      BY <2>1, <2>3
    <3>2. q[i - 1] = p[i - 1]
      BY <1>1, <3>1 DEF Joins
    <3> QED
      BY <2>3, <3>2 DEF FunAt
  <2> QED
    BY <2>2, <2>3
<1>5. ASSUME NEW i \in Acts(q) \ (live \cup {k}), NEW j \in live \cup {k}, j < i
      PROVE  j \in live /\ j \in Nat /\ t2[j] = t[j] + 1
  <2>1. i \in 1 .. m + 1
    BY <1>2, <1>3
  <2>2. j # k
    BY <1>1, <1>5, <2>1
  <2>3. j \in live
    BY <2>2
  <2>4. j \in 1 .. m + 1 /\ t2[j] = t[j] + 1
    BY <1>1, <2>3 DEF Joins
  <2> QED
    BY <1>3, <2>3, <2>4
<1>6. t2 \in [Nat -> Nat] /\ Acts(p) \subseteq Nat
  <2>1. t2 \in [Nat -> Nat]
    BY DEF Joins
  <2> QED
    BY <1>3, <2>1
<1> QED
  BY <1>2, <1>4, <1>5, <1>6 DEF Lasts

(* A function is called whose ENTRY its new frame knows nothing of.        *)
LEMMA StoryCalls ==
  ASSUME NEW P \in Programs, NEW src, NEW o, NEW d, NEW f, NEW p, Story(P, src, o, d, f, p),
         NEW e, NEW d2, NEW f2,
         Enters(o, d, f, e, d2, f2), e.kind = "call", e.to \in DOMAIN o
  PROVE  Story(P, src, o, d2, f2, Append(p, e))
<1>1. PICK O, live, back, g, t, x, z :
        /\ Ground(P, src, o, d, f, p, O)
        /\ Tale(P, src, o, d, f, p, O, live, back, g, t, x, z)
        /\ Inside(P, src, d, f, p, live, g)
  BY Zenon DEF Story
<1> DEFINE S == [d |-> d, f |-> f]
           q == Append(p, e)
           N == Reopened(O, p, e)
           F == Callee(P, e.call)
           k == Len(p) + 2
           l2 == live \cup {k}
           g2 == [g EXCEPT ![k] = Len(f) + 1]
           t2 == [Ticked(t) EXCEPT ![k] = 0]
<1>2. /\ Last(d).v \in DOMAIN o /\ d \in Seq(Entry(P)) /\ d # <<>> /\ OrderFits(P, o)
      /\ f \in Seq(Frame(P)) /\ f # <<>> /\ f[1].call = NoCall
      /\ Len(p) \in Nat /\ Len(d) = Len(p) + 1 /\ Len(f) \in Nat \ {0}
      /\ O[Len(p)] \in Seq(1 .. Len(p) + 1)
  BY <1>1, TopFacts DEF Ground
<1>3. e \in EdgesOf(P) /\ e.from = Last(d).v
  BY <1>2, TopmostIs DEF Enters
<1>4. e.call \in Resolved(P) /\ e.call \in CallSites(P) /\ F \in DOMAIN P /\ e.to = EntryOf(F)
  <2>1. PICK c \in Resolved(P) : IsCall(P, e, c)
    BY <1>3, LinkForms
  <2>2. e.call = c /\ e.to = EntryOf(Callee(P, c)) /\ c \in CallSites(P)
        /\ Callee(P, c) \in DOMAIN P
    BY <2>1 DEF IsCall, Resolved
  <2> QED
    BY <2>2
<1>5. /\ MoveOn(d) \in Seq(Entry(P)) /\ Len(MoveOn(d)) = Len(p) + 1
  BY <1>2, MoveOnIs
<1>6. /\ d2 = Append(MoveOn(d), [v |-> EntryOf(F), at |-> 0])
      /\ f2 = Paint(Append(f, NewFrame(e.call)), EntryOf(F), "gray")
  BY <1>4 DEF Enters, Onto, Switched
<1>7. /\ Looks(P, d2, f2, Len(p) + 1, Len(f), Start(F))
      /\ f2 \in Seq(Frame(P)) /\ f2 # <<>> /\ Len(f2) = Len(f) + 1
      /\ f2[Len(f) + 1].call = e.call
      /\ \A j \in 1 .. Len(f) : f2[j].call = f[j].call
  <2> HIDE DEF F
  <2>1. PICK c \in CallSites(P) : c = e.call
    BY <1>4
  <2>2. PICK b \in Seq(Entry(P)) : b = MoveOn(d) /\ Len(b) = Len(p) + 1
    BY <1>5
  <2>3. d2 = Called(b, F) /\ f2 = CalledIn(f, F, c)
    BY <1>6, <2>1, <2>2 DEF Called, CalledIn
  <2>4. Begun(P, b, f, F, c, Called(b, F), CalledIn(f, F, c))
    BY <1>2, <1>4, CallLooks
  <2> QED
    BY <2>1, <2>2, <2>3, <2>4 DEF Begun
<1>8. Lawful(p, O[Len(p)], e)
  BY DEF Lawful
<1>9. Ground(P, src, o, d2, f2, q, N) /\ Last(d2).at = 0
  <2>1. 1 \in 1 .. Len(f)
    BY <1>2
  <2>2. FramesFit(P, f2)
    BY <1>2, <1>7, <2>1 DEF FramesFit
  <2>3. /\ Ground(P, src, o, Onto(d, e), f2, q, N)
        /\ Last(Onto(d, e)).at = 0
    BY <1>1, <1>3, <1>8, <2>2, GroundGrows
  <2> QED
    BY <2>3 DEF Enters
<1>10. /\ N[Len(q)] = NewOpen(O[Len(p)], e, k) /\ Len(q) = Len(p) + 1
       /\ q[Len(p) + 1] = e /\ \A j \in 1 .. Len(p) : q[j] = p[j]
  BY <1>1, <1>3, <1>8, GroundEnters
<1>11. back = 0
  <2> SUFFICES ASSUME back # 0 PROVE FALSE
    OBVIOUS
  <2>1. Last(d).v = ExitOf(FunAt(P, src, p, back))
    BY <1>1 DEF Tale, Returns
  <2> QED
    BY <1>3, <2>1, ExitEdges
<1>12. /\ live \subseteq Elems(O[Len(p)]) /\ g \in [Nat -> Nat] /\ t \in [Nat -> Nat]
       /\ x \in [Nat -> Nat] /\ z \in [Nat -> Nat]
       /\ Framed(p, f, live, g, t) /\ Exited(P, src, o, p, live, t, x)
       /\ Ended(P, o, f, live, 0, g, t, z)
  BY <1>1, <1>11 DEF Tale
<1>13. /\ k \in Nat /\ g2 \in [Nat -> Nat] /\ t2 \in [Nat -> Nat]
       /\ g2[k] = Len(f) + 1 /\ t2[k] = 0
       /\ \A i \in Nat : i # k => g2[i] = g[i] /\ t2[i] = Ticked(t)[i] /\ t2[i] = t[i] + 1
  <2>1. k \in Nat /\ Len(f) + 1 \in Nat
    BY <1>2
  <2> HIDE DEF k
  <2>2. Ticked(t) \in [Nat -> Nat] /\ \A i \in Nat : Ticked(t)[i] = t[i] + 1
    BY <1>12, TickedIs
  <2> QED
    BY <1>12, <2>1, <2>2
<1> HIDE DEF q, N, k, g2, t2, F, S
<1>14. \A i \in live : /\ i \in 1 .. Len(p) + 1 /\ g[i] \in 1 .. Len(f) /\ t[i] \in Nat
                        /\ i \in Nat /\ i # k
  <2> TAKE i \in live
  <2>1. i \in 1 .. Len(p) + 1 /\ g[i] \in 1 .. Len(f) /\ t[i] \in Nat
    BY <1>1, LiveFacts DEF Seen
  <2> QED
    BY <1>2, <2>1 DEF k
<1>15. Joins(P, p, f, e, live, g, t, q, f2, g2, t2, k)
  BY <1>2, <1>4, <1>7, <1>10, <1>13, <1>14 DEF Joins, k
<1>16. Framed(q, f2, l2, g2, t2)
  BY <1>12, <1>15, JoinsFramed
<1>17. Ended(P, o, f2, l2, 0, g2, t2, z)
  BY <1>12, <1>15, JoinsEnded
<1>18. Exited(P, src, o, q, l2, t2, x)
  <2>1. Lasts(P, src, p, live, t, q, l2, t2)
    BY <1>12, <1>15, JoinsLasts
  <2> QED
    BY <1>12, <2>1, ExitedOn
<1>19. Evolves(P, src, o, d2, f2, q, live, g, Ticked(t))
  <2>1. \A i \in live : i # 1 => q[i - 1] = p[i - 1]
    <3> TAKE i \in live
    <3> HAVE i # 1
    <3>1. i - 1 \in 1 .. Len(p)
      BY <1>2, <1>14
    <3> QED
      BY <1>10, <3>1
  <2>2. /\ More(o, S) /\ Topmost(o, S).kind # "return" /\ Turn(o, S) = [d |-> d2, f |-> f2]
    BY DEF Enters, S
  <2>3. \A i \in live :
           /\ More(o, S) /\ Topmost(o, S).kind = "return" /\ Len(f) = g[i]
                => Topmost(o, S).call # Last(f).call
           /\ ~More(o, S) => Len(d) > i
    BY <2>2
  <2> QED
    BY <1>1, <2>1, <2>2, <2>3, EvolvesOn DEF S
<1>20. Evolves(P, src, o, d2, f2, q, l2, g2, t2)
  <2> SUFFICES ASSUME NEW i \in l2
               PROVE  \E s : /\ Going(o, FunAt(P, src, q, i), t2[i], s)
                             /\ Looks(P, d2, f2, i - 1, g2[i] - 1, s)
    BY DEF Evolves
  <2>1. CASE i \in live
    <3>1. g2[i] = g[i] /\ t2[i] = Ticked(t)[i]
      BY <1>13, <1>14, <2>1
    <3> QED
      BY <1>19, <2>1, <3>1 DEF Evolves
  <2>2. CASE i = k
    <3>1. i - 1 = Len(p) + 1 /\ i # 1 /\ g2[i] - 1 = Len(f) /\ t2[i] = 0
      <4>1. PICK m \in Nat, n \in Nat : m = Len(p) /\ n = Len(f)
        BY <1>2
      <4>2. i = m + 2 /\ g2[i] = n + 1 /\ t2[i] = 0
        BY <1>13, <2>2, <4>1 DEF k
      <4> QED
        BY <4>1, <4>2
    <3>2. FunAt(P, src, q, i) = F
      BY <1>10, <3>1 DEF FunAt, F
    <3>3. Going(o, F, 0, Start(F))
      BY GoingBegins
    <3> QED
      BY <1>7, <3>1, <3>2, <3>3
  <2> QED
    BY <2>1, <2>2
<1>21. l2 \subseteq Elems(N[Len(q)])
  <2>1. N[Len(q)] = Append(O[Len(p)], k)
    BY <1>10 DEF NewOpen
  <2>2. O[Len(p)] \in Seq(Nat)
    BY <1>2
  <2>3. Elems(O[Len(p)]) \cup {k} \subseteq Elems(Append(O[Len(p)], k))
    BY <1>13, <2>2, ElemsAppend
  <2> QED
    BY <1>12, <2>1, <2>3
<1>22. Returns(P, src, o, d2, f2, q, N[Len(q)], l2, 0, g2)
  BY DEF Returns
<1>23. Tale(P, src, o, d2, f2, q, N, l2, 0, g2, t2, x, z)
  BY <1>12, <1>13, <1>16, <1>17, <1>18, <1>20, <1>21, <1>22 DEF Tale
<1> HIDE DEF l2
<1>24. Story(P, src, o, d2, f2, q)
  BY <1>9, <1>23, Settle
<1> QED
  BY <1>24 DEF q


(* Once EXIT has no more edges, the return looked for has been found.      *)
LEMMA ReturnFound ==
  ASSUME NEW P \in Programs, NEW src, NEW o, NEW d, NEW f, NEW p, NEW O,
         Ground(P, src, o, d, f, p, O),
         NEW live, NEW back, NEW g, NEW t, NEW x, NEW z,
         Tale(P, src, o, d, f, p, O, live, back, g, t, x, z),
         ~ More(o, [d |-> d, f |-> f])
  PROVE  back = 0
<1> SUFFICES ASSUME back # 0 PROVE FALSE
  OBVIOUS
<1> DEFINE s == O[Len(p)]
           c == p[back - 1].call
           v == Last(d).v
<1>1. /\ back = Last(s) /\ back > 1
      /\ v = ExitOf(FunAt(P, src, p, back))
      /\ \A k \in 1 .. Last(d).at : o[v][k].call # c
  BY DEF Tale, Returns
<1>2. /\ v \in DOMAIN o /\ Last(d).at \in Nat /\ Len(p) \in Nat /\ s # <<>> /\ s[1] = 1
      /\ s \in Seq(1 .. Len(p) + 1)
      /\ OrderFits(P, o)
  BY TopFacts DEF Ground
<1>3. StackAt(P, src, p, s, Len(p))
  <2>1. Len(p) \in 0 .. Len(p)
    BY <1>2
  <2> QED
    BY <2>1 DEF Ground, OpenPath
<1>4. c \in Resolved(P)
  <2>1. Len(s) \in 2 .. Len(s)
    <3>1. Len(s) # 1
      BY <1>1, <1>2 DEF Last
    <3> QED
      BY <1>2, <3>1, LenBounds
  <2>2. p[s[Len(s)] - 1].call \in Resolved(P)
    BY <1>3, <2>1 DEF StackAt
  <2> QED
    BY <1>1, <2>2 DEF Last
<1>5. v = ExitOf(Callee(P, c))
  BY <1>1 DEF FunAt
<1> HIDE DEF c, s, v
<1>6. PICK e \in EdgesOf(P) : e.from = v /\ e.call = c
  <2> DEFINE r == [from |-> ExitOf(Callee(P, c)), to |-> ReturnPoint(P, c),
                   kind |-> "return", call |-> c]
  <2>1. r \in EdgesOf(P)
    BY <1>4 DEF EdgesOf, LinkEdges
  <2> QED
    BY <1>5, <2>1
<1>7. o[v] \in Orderings(OutEdges(EdgesOf(P), v))
  BY <1>2 DEF OrderFits
<1>8. PICK k \in 1 .. Len(o[v]) : o[v][k] = e
  BY <1>6, <1>7, OrderCovers
<1>9. k \in 1 .. Last(d).at
  <2>1. o[v] \in Seq(EdgesOf(P))
    BY <1>7, OrderingFacts
  <2>2. Len(o[v]) \in Nat
    BY <2>1, LenProperties
  <2>3. ~ (Last(d).at < Len(o[v]))
    BY DEF More, v
  <2> QED
    BY <1>2, <1>8, <2>2, <2>3
<1> QED
  BY <1>1, <1>6, <1>8, <1>9

(* A vertex is left: the last edge is taken off the path, and if it was a  *)
(* call, its activation m has come to its end.                             *)
Quits(p, f, live, g, t, q, f2, m) ==
  /\ Len(p) \in Nat \ {0} /\ m = Len(p) + 1
  /\ Len(q) = Len(p) - 1 /\ \A j \in 1 .. Len(p) - 1 : q[j] = p[j]
  /\ Len(f) \in Nat /\ Len(f2) = Len(f) /\ \A j \in 1 .. Len(f) : f2[j].call = f[j].call
  /\ \A i \in live : i \in 1 .. m /\ g[i] \in 1 .. Len(f) /\ t[i] \in Nat

LEMMA QuitsBounds ==
  ASSUME NEW p, NEW f, NEW live, NEW g, NEW t, NEW q, NEW f2, NEW m,
         Quits(p, f, live, g, t, q, f2, m)
  PROVE  /\ live \subseteq Nat /\ m \in Nat
         /\ \A i \in live \ {m} : i < m /\ (i # 1 => i - 1 \in 1 .. Len(p) - 1)
<1>1. PICK n \in Nat \ {0} : n = Len(p) /\ m = n + 1
  BY DEF Quits
<1>2. \A i \in live : i \in 1 .. n + 1
  BY <1>1 DEF Quits
<1> QED
  BY <1>1, <1>2

LEMMA QuitsStands ==
  ASSUME NEW p, NEW f, NEW live, NEW g, NEW t, NEW q, NEW f2, NEW m,
         Quits(p, f, live, g, t, q, f2, m)
  PROVE  Stands(p, f, live, q, f2, live \ {m}, g)
<1> SUFFICES ASSUME NEW i \in live \ {m}
             PROVE  /\ g[i] \in 1 .. Len(f2) /\ f2[g[i]].call = f[g[i]].call
                    /\ i # 1 => q[i - 1] = p[i - 1]
  BY QuitsBounds DEF Stands
<1>1. i # 1 => i - 1 \in 1 .. Len(p) - 1
  BY QuitsBounds
<1> QED
  BY <1>1 DEF Quits

LEMMA QuitsLasts ==
  ASSUME NEW P, NEW src, NEW p, NEW f, NEW live, NEW g, NEW t \in [Nat -> Nat], NEW q, NEW f2, NEW m,
         Quits(p, f, live, g, t, q, f2, m)
  PROVE  Lasts(P, src, p, live, t, q, live \ {m}, Ticked(t))
<1>1. PICK n \in Nat \ {0} : n = Len(p) /\ m = n + 1 /\ Len(q) = n - 1
  BY DEF Quits
<1>2. \A j \in 1 .. n - 1 : q[j] = p[j]
  BY <1>1 DEF Quits
<1>3. ASSUME NEW i \in Acts(q)
      PROVE  i \in Acts(p) /\ i \in Nat /\ i # m /\ (i # 1 => i - 1 \in 1 .. n - 1)
  <2>1. i = 1 \/ (i \in 2 .. n /\ q[i - 1].kind = "call")
    BY <1>1 DEF Acts
  <2>2. CASE i = 1
    BY <1>1, <2>2 DEF Acts
  <2>3. CASE i \in 2 .. n /\ q[i - 1].kind = "call"
    <3>1. i - 1 \in 1 .. n - 1 /\ i \in 2 .. n + 1 /\ i # n + 1 /\ i \in Nat
      BY <2>3
    <3>2. p[i - 1].kind = "call"
      BY <1>2, <2>3, <3>1
    <3> QED
      BY <1>1, <3>1, <3>2 DEF Acts
  <2> QED
    BY <2>1, <2>2, <2>3
<1>4. \A i \in Acts(q) : FunAt(P, src, q, i) = FunAt(P, src, p, i)
  BY <1>2, <1>3 DEF FunAt
<1>5. Ticked(t) \in [Nat -> Nat] /\ \A k \in live \ {m} : k \in Nat /\ Ticked(t)[k] = t[k] + 1
  BY QuitsBounds, TickedIs
<1>6. Acts(p) \subseteq Nat
  <2>1. 2 .. n + 1 \subseteq Nat
    OBVIOUS
  <2>2. Acts(p) \subseteq {1} \cup 2 .. n + 1
    BY <1>1 DEF Acts
  <2> QED
    BY <2>1, <2>2
<1>7. Acts(q) \ (live \ {m}) \subseteq Acts(p) \ live
  BY <1>3
<1> QED
  BY <1>4, <1>5, <1>6, <1>7 DEF Lasts


Freed(o, P, p, live, g, t, m, z, z2) ==
  /\ m \in live => /\ EndAt(o, Callee(P, p[m - 1].call), t[m])
                    /\ z2 = [z EXCEPT ![g[m]] = t[m]]
  /\ m \notin live => z2 = z

LEMMA QuitsEnded ==
  ASSUME NEW P, NEW src, NEW o, NEW d, NEW p, NEW f, NEW O, Ground(P, src, o, d, f, p, O),
         NEW live, NEW g, NEW t, NEW x, NEW z,
         Tale(P, src, o, d, f, p, O, live, 0, g, t, x, z),
         NEW q, NEW f2, NEW m, Quits(p, f, live, g, t, q, f2, m),
         NEW z2, Freed(o, P, p, live, g, t, m, z, z2)
  PROVE  Ended(P, o, f2, live \ {m}, 0, g, Ticked(t), z2) /\ z2 \in [Nat -> Nat]
<1>1. /\ g \in [Nat -> Nat] /\ t \in [Nat -> Nat] /\ z \in [Nat -> Nat]
      /\ Framed(p, f, live, g, t)
  BY DEF Tale
<1>2. /\ Len(p) \in Nat \ {0} /\ m = Len(p) + 1 /\ Len(f) \in Nat /\ Len(f2) = Len(f)
      /\ \A j \in 1 .. Len(f) : f2[j].call = f[j].call
      /\ \A i \in live : g[i] \in 1 .. Len(f) /\ t[i] \in Nat
  BY DEF Quits
<1>3. live \subseteq Nat /\ m \in Nat /\ \A i \in live \ {m} : i < m
  BY QuitsBounds
<1>4. \A i \in live : Ticked(t)[i] = t[i] + 1
  BY <1>1, <1>3, TickedIs
<1>5. z2 \in [Nat -> Nat]
  BY <1>1, <1>2 DEF Freed
<1>6. Ended(P, o, f2, live, 0, g, Ticked(t), z)
  BY <1>2, EndedOn
<1>7. CASE m \notin live
  <2>1. live \ {m} = live
    BY <1>7
  <2> QED
    BY <1>5, <1>6, <1>7, <2>1 DEF Freed
<1>8. CASE m \in live
  <2> DEFINE l2 == live \ {m}
  <2>1. \A i \in l2 : g[i] < g[m] /\ t[m] < t[i] /\ g[i] # g[m]
    <3> TAKE i \in l2
    <3>1. g[i] < g[m] /\ t[m] < t[i]
      BY <1>1, <1>3, <1>8 DEF Framed
    <3>2. g[i] \in 1 .. Len(f) /\ g[m] \in 1 .. Len(f)
      BY <1>2, <1>8
    <3> QED
      BY <1>2, <3>1, <3>2
  <2>2. m # 1 /\ f[g[m]].call = p[m - 1].call /\ g[m] \in 1 .. Len(f) /\ t[m] \in Nat
    <3>1. m # 1
      <4>1. PICK n \in Nat \ {0} : n = Len(p)
        BY <1>2
      <4> QED
        BY <1>2, <4>1
    <3>2. f[g[m]].call = p[m - 1].call
      BY <1>1, <1>8, <3>1 DEF Framed
    <3> QED
      BY <1>2, <1>8, <3>1, <3>2
  <2>3. EndAt(o, Callee(P, p[m - 1].call), t[m]) /\ z2 = [z EXCEPT ![g[m]] = t[m]]
    BY <1>8 DEF Freed
  <2>4. z2[g[m]] = t[m] /\ \A j \in Nat : j # g[m] => z2[j] = z[j]
    BY <1>1, <1>2, <1>8, <2>3
  <2> SUFFICES ASSUME NEW j \in 2 .. Len(f2)
               PROVE  /\ f2[j].call \in Resolved(P)
                      /\ \/ \E i \in l2 : g[i] = j
                         \/ /\ EndAt(o, Callee(P, f2[j].call), z2[j])
                            /\ \A i \in l2 : g[i] < j => z2[j] < Ticked(t)[i]
    BY <1>5 DEF Ended
  <2>5. /\ f2[j].call \in Resolved(P)
        /\ \/ \E i \in live : g[i] = j
           \/ /\ EndAt(o, Callee(P, f2[j].call), z[j])
              /\ \A i \in live : g[i] < j => z[j] < Ticked(t)[i]
    BY <1>6 DEF Ended
  <2>6. CASE j = g[m]
    <3>1. f2[j].call = p[m - 1].call
      BY <1>2, <2>2, <2>6
    <3>2. \A i \in l2 : t[m] < Ticked(t)[i]
      <4> TAKE i \in l2
      <4>1. t[m] < t[i] /\ t[i] \in Nat /\ Ticked(t)[i] = t[i] + 1
        BY <1>2, <1>4, <2>1
      <4>2. PICK a \in Nat, b \in Nat : a = t[m] /\ b = t[i] /\ a < b + 1
        BY <2>2, <4>1
      <4> QED
        BY <4>1, <4>2
    <3> QED
      BY <2>3, <2>4, <2>5, <2>6, <3>1, <3>2
  <2>7. CASE j # g[m]
    <3>1. j \in Nat
      BY <1>2
    <3>2. z2[j] = z[j]
      BY <2>4, <2>7, <3>1
    <3> QED
      BY <2>5, <2>7, <3>2
  <2> QED
    BY <2>6, <2>7
<1> QED
  BY <1>7, <1>8

(* What was live and is not the last edge's is open on the shorter path.   *)
LEMMA QuitsOpen ==
  ASSUME NEW P, NEW src, NEW p, p # <<>>, NEW O, OpenPath(P, src, p, O),
         NEW live, live \subseteq Elems(O[Len(p)])
  PROVE  /\ live \ {Len(p) + 1} \subseteq Elems(O[Len(p) - 1])
         /\ p[Len(p)].kind = "return" => Last(O[Len(p) - 1]) \notin live
<1>1. PICK n \in Nat \ {0} : n = Len(p)
  BY LastInSeq DEF OpenPath
<1>2. n \in 1 .. Len(p) /\ n - 1 \in 0 .. Len(p) /\ n - 1 \in Nat /\ (n - 1) + 1 = n
  BY <1>1
<1> DEFINE s == O[n - 1]
<1>3. OpenStep(p, O, n) /\ StackAt(P, src, p, s, n - 1)
  BY <1>2 DEF OpenPath
<1>4. s \in Seq(1 .. n) /\ s # <<>> /\ \A j, k \in 1 .. Len(s) : j < k => s[j] < s[k]
  BY <1>2, <1>3 DEF StackAt
<1> HIDE DEF s
<1>5. CASE p[n].kind = "call"
  <2>1. O[n] = Append(s, n + 1)
    BY <1>3, <1>5 DEF OpenStep, s
  <2>2. Elems(Append(s, n + 1)) \subseteq Elems(s) \cup {n + 1}
    <3>1. s \in Seq(Nat) /\ n + 1 \in Nat
      BY <1>4
    <3>2. PICK m \in Nat : m = Len(s) /\ Len(Append(s, n + 1)) = m + 1
      BY <3>1, LenProperties, AppendSeq
    <3>3. ASSUME NEW k \in 1 .. m + 1 PROVE Append(s, n + 1)[k] \in Elems(s) \cup {n + 1}
      <4>1. k = m + 1 \/ k \in 1 .. m
        OBVIOUS
      <4>2. CASE k = m + 1
        BY <3>1, <3>2, <4>2, AppendSeq
      <4>3. CASE k \in 1 .. m
        BY <3>1, <3>2, <4>3, AppendSeq DEF Elems
      <4> QED
        BY <4>1, <4>2, <4>3
    <3> QED
      BY <3>2, <3>3 DEF Elems
  <2> QED
    BY <1>1, <1>5, <2>1, <2>2 DEF s
<1>6. CASE p[n].kind = "return"
  <2>1. O[n] = Front(s) /\ Len(s) # 1
    BY <1>3, <1>6 DEF OpenStep, s
  <2>2. PICK m \in Nat \ {0} : m = Len(s)
    BY <1>4, LastInSeq
  <2>3. Len(Front(s)) = m - 1 /\ \A k \in 1 .. m - 1 : Front(s)[k] = s[k]
    BY <1>4, <2>2, FrontSeq
  <2>4. ASSUME NEW k \in 1 .. m - 1
        PROVE  Front(s)[k] \in Elems(s) /\ Front(s)[k] # Last(s)
    <3>1. k \in 1 .. m /\ m \in 1 .. m /\ k < m
      BY <2>2
    <3>2. s[k] < s[m] /\ s[k] \in Nat /\ s[m] \in Nat
      <4>1. s[k] < s[m]
        BY <1>4, <2>2, <3>1
      <4>2. s[k] \in 1 .. n /\ s[m] \in 1 .. n
        BY <1>4, <2>2, <3>1, ElementOfSeq
      <4> QED
        BY <4>1, <4>2
    <3>3. s[k] # s[m]
      BY <3>2
    <3> QED
      BY <2>2, <2>3, <3>1, <3>3 DEF Elems, Last
  <2>5. Elems(Front(s)) \subseteq Elems(s) /\ Last(s) \notin Elems(Front(s))
    BY <2>3, <2>4 DEF Elems
  <2> QED
    BY <1>1, <2>1, <2>5 DEF s
<1>7. CASE p[n].kind \notin {"call", "return"}
  <2>1. O[n] = s
    BY <1>3, <1>7 DEF OpenStep, s
  <2> QED
    BY <1>1, <1>7, <2>1 DEF s
<1> QED
  BY <1>5, <1>6, <1>7

(* A function whose ENTRY is left has been searched to its end.            *)
LEMMA CalleeEnds ==
  ASSUME NEW P, NEW src, NEW o, NEW d, NEW p, NEW f, NEW O, Ground(P, src, o, d, f, p, O),
         NEW live, NEW back, NEW g, NEW t, NEW x, NEW z,
         Tale(P, src, o, d, f, p, O, live, back, g, t, x, z),
         Inside(P, src, d, f, p, live, g),
         ~ More(o, [d |-> d, f |-> f]), Len(p) + 1 \in live, p # <<>>
  PROVE  EndAt(o, Callee(P, p[Len(p)].call), t[Len(p) + 1])
<1>1. PICK n \in Nat \ {0} : n = Len(p)
  BY LastInSeq DEF Ground, OpenPath
<1> DEFINE m == Len(p) + 1
           F == FunAt(P, src, p, m)
<1>2. m = n + 1 /\ m \in live /\ m - 1 = n /\ m # 1 /\ Len(d) = n + 1
  BY <1>1 DEF Ground
<1>3. F = Callee(P, p[Len(p)].call)
  BY <1>1, <1>2 DEF FunAt
<1> HIDE DEF m
<1>4. PICK s : Seen(P, src, o, d, f, p, s, m, g, t)
  BY <1>2, LiveFacts
<1>5. /\ Going(o, F, t[m], s) /\ Looks(P, d, f, m - 1, g[m] - 1, s) /\ s.d # <<>>
      /\ Last(s.d) = Last(d) /\ Len(d) = Len(s.d) + (m - 1) /\ Len(s.d) \in Nat \ {0}
      /\ AtExit(F, s) <=> Len(f) = g[m] /\ Last(d).v = ExitOf(F)
  BY <1>4 DEF Seen
<1>6. ~ AtExit(F, s)
  BY <1>2, <1>5 DEF Inside
<1>7. Goes(o, F, s)
  <2>1. Last(d).v \in DOMAIN o
    BY TopFacts
  <2> QED
    BY <1>5, <1>6, <2>1 DEF Goes
<1>8. Turn(o, s).d = <<>>
  <2>1. ~ More(o, s)
    BY <1>5 DEF More
  <2>2. Turn(o, s).d = Front(s.d)
    BY <2>1 DEF Turn, Left
  <2>3. s.d \in Seq(Entry(P))
    BY <1>5 DEF Looks
  <2>4. Len(s.d) = 1
    <3>1. PICK k \in Nat : k = Len(s.d) /\ n + 1 = k + n
      BY <1>2, <1>5
    <3>2. \A a, b \in Nat : a + 1 = b + a => b = 1
      OBVIOUS
    <3>3. n \in Nat
      BY <1>1
    <3>4. k = 1
      BY <3>1, <3>2, <3>3
    <3> QED
      BY <3>1, <3>4
  <2>5. Front(s.d) \in Seq(Entry(P)) /\ Len(Front(s.d)) = 0
    BY <1>5, <2>3, <2>4, FrontSeq
  <2> QED
    BY <2>2, <2>5, EmptySeq
<1> QED
  BY <1>3, <1>5, <1>7, <1>8 DEF EndAt, m

(* The vertex being worked on has no more edges.                           *)
LEMMA GroundShrinks ==
  ASSUME NEW P, NEW src, NEW o, NEW d, NEW p, NEW f, NEW O, Ground(P, src, o, d, f, p, O),
         p # <<>>, NEW f2, FramesFit(P, f2)
  PROVE  /\ Ground(P, src, o, Front(d), f2, Front(p), O)
         /\ Last(Front(d)).v = p[Len(p)].from
         /\ Len(Front(p)) = Len(p) - 1 /\ \A j \in 1 .. Len(p) - 1 : Front(p)[j] = p[j]
<1>1. OpenPath(P, src, p, O) /\ p \in Seq(EdgesOf(P)) /\ d \in Seq(Entry(P)) /\ OrderFits(P, o)
  BY DEF Ground, OpenPath
<1>2. PICK n \in Nat \ {0} : n = Len(p) /\ Len(d) = n + 1
  BY <1>1, LastInSeq DEF Ground
<1>3. Len(Front(p)) = n - 1 /\ \A j \in 1 .. n - 1 : Front(p)[j] = p[j]
  BY <1>1, <1>2, FrontSeq
<1>4. Front(d) \in Seq(Entry(P)) /\ Len(Front(d)) = n /\ \A j \in 1 .. n : Front(d)[j] = d[j]
  <2>1. d # <<>> /\ n + 1 - 1 = n
    BY <1>1, <1>2, TopFacts
  <2> QED
    BY <1>1, <1>2, <2>1, FrontSeq
<1>5. OpenPath(P, src, Front(p), O)
  BY <1>1, PathShortens
<1>6. ASSUME NEW k \in 1 .. n
      PROVE  Front(d)[k].v = At(src, Front(p), k - 1) /\ Front(d)[k].v \in DOMAIN o
  <2>1. k \in 1 .. n + 1 /\ (k - 1 = 0 \/ k - 1 \in 1 .. n - 1)
    OBVIOUS
  <2>2. d[k].v = At(src, p, k - 1) /\ d[k].v \in DOMAIN o
    BY <1>2, <2>1 DEF Ground
  <2> QED
    BY <1>3, <1>4, <2>1, <2>2 DEF At
<1>7. Ground(P, src, o, Front(d), f2, Front(p), O)
  <2>1. Len(Front(d)) = Len(Front(p)) + 1
    BY <1>3, <1>4
  <2> QED
    BY <1>1, <1>4, <1>5, <1>6, <2>1 DEF Ground, FramesFit
<1>8. Last(Front(d)).v = p[Len(p)].from
  <2>1. n \in 1 .. Len(p) /\ n \in 1 .. Len(d)
    BY <1>2
  <2>2. p[n].from = At(src, p, n - 1) /\ d[n].v = At(src, p, n - 1)
    BY <1>1, <2>1 DEF OpenPath, Ground
  <2>3. Last(Front(d)) = d[n]
    BY <1>4, <2>1 DEF Last
  <2> QED
    BY <1>2, <2>2, <2>3
<1> QED
  BY <1>2, <1>3, <1>7, <1>8

LEMMA StoryFinish ==
  ASSUME NEW P \in Programs, NEW src, NEW o, NEW d, NEW f, NEW p, Story(P, src, o, d, f, p),
         ~ More(o, [d |-> d, f |-> f]), p # <<>>
  PROVE  Story(P, src, o, Front(d), Paint(f, Last(d).v, "black"), Front(p))
<1>1. PICK O, live, back, g, t, x, z :
        /\ Ground(P, src, o, d, f, p, O)
        /\ Tale(P, src, o, d, f, p, O, live, back, g, t, x, z)
        /\ Inside(P, src, d, f, p, live, g)
  BY Zenon DEF Story
<1> DEFINE S == [d |-> d, f |-> f]
           d2 == Front(d)
           f2 == Paint(f, Last(d).v, "black")
           q == Front(p)
           m == Len(p) + 1
           l2 == live \ {m}
           z2 == IF m \in live THEN [z EXCEPT ![g[m]] = t[m]] ELSE z
<1>2. back = 0
  BY <1>1, ReturnFound
<1>3. Tale(P, src, o, d, f, p, O, live, 0, g, t, x, z)
  BY <1>1, <1>2
<1>4. /\ g \in [Nat -> Nat] /\ t \in [Nat -> Nat] /\ x \in [Nat -> Nat]
      /\ Framed(p, f, live, g, t) /\ Exited(P, src, o, p, live, t, x)
      /\ live \subseteq Elems(O[Len(p)])
  BY <1>3 DEF Tale
<1>5. /\ f \in Seq(Frame(P)) /\ f # <<>> /\ f[1].call = NoCall /\ Len(f) \in Nat \ {0}
      /\ Last(d).v \in VerticesOf(P) /\ Len(p) \in Nat \ {0} /\ Len(d) = m
      /\ OpenPath(P, src, p, O)
  <2>1. Last(d).v \in DOMAIN o /\ Len(f) \in Nat \ {0}
    BY <1>1, TopFacts
  <2>2. Last(d).v \in VerticesOf(P)
    BY <1>1, <2>1 DEF Ground, OrderFits
  <2>3. Len(p) \in Nat \ {0}
    BY <1>1, LastInSeq DEF Ground, OpenPath
  <2> QED
    BY <1>1, <2>1, <2>2, <2>3 DEF Ground
<1>6. /\ f2 \in Seq(Frame(P)) /\ f2 # <<>> /\ Len(f2) = Len(f)
      /\ \A j \in 1 .. Len(f) : f2[j].call = f[j].call
  <2>1. "black" \in Colors
    BY DEF Colors
  <2>2. f2 \in Seq(Frame(P)) /\ f2 # <<>> /\ Painted(f, Last(d).v, "black", f2)
    BY <1>5, <2>1, PaintIs
  <2> QED
    BY <2>2 DEF Painted
<1>7. Turn(o, S) = [d |-> d2, f |-> f2] /\ ~ More(o, S)
  BY DEF Turn, Left
<1> HIDE DEF S, f2
<1>8. FramesFit(P, f2)
  <2>1. 1 \in 1 .. Len(f)
    BY <1>5
  <2> QED
    BY <1>5, <1>6, <2>1 DEF FramesFit
<1>9. /\ Ground(P, src, o, d2, f2, q, O)
      /\ Last(d2).v = p[Len(p)].from
      /\ Len(q) = Len(p) - 1 /\ \A j \in 1 .. Len(p) - 1 : q[j] = p[j]
  BY <1>1, <1>8, GroundShrinks
<1> HIDE DEF d2, q
<1>10. Quits(p, f, live, g, t, q, f2, m)
  <2>1. \A i \in live : i \in 1 .. Len(p) + 1 /\ g[i] \in 1 .. Len(f) /\ t[i] \in Nat
    BY <1>1, LiveFacts DEF Seen
  <2> QED
    BY <1>5, <1>6, <1>9, <2>1 DEF Quits
<1>11. m \in live => EndAt(o, Callee(P, p[m - 1].call), t[m])
  <2>1. m - 1 = Len(p)
    BY <1>5
  <2> QED
    BY <1>1, <1>7, <2>1, CalleeEnds DEF S
<1> HIDE DEF m
<1>12. Ended(P, o, f2, l2, 0, g, Ticked(t), z2) /\ z2 \in [Nat -> Nat]
  <2>1. m \in live => z2 = [z EXCEPT ![g[m]] = t[m]]
    OBVIOUS
  <2>2. m \notin live => z2 = z
    OBVIOUS
  <2> HIDE DEF z2
  <2>3. Freed(o, P, p, live, g, t, m, z, z2)
    BY <1>11, <2>1, <2>2 DEF Freed
  <2> QED
    BY <1>1, <1>3, <1>10, <2>3, QuitsEnded
<1> HIDE DEF z2
<1>13. Framed(q, f2, l2, g, Ticked(t))
  <2>1. Stands(p, f, live, q, f2, l2, g)
    BY <1>10, QuitsStands
  <2> QED
    BY <1>4, <2>1, FramedOn
<1>14. Exited(P, src, o, q, l2, Ticked(t), x)
  <2>1. Lasts(P, src, p, live, t, q, l2, Ticked(t))
    BY <1>4, <1>10, QuitsLasts
  <2> QED
    BY <1>4, <2>1, ExitedOn
<1>15. Evolves(P, src, o, d2, f2, q, l2, g, Ticked(t))
  <2>1. \A i \in l2 : i < m /\ (i # 1 => i - 1 \in 1 .. Len(p) - 1)
    BY <1>10, QuitsBounds
  <2>2. \A i \in l2 : i # 1 => q[i - 1] = p[i - 1]
    BY <1>9, <2>1
  <2>3. \A i \in l2 : Len(d) > i
    <3> TAKE i \in l2
    <3>1. i < m /\ i \in Nat /\ m \in Nat
      BY <1>10, <2>1, QuitsBounds
    <3> QED
      BY <1>5, <3>1 DEF m
  <2>4. \A i \in l2 :
           /\ More(o, S) /\ Topmost(o, S).kind = "return" /\ Len(f) = g[i]
                => Topmost(o, S).call # Last(f).call
           /\ ~More(o, S) => Len(d) > i
    BY <1>7, <2>3
  <2>5. l2 \subseteq live
    OBVIOUS
  <2> HIDE DEF l2
  <2> QED
    BY <1>1, <1>7, <2>2, <2>4, <2>5, EvolvesOn DEF S
<1>16. /\ l2 \subseteq Elems(O[Len(q)])
       /\ p[Len(p)].kind = "return" => Last(O[Len(q)]) \notin l2
  BY <1>4, <1>5, <1>9, QuitsOpen DEF m
<1>17. Returns(P, src, o, d2, f2, q, O[Len(q)], l2, 0, g)
  BY DEF Returns
<1>18. Ticked(t) \in [Nat -> Nat]
  BY <1>4, TickedIs
<1> HIDE DEF l2
<1>19. Tale(P, src, o, d2, f2, q, O, l2, 0, g, Ticked(t), x, z2)
  BY <1>4, <1>12, <1>13, <1>14, <1>15, <1>16, <1>17, <1>18 DEF Tale
<1>20. Inside(P, src, d2, f2, q, l2, g)
  <2> SUFFICES ASSUME NEW i \in l2, Len(f2) = g[i], Last(d2).v = ExitOf(FunAt(P, src, q, i))
               PROVE  FALSE
    BY DEF Inside
  <2>1. i = Last(O[Len(q)])
    <3>1. Ground(P, src, o, d2, f2, q, O)
      BY <1>9
    <3> QED
      BY <1>19, <3>1, InnermostExits
  <2>2. p[Len(p)] \in EdgesOf(P)
    BY <1>5, LastInSeq DEF OpenPath, Last
  <2>3. p[Len(p)].kind = "return"
    BY <1>9, <2>2, ExitEdges
  <2> QED
    BY <1>16, <2>1, <2>3
<1>21. Story(P, src, o, d2, f2, q)
  BY <1>9, <1>19, <1>20, Zenon DEF Story
<1> QED
  BY <1>21 DEF d2, f2, q


(* An order learnt later changes nothing of what has happened.             *)
LEMMA StoryLater ==
  ASSUME NEW P \in Programs, NEW src, NEW o, NEW d, NEW f, NEW p, Story(P, src, o, d, f, p),
         NEW q, Extends(o, q), OrderFits(P, q)
  PROVE  Story(P, src, q, d, f, p)
<1>1. PICK O, live, back, g, t, x, z :
        /\ Ground(P, src, o, d, f, p, O)
        /\ Tale(P, src, o, d, f, p, O, live, back, g, t, x, z)
        /\ Inside(P, src, d, f, p, live, g)
  BY Zenon DEF Story
<1>2. DOMAIN o \subseteq DOMAIN q /\ \A w \in DOMAIN o : q[w] = o[w]
  BY DEF Extends
<1>3. Ground(P, src, q, d, f, p, O)
  BY <1>1, <1>2 DEF Ground
<1>4. Last(d).v \in DOMAIN o /\ Acts(p) \subseteq Nat
  <2>1. Acts(p) \subseteq 1 .. Len(p) + 1 /\ Len(p) \in Nat
    BY <1>1, TopFacts
  <2> QED
    BY <1>1, <2>1, TopFacts
<1>5. /\ live \subseteq Elems(O[Len(p)]) /\ back \in Nat
      /\ g \in [Nat -> Nat] /\ t \in [Nat -> Nat] /\ x \in [Nat -> Nat] /\ z \in [Nat -> Nat]
      /\ Framed(p, f, live, g, t)
      /\ Evolves(P, src, o, d, f, p, live, g, t)
      /\ Exited(P, src, o, p, live, t, x)
      /\ Ended(P, o, f, live, back, g, t, z)
      /\ Returns(P, src, o, d, f, p, O[Len(p)], live, back, g)
  BY <1>1 DEF Tale
<1>6. live \subseteq Acts(p)
  BY <1>1, <1>5, TopFacts
<1>7. Evolves(P, src, q, d, f, p, live, g, t)
  <2> SUFFICES ASSUME NEW i \in live
               PROVE  \E s : /\ Going(q, FunAt(P, src, p, i), t[i], s)
                             /\ Looks(P, d, f, i - 1, g[i] - 1, s)
    BY DEF Evolves
  <2>1. PICK s : /\ Going(o, FunAt(P, src, p, i), t[i], s)
                 /\ Looks(P, d, f, i - 1, g[i] - 1, s)
    BY <1>5 DEF Evolves
  <2>2. t[i] \in Nat
    BY <1>4, <1>5, <1>6
  <2>3. Going(q, FunAt(P, src, p, i), t[i], s)
    BY <2>1, <2>2, GoingSame
  <2> QED
    BY <2>1, <2>3
<1>8. Exited(P, src, q, p, live, t, x)
  <2> SUFFICES ASSUME NEW i \in Acts(p) \ live
               PROVE  /\ ExitAt(q, FunAt(P, src, p, i), x[i])
                      /\ \A k \in live : k < i => x[i] < t[k]
    BY DEF Exited
  <2>1. /\ ExitAt(o, FunAt(P, src, p, i), x[i])
        /\ \A k \in live : k < i => x[i] < t[k]
    BY <1>5 DEF Exited
  <2>2. x[i] \in Nat
    BY <1>4, <1>5
  <2>3. ExitAt(q, FunAt(P, src, p, i), x[i])
    BY <2>1, <2>2, GoingSame
  <2> QED
    BY <2>1, <2>3
<1>9. Ended(P, q, f, live, back, g, t, z)
  <2> SUFFICES ASSUME NEW j \in 2 .. Len(f)
               PROVE  /\ f[j].call \in Resolved(P)
                      /\ \/ \E i \in live : g[i] = j
                         \/ back # 0 /\ j = Len(f)
                         \/ /\ EndAt(q, Callee(P, f[j].call), z[j])
                            /\ \A i \in live : g[i] < j => z[j] < t[i]
    BY DEF Ended
  <2>1. /\ f[j].call \in Resolved(P)
        /\ \/ \E i \in live : g[i] = j
           \/ back # 0 /\ j = Len(f)
           \/ /\ EndAt(o, Callee(P, f[j].call), z[j])
              /\ \A i \in live : g[i] < j => z[j] < t[i]
    BY <1>5 DEF Ended
  <2>2. z[j] \in Nat
    <3>1. Len(f) \in Nat
      BY <1>1, TopFacts
    <3>2. j \in Nat
      BY <3>1
    <3> QED
      BY <1>5, <3>2
  <2>3. EndAt(o, Callee(P, f[j].call), z[j]) => EndAt(q, Callee(P, f[j].call), z[j])
    BY <2>2, GoingSame
  <2> QED
    BY <2>1, <2>3
<1>10. Returns(P, src, q, d, f, p, O[Len(p)], live, back, g)
  <2>1. q[Last(d).v] = o[Last(d).v]
    BY <1>2, <1>4
  <2> QED
    BY <1>5, <2>1 DEF Returns
<1>11. Tale(P, src, q, d, f, p, O, live, back, g, t, x, z)
  BY <1>5, <1>7, <1>8, <1>9, <1>10 DEF Tale
<1> QED
  BY <1>1, <1>3, <1>11, Zenon DEF Story

(* The walk begins as the search of the source alone does.                 *)
LEMMA StoryBegins ==
  ASSUME NEW P \in Programs, NEW src \in DOMAIN P, NEW o, OrderFits(P, o), EntryOf(src) \in DOMAIN o
  PROVE  Story(P, src, o, Start(src).d, Start(src).f, <<>>)
<1> DEFINE v == EntryOf(src)
           d == Start(src).d
           f == Start(src).f
           p == <<>>
           O == [n \in {0} |-> <<1>>]
           live == {1}
           g == [i \in Nat |-> 1]
           t == [i \in Nat |-> 0]
<1>1. v \in VerticesOf(P) /\ "gray" \in Colors /\ v[1] = src /\ v # ExitOf(src)
  BY DEF VerticesOf, Colors, EntryOf, ExitOf
<1>2. d = <<[v |-> v, at |-> 0]>> /\ [v |-> v, at |-> 0] \in Entry(P)
  BY <1>1 DEF Start, Entry
<1>3. d \in Seq(Entry(P)) /\ d # <<>> /\ Len(d) = 1 /\ d[1].v = v /\ Last(d).v = v
  BY <1>2 DEF Last
<1>4. f \in Seq(Frame(P)) /\ f # <<>> /\ Len(f) = 1 /\ f[1].call = NoCall
  <2> DEFINE b == <<NewFrame(NoCall)>>
  <2>1. NewFrame(NoCall) \in Frame(P) /\ NewFrame(NoCall).call = NoCall
    BY NewFrameIn
  <2>2. b \in Seq(Frame(P)) /\ b # <<>> /\ Len(b) = 1 /\ b[1].call = NoCall
    BY <2>1
  <2>3. f = Paint(b, v, "gray")
    BY DEF Start
  <2> HIDE DEF b
  <2>4. f \in Seq(Frame(P)) /\ f # <<>> /\ Painted(b, v, "gray", f)
    BY <1>1, <2>2, <2>3, PaintIs
  <2>5. 1 \in 1 .. Len(b)
    BY <2>2
  <2> QED
    BY <2>2, <2>4, <2>5 DEF Painted
<1> HIDE DEF d, f, v
<1>5. p \in Seq(EdgesOf(P)) /\ Len(p) = 0 /\ O[0] = <<1>> /\ At(src, p, 0) = v
  BY DEF At, v
<1> HIDE DEF p
<1>6. OpenPath(P, src, p, O)
  <2>1. /\ <<1>> \in Seq(1 .. 0 + 1) /\ <<1>> # <<>> /\ <<1>>[1] = 1 /\ Len(<<1>>) = 1
        /\ Last(<<1>>) = 1
    <3>1. 1 \in 1 .. 0 + 1
      OBVIOUS
    <3> QED
      BY <3>1 DEF Last
  <2>2. FunAt(P, src, p, 1) = src
    BY DEF FunAt
  <2>3. \A j, k \in 1 .. 1 : ~ (j < k)
    OBVIOUS
  <2>4. 2 .. 1 = {} /\ 1 .. 0 = {} /\ 0 .. 0 = {0}
    OBVIOUS
  <2>5. StackAt(P, src, p, O[0], 0)
    BY <1>1, <1>5, <2>1, <2>2, <2>3, <2>4 DEF StackAt
  <2> QED
    BY <1>5, <2>4, <2>5 DEF OpenPath
<1>7. Ground(P, src, o, d, f, p, O)
  <2>1. ASSUME NEW n \in 1 .. Len(d) PROVE d[n].v = At(src, p, n - 1) /\ d[n].v \in DOMAIN o
    <3>1. n = 1 /\ n - 1 = 0
      BY <1>3
    <3> QED
      BY <1>3, <1>5, <3>1 DEF v
  <2>2. Len(d) = Len(p) + 1
    BY <1>3, <1>5
  <2> QED
    BY <1>3, <1>4, <1>6, <2>1, <2>2 DEF Ground
<1>8. Acts(p) = {1}
  <2>1. 2 .. 0 + 1 = {}
    OBVIOUS
  <2> QED
    BY <1>5, <2>1 DEF Acts
<1>9. live \subseteq Elems(O[Len(p)])
  BY <1>5 DEF Elems
<1>10. g \in [Nat -> Nat] /\ t \in [Nat -> Nat] /\ g[1] = 1 /\ t[1] = 0
  OBVIOUS
<1> HIDE DEF g, t
<1>11. Framed(p, f, live, g, t)
  BY <1>4, <1>10 DEF Framed
<1>12. Evolves(P, src, o, d, f, p, live, g, t)
  <2>1. FunAt(P, src, p, 1) = src
    BY DEF FunAt
  <2>2. Going(o, src, 0, Start(src))
    BY GoingBegins
  <2>3. Above(d, d, 0)
    BY <1>3 DEF Above
  <2>4. Like(f, f, 0)
    BY <1>4 DEF Like
  <2>5. Looks(P, d, f, 1 - 1, g[1] - 1, Start(src))
    BY <1>3, <1>4, <1>10, <2>3, <2>4 DEF Looks, d, f
  <2> QED
    BY <1>10, <2>1, <2>2, <2>5 DEF Evolves
<1>13. Exited(P, src, o, p, live, t, t) /\ Ended(P, o, f, live, 0, g, t, t)
  <2>1. 2 .. 1 = {}
    OBVIOUS
  <2> QED
    BY <1>4, <1>8, <2>1 DEF Exited, Ended
<1>14. Returns(P, src, o, d, f, p, O[Len(p)], live, 0, g) /\ 0 \in Nat
  BY DEF Returns
<1>15. Tale(P, src, o, d, f, p, O, live, 0, g, t, t, t)
  BY <1>9, <1>10, <1>11, <1>12, <1>13, <1>14 DEF Tale
<1>16. Inside(P, src, d, f, p, live, g)
  BY <1>1, <1>3 DEF Inside, FunAt
<1> HIDE DEF live, O
<1>17. Story(P, src, o, d, f, p)
  BY <1>7, <1>15, <1>16, Zenon DEF Story
<1> QED
  BY <1>17 DEF d, f, p

(* The path on to the vertex an edge leads to, whose call the edge makes   *)
(* or returns from.                                                        *)
LEMMA StoryReaches ==
  ASSUME NEW P \in Programs, NEW src, NEW o, NEW d, NEW f, NEW p, Story(P, src, o, d, f, p),
         NEW e, More(o, [d |-> d, f |-> f]), e = Topmost(o, [d |-> d, f |-> f]), ~Passes(f, e)
  PROVE  /\ \E O : OpenPath(P, src, Append(p, e), O)
         /\ p \in Seq(EdgesOf(P)) /\ e \in EdgesOf(P)
<1>1. PICK O, live, back, g, t, x, z :
        /\ Ground(P, src, o, d, f, p, O)
        /\ Tale(P, src, o, d, f, p, O, live, back, g, t, x, z)
        /\ Inside(P, src, d, f, p, live, g)
  BY Zenon DEF Story
<1>2. Last(d).v \in DOMAIN o /\ d \in Seq(Entry(P)) /\ d # <<>> /\ OrderFits(P, o)
      /\ p \in Seq(EdgesOf(P))
  BY <1>1, TopFacts DEF Ground, OpenPath
<1>3. e \in EdgesOf(P) /\ e.from = Last(d).v
  BY <1>2, TopmostIs
<1>4. Lawful(p, O[Len(p)], e)
  <2>1. CASE e.kind = "call"
    BY <2>1 DEF Lawful
  <2>2. CASE e.kind # "call"
    BY <1>1, <1>3, <2>2, SwitchedFacts
  <2> QED
    BY <2>1, <2>2
<1>5. OpenPath(P, src, Append(p, e), Reopened(O, p, e))
  BY <1>1, <1>3, <1>4, GroundEnters
<1> QED
  BY <1>2, <1>3, <1>5


-----------------------------------------------------------------------------
(* What the walk keeps true of its path.                                   *)

PathFound(p) ==
  p # <<>> /\ Last(p).to = EntryOf(sink) /\ \E O : OpenPath(prog, source, p, O)

StoryInv ==
  /\ verdict = "running" /\ source # sink => Story(prog, source, order, dfs, frames, path)
  /\ verdict = "running" /\ source = sink => Len(dfs) = 1 /\ ~MoreEdges
  /\ verdict = "violation" => PathFound(path)

LEMMA StoryInvBegins == Init => StoryInv
<1> SUFFICES ASSUME Init PROVE StoryInv
  OBVIOUS
<1>1. SearchInv
  BY InitGood
<1>2. /\ prog \in Programs /\ source \in DOMAIN prog /\ edges = EdgesOf(prog)
      /\ verdict = "running" /\ path = <<>>
      /\ frames = Paint(<<NewFrame(NoCall)>>, EntryOf(source), "gray")
      /\ dfs = <<[v  |-> EntryOf(source),
                  at |-> IF source = sink THEN Len(order[EntryOf(source)]) ELSE 0]>>
  BY DEF Init
<1>3. CASE source # sink
  <2>1. EntryOf(source) \in DOMAIN order
    BY OrdersExtend DEF Init, OrdersWith
  <2>2. OrderFits(prog, order)
    BY <1>1, <1>2 DEF SearchInv, OrderOK, OrderFits
  <2>3. Story(prog, source, order, Start(source).d, Start(source).f, <<>>)
    BY <1>2, <2>1, <2>2, StoryBegins
  <2>4. dfs = Start(source).d /\ frames = Start(source).f
    BY <1>2, <1>3 DEF Start
  <2> QED
    BY <1>2, <1>3, <2>3, <2>4 DEF StoryInv
<1>4. CASE source = sink
  <2>1. Len(dfs) = 1 /\ Last(dfs).v = EntryOf(source) /\ Last(dfs).at = Len(order[EntryOf(source)])
    BY <1>2, <1>4 DEF Last
  <2>2. order[EntryOf(source)] \in Seq(EdgesOf(prog))
    <3>1. EntryOf(source) \in DOMAIN order
      BY DEF Init, OrdersWith
    <3> QED
      BY <1>1, <1>2, <3>1, OrderingFacts DEF SearchInv, OrderOK
  <2>3. Len(order[EntryOf(source)]) \in Nat
    BY <2>2, LenProperties
  <2>4. ~ MoreEdges
    BY <2>1, <2>3 DEF MoreEdges, Here
  <2> QED
    BY <1>2, <1>4, <2>1, <2>4 DEF StoryInv
<1> QED
  BY <1>3, <1>4

(* One step is one turn of the loop, of the source's search.               *)
LEMMA StepsAreTurns ==
  ASSUME SearchInv, Working, NEW o, Extends(order, o), Here \in DOMAIN order
  PROVE  LET S == [d |-> dfs, f |-> frames] IN
         /\ More(o, S) /\ Topmost(o, S) = Examined /\ MoveOn(dfs) = Advanced
         /\ \A e : /\ Passes(frames, e) <=> Skipped(e)
                   /\ Switched(frames, e) = FramesFor(e)
         /\ Turn(o, S) = Taken(S, Examined)
<1> DEFINE S == [d |-> dfs, f |-> frames]
<1>1. o[Here] = order[Here]
  BY DEF Extends
<1>2. More(o, S) /\ Topmost(o, S) = Examined /\ MoveOn(dfs) = Advanced
  BY <1>1 DEF Working, MoreEdges, More, Topmost, Examined, MoveOn, Advanced, Here
<1>3. ASSUME NEW e PROVE /\ Passes(frames, e) <=> Skipped(e)
                         /\ Switched(frames, e) = FramesFor(e)
  BY DEF Passes, Skipped, Matches, TopFrame, Switched, FramesFor
<1> QED
  BY <1>2, <1>3 DEF Turn

LEMMA StorySkips ==
  ASSUME SearchInv, StoryInv, Skip
  PROVE  StoryInv'
<1>1. Working /\ Skipped(Examined) /\ dfs' = Advanced
      /\ UNCHANGED <<given, order, frames, path, verdict>> /\ verdict = "running"
  BY DEF Skip, Working
<1>2. Here \in DOMAIN order
  BY <1>1, ExaminedFacts DEF Discovered
<1>3. source # sink
  BY <1>1 DEF StoryInv, Working
<1>4. Story(prog, source, order, dfs, frames, path) /\ prog \in Programs
  BY <1>1, <1>3 DEF StoryInv, SearchInv, GivenOK
<1> DEFINE S == [d |-> dfs, f |-> frames]
<1>5. /\ More(order, S) /\ Topmost(order, S) = Examined /\ MoveOn(dfs) = Advanced
      /\ Passes(frames, Examined)
      /\ Turn(order, S) = Taken(S, Examined)
  <2>1. Extends(order, order)
    BY DEF Extends
  <2> QED
    BY <1>1, <1>2, <2>1, StepsAreTurns
<1>6. Turn(order, S) = [d |-> MoveOn(dfs), f |-> frames]
  BY <1>5 DEF Taken
<1>7. ~(Topmost(order, S).kind = "return" /\ Topmost(order, S).call = Last(frames).call)
  BY <1>5 DEF Passes
<1>8. Story(prog, source, order, MoveOn(dfs), frames, path)
  BY <1>4, <1>5, <1>6, <1>7, StoryStays
<1>9. Story(prog, source, order, dfs, frames, path)'
  BY <1>1, <1>5, <1>8 DEF given
<1> QED
  BY <1>1, <1>3, <1>9 DEF StoryInv, given

LEMMA StoryPassesOver ==
  ASSUME SearchInv, StoryInv, AlreadyColored
  PROVE  StoryInv'
<1> DEFINE e == Examined
           S == [d |-> dfs, f |-> frames]
<1>1. Working /\ ~Skipped(e) /\ dfs' = Advanced /\ frames' = FramesFor(e)
      /\ ColorIn(FramesFor(e), e.to) # "white"
      /\ UNCHANGED <<given, order, path, verdict>> /\ verdict = "running"
  BY DEF AlreadyColored, Working
<1>2. Here \in DOMAIN order /\ e \in edges
  BY <1>1, ExaminedFacts DEF Discovered
<1>3. source # sink
  BY <1>1 DEF StoryInv, Working
<1>4. Story(prog, source, order, dfs, frames, path) /\ prog \in Programs /\ edges = EdgesOf(prog)
      /\ frames \in Seq(Frame(prog))
  BY <1>1, <1>3 DEF StoryInv, SearchInv, GivenOK, StackOK
<1>5. /\ More(order, S) /\ Topmost(order, S) = e /\ MoveOn(dfs) = Advanced
      /\ ~Passes(frames, e) /\ Switched(frames, e) = FramesFor(e)
      /\ Turn(order, S) = Taken(S, e)
  <2>1. Extends(order, order)
    BY DEF Extends
  <2> QED
    BY <1>1, <1>2, <2>1, StepsAreTurns
<1> HIDE DEF e
<1>6. Turn(order, S) = [d |-> MoveOn(dfs), f |-> Switched(frames, e)]
  BY <1>1, <1>5 DEF Taken
<1>7. e.kind # "call"
  <2> SUFFICES ASSUME e.kind = "call" PROVE FALSE
    OBVIOUS
  <2>1. FramesFor(e) = Append(frames, NewFrame(e.call))
    BY DEF FramesFor
  <2>2. NewFrame(e.call) \in Frame(prog)
    <3>1. e.call \in CallSites(prog)
      BY <1>2, <1>4, EdgeFacts
    <3> QED
      BY <3>1, NewFrameIn
  <2>3. Last(FramesFor(e)) = NewFrame(e.call)
    BY <1>4, <2>1, <2>2, AppendSeq DEF Last
  <2>4. Last(FramesFor(e)).color = <<>>
    BY <2>3 DEF NewFrame
  <2>5. DOMAIN Last(FramesFor(e)).color = {}
    BY <2>4
  <2> QED
    BY <1>1, <2>5 DEF ColorIn
<1>8. Story(prog, source, order, MoveOn(dfs), FramesFor(e), path)
  <2>1. CASE e.kind = "return"
    <3>1. e.call = Last(frames).call /\ Switched(frames, e) = Front(frames)
      BY <1>5, <2>1 DEF Passes, Switched
    <3>2. Turn(order, S) = [d |-> MoveOn(dfs), f |-> Front(frames)]
      BY <1>6, <3>1
    <3>3. Story(prog, source, order, MoveOn(dfs), Front(frames), path)
      BY <1>4, <1>5, <2>1, <3>1, <3>2, StoryReturns
    <3> QED
      BY <1>5, <3>1, <3>3
  <2>2. CASE e.kind # "return"
    <3>1. Switched(frames, e) = frames
      BY <1>7, <2>2 DEF Switched
    <3>2. Turn(order, S) = [d |-> MoveOn(dfs), f |-> frames]
      BY <1>6, <3>1
    <3>3. Story(prog, source, order, MoveOn(dfs), frames, path)
      BY <1>4, <1>5, <2>2, <3>2, StoryStays
    <3> QED
      BY <1>5, <3>1, <3>3
  <2> QED
    BY <2>1, <2>2
<1>9. Story(prog, source, order, dfs, frames, path)'
  BY <1>1, <1>5, <1>8 DEF given
<1> QED
  BY <1>1, <1>3, <1>9 DEF StoryInv, given


LEMMA StoryDiscovers ==
  ASSUME SearchInv, StoryInv, Discover
  PROVE  StoryInv'
<1> DEFINE e  == Examined
           fs == FramesFor(e)
           S  == [d |-> dfs, f |-> frames]
<1>1. Working /\ ~Skipped(e) /\ ColorIn(fs, e.to) = "white" /\ verdict = "running"
      /\ UNCHANGED given
  BY DEF Discover, Working
<1>2. Here \in DOMAIN order /\ e \in edges
  BY <1>1, ExaminedFacts DEF Discovered
<1>3. source # sink
  BY <1>1 DEF StoryInv, Working
<1>4. Story(prog, source, order, dfs, frames, path) /\ prog \in Programs /\ edges = EdgesOf(prog)
      /\ GivenOK /\ OrderOK(order)
  BY <1>1, <1>3 DEF StoryInv, SearchInv, GivenOK
<1>5. CASE Enter(e, fs) /\ e.to = EntryOf(sink)
  <2>1. path' = Append(path, e) /\ verdict' = "violation"
    BY <1>5 DEF Enter
  <2>2. More(order, S) /\ Topmost(order, S) = e /\ ~Passes(frames, e)
    <3>1. Extends(order, order)
      BY DEF Extends
    <3> QED
      BY <1>1, <1>2, <3>1, StepsAreTurns
  <2> HIDE DEF e, S
  <2>3. /\ \E O : OpenPath(prog, source, Append(path, e), O)
        /\ path \in Seq(EdgesOf(prog)) /\ e \in EdgesOf(prog)
    BY <1>4, <2>2, StoryReaches DEF S
  <2>4. Append(path, e) # <<>> /\ Last(Append(path, e)) = e
    <3>1. Append(path, e) \in Seq(EdgesOf(prog)) /\ Len(Append(path, e)) = Len(path) + 1
          /\ Append(path, e)[Len(path) + 1] = e /\ Len(path) \in Nat
      BY <2>3, AppendSeq, LenProperties
    <3>2. Len(Append(path, e)) # 0
      BY <3>1
    <3> QED
      BY <3>1, <3>2, EmptySeq DEF Last
  <2>5. PathFound(path)'
    BY <1>1, <1>5, <2>1, <2>3, <2>4 DEF PathFound, given
  <2> QED
    BY <2>1, <2>5 DEF StoryInv
<1>6. CASE Enter(e, fs) /\ e.to # EntryOf(sink)
  <2>1. /\ path' = Append(path, e) /\ verdict' = verdict
        /\ order' \in OrdersWith(edges, order, e.to)
        /\ frames' = Paint(fs, e.to, "gray")
        /\ dfs' = Append(Advanced, [v |-> e.to, at |-> 0])
    BY <1>6 DEF Enter
  <2>2. e.to \in VerticesOf(prog)
    BY <1>2, <1>4, EdgeFacts
  <2>3. OrderOK(order') /\ e.to \in DOMAIN order'
    BY <1>4, <2>1, <2>2, OrdersWithGood
  <2>4. OrderFits(prog, order')
    BY <1>4, <2>3 DEF OrderOK, OrderFits
  <2>5. Extends(order, order')
    <3>1. DOMAIN order' = Discovered \cup {e.to} /\ \A w \in Discovered : order'[w] = order[w]
      BY <2>1, OrdersExtend
    <3> QED
      BY <3>1 DEF Extends, Discovered
  <2>6. Story(prog, source, order', dfs, frames, path)
    BY <1>4, <2>4, <2>5, StoryLater
  <2>7. /\ More(order', S) /\ Topmost(order', S) = e /\ MoveOn(dfs) = Advanced
        /\ ~Passes(frames, e) /\ Switched(frames, e) = fs
        /\ Turn(order', S) = Taken(S, e)
    BY <1>1, <1>2, <2>5, StepsAreTurns
  <2> HIDE DEF e, fs
  <2>8. dfs' = Onto(dfs, e) /\ frames' = Paint(Switched(frames, e), e.to, "gray")
    BY <2>1, <2>7 DEF Onto
  <2>9. Turn(order', S) = [d |-> dfs', f |-> frames']
    BY <1>1, <2>7, <2>8 DEF Taken, Onto
  <2>10. Enters(order', dfs, frames, e, dfs', frames')
    BY <2>7, <2>8, <2>9 DEF Enters
  <2>11. Story(prog, source, order', dfs', frames', Append(path, e))
    BY <1>4, <2>3, <2>6, <2>10, StoryEnters, StoryCalls
  <2>12. Story(prog, source, order, dfs, frames, path)'
    BY <1>1, <2>1, <2>11 DEF given
  <2> QED
    BY <1>1, <1>3, <2>1, <2>12 DEF StoryInv, given
<1>7. CASE ~ Enter(e, fs)
  <2>1. verdict' = "exhausted"
    BY <1>7 DEF Discover
  <2> QED
    BY <2>1 DEF StoryInv
<1> QED
  BY <1>5, <1>6, <1>7

LEMMA StoryFinishes ==
  ASSUME SearchInv, StoryInv, Finish
  PROVE  StoryInv'
<1> DEFINE S == [d |-> dfs, f |-> frames]
<1>1. /\ verdict = "running" /\ dfs # <<>> /\ ~MoreEdges
      /\ frames' = Paint(frames, Here, "black") /\ dfs' = Front(dfs)
      /\ path' = IF path = <<>> THEN path ELSE Front(path)
      /\ verdict' = IF Len(dfs) = 1 THEN "no violation" ELSE verdict
      /\ UNCHANGED <<given, order>>
  BY DEF Finish
<1>2. CASE Len(dfs) = 1
  BY <1>1, <1>2 DEF StoryInv
<1>3. CASE Len(dfs) # 1
  <2>1. source # sink
    BY <1>1, <1>3 DEF StoryInv
  <2>2. Story(prog, source, order, dfs, frames, path) /\ prog \in Programs
    BY <1>1, <2>1 DEF StoryInv, SearchInv, GivenOK
  <2>3. Len(dfs) = Len(path) + 1
    <3>1. PICK O, live, back, g, t, x, z : Ground(prog, source, order, dfs, frames, path, O)
      BY <2>2, Zenon DEF Story
    <3> QED
      BY <3>1 DEF Ground
  <2>4. path # <<>>
    BY <1>3, <2>3
  <2>5. ~ More(order, S)
    BY <1>1 DEF MoreEdges, More, Here
  <2>6. Story(prog, source, order, Front(dfs), Paint(frames, Last(dfs).v, "black"), Front(path))
    BY <2>2, <2>4, <2>5, StoryFinish
  <2>7. Story(prog, source, order, dfs, frames, path)'
    BY <1>1, <2>4, <2>6 DEF given, Here
  <2> QED
    BY <1>1, <1>3, <2>1, <2>7 DEF StoryInv, given
<1> QED
  BY <1>2, <1>3

LEMMA StoryStep == SearchInv /\ StoryInv /\ [Next]_vars => StoryInv'
<1> SUFFICES ASSUME SearchInv, StoryInv, [Next]_vars PROVE StoryInv'
  OBVIOUS
<1>1. CASE Skip
  BY <1>1, StorySkips
<1>2. CASE Discover
  BY <1>2, StoryDiscovers
<1>3. CASE AlreadyColored
  BY <1>3, StoryPassesOver
<1>4. CASE Finish
  BY <1>4, StoryFinishes
<1>5. CASE UNCHANGED vars
  BY <1>5 DEF vars, given, StoryInv, PathFound, MoreEdges, Here
<1> QED
  BY <1>1, <1>2, <1>3, <1>4, <1>5 DEF Next, Walk, Reported

LEMMA StoryInvariant == Spec => []StoryInv
  BY SearchInvariant, StoryInvBegins, StoryStep, PTL DEF Spec


(* The calls a path has not returned from are those of the activations on  *)
(* its stack, the source's aside.                                          *)
CallsOf(p, s) == [k \in 1 .. Len(s) - 1 |-> p[s[k + 1] - 1].call]

OpenNext(e, open) ==
  CASE e.kind = "call" -> Append(open, e.call)
    [] e.kind = "return" ->
         IF open # <<>> /\ Last(open) = e.call THEN Front(open) ELSE <<NoCall>> \o open
    [] OTHER -> open

CallsKept(P, p, s, n) ==
  /\ CallsOf(p, s) \in Seq(CallSites(P)) /\ Len(CallsOf(p, s)) = Len(s) - 1
  /\ \A k \in 1 .. Len(s) - 1 : CallsOf(p, s)[k] = p[s[k + 1] - 1].call
  /\ \A k \in 2 .. Len(s) : s[k] - 1 \in 1 .. n

LEMMA CallsOfFacts ==
  ASSUME NEW P \in Programs, NEW src, NEW p, NEW O, OpenPath(P, src, p, O), NEW n \in 0 .. Len(p)
  PROVE  CallsKept(P, p, O[n], n)
<1> DEFINE s == O[n]
           c == CallsOf(p, s)
<1>1. StackAt(P, src, p, s, n) /\ n \in Nat
  BY LenProperties DEF OpenPath
<1>2. /\ s \in Seq(1 .. n + 1) /\ s # <<>> /\ s[1] = 1
      /\ \A j, k \in 1 .. Len(s) : j < k => s[j] < s[k]
      /\ \A k \in 2 .. Len(s) : p[s[k] - 1].call \in Resolved(P)
  BY <1>1 DEF StackAt
<1> HIDE DEF s
<1>3. PICK m \in Nat \ {0} : m = Len(s)
  BY <1>2, LastInSeq
<1>4. ASSUME NEW k \in 1 .. m - 1 PROVE p[s[k + 1] - 1].call \in CallSites(P)
  <2>1. k + 1 \in 2 .. m
    OBVIOUS
  <2> QED
    <3>1. PICK j \in 2 .. m : j = k + 1
      BY <2>1
    <3>2. p[s[j] - 1].call \in Resolved(P)
      BY <1>2, <1>3
    <3> QED
      BY <3>1, <3>2 DEF Resolved
<1>5. c = [k \in 1 .. m - 1 |-> p[s[k + 1] - 1].call] /\ m - 1 \in Nat
  BY <1>3 DEF CallsOf
<1>6. c \in [1 .. m - 1 -> CallSites(P)]
  BY <1>4, <1>5
<1> HIDE DEF c
<1>7. c \in Seq(CallSites(P)) /\ Len(c) = m - 1
  BY <1>5, <1>6
<1>8. ASSUME NEW k \in 2 .. m PROVE s[k] - 1 \in 1 .. n
  <2>1. 1 \in 1 .. m /\ k \in 1 .. m /\ 1 < k
    BY <1>3
  <2>2. s[1] < s[k] /\ s[k] \in 1 .. n + 1
    BY <1>2, <1>3, <2>1, ElementOfSeq
  <2> QED
    BY <1>1, <1>2, <2>2
<1> QED
  BY <1>3, <1>5, <1>7, <1>8 DEF c, s, CallsKept

LEMMA CallsOfStep ==
  ASSUME NEW P \in Programs, NEW src, NEW p, NEW O, OpenPath(P, src, p, O), NEW n \in 1 .. Len(p)
  PROVE  CallsOf(p, O[n]) = OpenNext(p[n], CallsOf(p, O[n - 1]))
<1> DEFINE s == O[n - 1]
           c == CallsOf(p, s)
           b == CallsOf(p, O[n])
           T == CallSites(P)
<1>1. n \in Nat \ {0} /\ n \in 0 .. Len(p) /\ n - 1 \in 0 .. Len(p) /\ (n - 1) + 1 = n
  BY LenProperties DEF OpenPath
<1>2. StackAt(P, src, p, s, n - 1) /\ OpenStep(p, O, n) /\ p[n] \in EdgesOf(P)
  BY <1>1, ElementOfSeq DEF OpenPath
<1>3. s \in Seq(1 .. n) /\ s # <<>>
  BY <1>1, <1>2 DEF StackAt
<1>4. /\ c \in Seq(T) /\ Len(c) = Len(s) - 1
      /\ \A k \in 1 .. Len(s) - 1 : c[k] = p[s[k + 1] - 1].call
  <2>1. PICK i \in 0 .. Len(p) : i = n - 1
    BY <1>1
  <2>2. CallsKept(P, p, O[i], i)
    BY CallsOfFacts
  <2> QED
    BY <2>1, <2>2 DEF CallsKept
<1>5. /\ b \in Seq(T) /\ Len(b) = Len(O[n]) - 1
      /\ \A k \in 1 .. Len(O[n]) - 1 : b[k] = p[O[n][k + 1] - 1].call
  <2>1. CallsKept(P, p, O[n], n)
    BY <1>1, CallsOfFacts
  <2> QED
    BY <2>1 DEF CallsKept
<1> SUFFICES b = OpenNext(p[n], c)
  OBVIOUS
<1> HIDE DEF s, c, b, T
<1>6. PICK m \in Nat \ {0} : m = Len(s)
  BY <1>3, LastInSeq
<1>7. CASE p[n].kind = "call"
  <2>1. O[n] = Append(s, n + 1)
    BY <1>2, <1>7 DEF OpenStep, s
  <2>2. /\ Len(O[n]) = m + 1 /\ O[n][m + 1] = n + 1
        /\ \A k \in 1 .. m : O[n][k] = s[k]
    <3>1. s \in Seq(Nat) /\ n + 1 \in Nat
      BY <1>3
    <3> QED
      BY <1>6, <2>1, <3>1, AppendSeq
  <2>3. p[n].call \in T
    BY <1>2, <1>7, EdgeFacts DEF T
  <2>4. /\ Append(c, p[n].call) \in Seq(T) /\ Len(Append(c, p[n].call)) = (m - 1) + 1
        /\ Append(c, p[n].call)[(m - 1) + 1] = p[n].call
        /\ \A k \in 1 .. m - 1 : Append(c, p[n].call)[k] = c[k]
    BY <1>4, <1>6, <2>3, AppendSeq
  <2> DEFINE a == Append(c, p[n].call)
  <2> HIDE DEF a
  <2>5. (m - 1) + 1 = m /\ (m + 1) - 1 = m /\ (n + 1) - 1 = n
    BY <1>1
  <2>6. Len(a) = m /\ Len(b) = m /\ a \in Seq(T)
    BY <1>5, <2>2, <2>4, <2>5 DEF a
  <2>7. ASSUME NEW k \in 1 .. m PROVE b[k] = a[k]
    <3>1. b[k] = p[O[n][k + 1] - 1].call
      BY <1>5, <2>2, <2>5
    <3>2. CASE k = m
      BY <2>2, <2>4, <2>5, <3>1, <3>2 DEF a
    <3>3. CASE k # m
      <4>1. k \in 1 .. m - 1 /\ k + 1 \in 1 .. m
        BY <3>3
      <4> QED
        BY <1>4, <1>6, <2>2, <2>4, <3>1, <4>1 DEF a
    <3> QED
      BY <3>2, <3>3
  <2>8. b = a
    BY <1>5, <2>6, <2>7, SeqEqual
  <2> QED
    BY <1>7, <2>8 DEF OpenNext, a
<1>8. CASE p[n].kind = "return"
  <2>1. O[n] = Front(s) /\ Len(s) # 1 /\ p[Last(s) - 1].call = p[n].call
    BY <1>2, <1>8 DEF OpenStep, s
  <2>2. m - 1 \in Nat \ {0} /\ m - 1 \in 1 .. m - 1 /\ (m - 1) + 1 = m
    BY <1>6, <2>1
  <2>3. c # <<>> /\ Len(c) = m - 1
    BY <1>4, <1>6, <2>2
  <2>4. Last(c) = p[n].call
    BY <1>4, <1>6, <2>1, <2>2, <2>3 DEF Last
  <2>5. /\ Front(c) \in Seq(T) /\ Len(Front(c)) = m - 1 - 1
        /\ \A k \in 1 .. m - 1 - 1 : Front(c)[k] = c[k]
    BY <1>4, <2>3, FrontSeq
  <2>6. Len(O[n]) = m - 1 /\ \A k \in 1 .. m - 1 : O[n][k] = s[k]
    BY <1>3, <1>6, <2>1, FrontSeq
  <2>7. ASSUME NEW k \in 1 .. m - 1 - 1 PROVE b[k] = Front(c)[k]
    <3>1. k \in 1 .. m - 1 /\ k + 1 \in 1 .. m - 1
      OBVIOUS
    <3>2. b[k] = p[O[n][k + 1] - 1].call
      BY <1>5, <2>6
    <3>3. c[k] = p[s[k + 1] - 1].call
      BY <1>4, <1>6, <3>1
    <3> QED
      BY <2>5, <2>6, <3>1, <3>2, <3>3
  <2>8. Len(b) = m - 1 - 1
    BY <1>5, <2>6
  <2>9. b = Front(c)
    BY <1>5, <2>5, <2>7, <2>8, SeqEqual
  <2>10. OpenNext(p[n], c) = Front(c)
    BY <1>8, <2>3, <2>4 DEF OpenNext
  <2> QED
    BY <2>9, <2>10
<1>9. CASE p[n].kind \notin {"call", "return"}
  <2>1. O[n] = s
    BY <1>2, <1>9 DEF OpenStep, s
  <2>2. b = c
    BY <2>1 DEF b, c, s
  <2> QED
    BY <1>9, <2>2 DEF OpenNext
<1> QED
  BY <1>7, <1>8, <1>9

(* OpenCalls is the recursion TLC evaluates.                               *)
LEMMA OpenCallsAre ==
  ASSUME NEW P \in Programs, NEW src, NEW p, NEW O, OpenPath(P, src, p, O)
  PROVE  OpenCalls(p) = CallsOf(p, O[Len(p)])
<1> DEFINE F == [n \in 0 .. Len(p) |-> CallsOf(p, O[n])]
           Solves(f) == f = [n \in 0 .. Len(p) |->
                               IF n = 0 THEN <<>> ELSE OpenNext(p[n], f[n - 1])]
           G == CHOOSE f : Solves(f)
<1>1. Len(p) \in Nat
  BY LenProperties DEF OpenPath
<1>2. F[0] = <<>>
  <2>1. O[0] = <<1>> /\ 0 \in 0 .. Len(p)
    BY <1>1 DEF OpenPath
  <2>2. CallsOf(p, O[0]) \in Seq(CallSites(P)) /\ Len(CallsOf(p, O[0])) = Len(O[0]) - 1
    BY <2>1, CallsOfFacts DEF CallsKept
  <2>3. Len(CallsOf(p, O[0])) = 0
    BY <2>1, <2>2
  <2>4. CallsOf(p, O[0]) = <<>>
    BY <2>2, <2>3, EmptySeq
  <2> QED
    BY <2>1, <2>4
<1>3. ASSUME NEW n \in 0 .. Len(p), n # 0 PROVE F[n] = OpenNext(p[n], F[n - 1])
  <2>1. n \in 1 .. Len(p) /\ n - 1 \in 0 .. Len(p)
    BY <1>1, <1>3
  <2>2. CallsOf(p, O[n]) = OpenNext(p[n], CallsOf(p, O[n - 1]))
    BY <2>1, CallsOfStep
  <2> QED
    BY <2>1, <2>2
<1>4. F = [n \in 0 .. Len(p) |-> F[n]]
  OBVIOUS
<1>5. Solves(F)
  <2> HIDE DEF F
  <2>1. ASSUME NEW n \in 0 .. Len(p)
        PROVE  F[n] = IF n = 0 THEN <<>> ELSE OpenNext(p[n], F[n - 1])
    BY <1>2, <1>3
  <2> QED
    BY <1>4, <2>1
<1> HIDE DEF F
<1>6. OpenCalls(p) = G[Len(p)]
  BY DEF OpenCalls, OpenNext
<1>7. Solves(G)
  <2> HIDE DEF Solves
  <2> QED
    BY <1>5
<1> HIDE DEF G
<1>8. ASSUME NEW k \in 0 .. Len(p), G[k] # F[k] PROVE FALSE
  <2> DEFINE bad == {n \in 0 .. Len(p) : G[n] # F[n]}
  <2>1. PICK n \in bad : \A m \in bad : n <= m
    <3>1. bad \in SUBSET Nat /\ bad # {}
      BY <1>1, <1>8
    <3> HIDE DEF bad
    <3> QED
      BY <3>1, Least
  <2>2. n \in 0 .. Len(p) /\ G[n] # F[n]
    BY <2>1
  <2>3. n # 0
    BY <1>2, <1>7, <2>2
  <2>4. n - 1 \in 0 .. Len(p) /\ n - 1 \notin bad
    BY <1>1, <2>1, <2>2, <2>3
  <2>5. G[n - 1] = F[n - 1]
    BY <2>4
  <2>6. G[n] = OpenNext(p[n], G[n - 1])
    BY <1>7, <2>2, <2>3
  <2> QED
    BY <1>3, <2>2, <2>3, <2>5, <2>6
<1>9. Len(p) \in 0 .. Len(p)
  BY <1>1
<1>10. OpenCalls(p) = F[Len(p)]
  BY <1>6, <1>8, <1>9
<1> QED
  BY <1>9, <1>10 DEF F

(* The path reported is one the program could take.                        *)
LEMMA FoundIsRealizable == SearchInv /\ StoryInv => PathRealizable
<1> SUFFICES ASSUME SearchInv, StoryInv, verdict = "violation"
             PROVE  /\ path[1].from = EntryOf(source) /\ Last(path).to = EntryOf(sink)
                    /\ \A n \in 1 .. Len(path) - 1 : path[n].to = path[n + 1].from
                    /\ \A n \in DOMAIN OpenCalls(path) : OpenCalls(path)[n] # NoCall
  BY DEF PathRealizable
<1>1. prog \in Programs
  BY DEF SearchInv, GivenOK
<1>2. path # <<>> /\ Last(path).to = EntryOf(sink) /\ \E O : OpenPath(prog, source, path, O)
  BY DEF StoryInv, PathFound
<1>3. PICK O : OpenPath(prog, source, path, O)
  BY <1>2
<1>4. PICK m \in Nat \ {0} : m = Len(path)
  BY <1>2, <1>3, LastInSeq DEF OpenPath
<1>5. \A n \in 1 .. m : path[n].from = At(source, path, n - 1)
  BY <1>3, <1>4 DEF OpenPath
<1>6. path[1].from = EntryOf(source)
  <2>1. path[1].from = At(source, path, 1 - 1)
    BY <1>4, <1>5
  <2> QED
    BY <2>1 DEF At
<1>7. ASSUME NEW n \in 1 .. m - 1 PROVE path[n].to = path[n + 1].from
  <2>1. PICK k \in 1 .. m : k = n + 1 /\ k - 1 = n /\ n # 0
    <3>1. n + 1 \in 1 .. m /\ (n + 1) - 1 = n /\ n # 0
      OBVIOUS
    <3> QED
      BY <3>1
  <2>2. path[k].from = At(source, path, n)
    BY <1>5, <2>1
  <2> QED
    BY <2>1, <2>2 DEF At
<1>8. \A n \in DOMAIN OpenCalls(path) : OpenCalls(path)[n] # NoCall
  <2>1. OpenCalls(path) = CallsOf(path, O[m])
    BY <1>1, <1>3, <1>4, OpenCallsAre
  <2>2. CallsOf(path, O[m]) \in Seq(CallSites(prog))
    BY <1>1, <1>3, <1>4, CallsOfFacts DEF CallsKept
  <2>3. NoCall \notin CallSites(prog)
    BY <1>1, ProgramsAssumption
  <2> QED
    BY <2>1, <2>2, <2>3
<1> QED
  BY <1>2, <1>4, <1>6, <1>7, <1>8

(* For every program, order of its edges and memory bound, the path that   *)
(* RunRule reports for a violation is one the program can take, whatever   *)
(* frames the walk left behind or popped early.                            *)
THEOREM PathsAreRealizable == Spec => []PathRealizable
  BY FoundIsRealizable, SearchInvariant, StoryInvariant, PTL


-----------------------------------------------------------------------------
(* The chain printed.  ENTRY and EXIT are never listed, so a line is       *)
(* indented by the activations open at it and one more.                    *)

IsEntry(v) == \E f \in DOMAIN prog : v = EntryOf(f)
IsExit(v)  == \E f \in DOMAIN prog : v = ExitOf(f)

LEMMA EntryUnlisted ==
  ASSUME SearchInv, NEW v, IsEntry(v)
  PROVE  ~ Unresolved(v) /\ ~ Listed(v) /\ \A n \in Int : IndentAfter(v, n) = n + 1
<1> DEFINE P == prog
<1>1. P \in Programs /\ edges = EdgesOf(P)
  BY DEF SearchInv, GivenOK
<1>2. PICK F \in DOMAIN P : v = EntryOf(F)
  BY DEF IsEntry
<1> HIDE DEF P
<1>3. v \notin CallSites(P)
  <2> SUFFICES ASSUME v \in CallSites(P) PROVE FALSE
    OBVIOUS
  <2>1. PICK f \in DOMAIN P : \E n \in DOMAIN P[f].calls : v = <<f, n>>
    BY DEF CallSites
  <2>2. 0 \in DOMAIN P[f].calls
    BY <1>2, <2>1 DEF EntryOf
  <2> QED
    BY <1>1, <2>2, ProgramsAssumption
<1> DEFINE S == {e \in OutEdges(edges, v) : e.kind \in {"plain", "back"}}
<1>4. ASSUME NEW e \in S
      PROVE  \E a \in P[F].arcs : e = ArcEdge(F, a) /\ a.from = 0
  <2>1. e \in EdgesOf(P) /\ e.from = v /\ e.kind \notin {"call", "return"}
    BY <1>1 DEF OutEdges
  <2>2. PICK f \in DOMAIN P : \E a \in P[f].arcs : e = ArcEdge(f, a)
    BY <1>1, <2>1, LinkForms
  <2>3. PICK a \in P[f].arcs : e = ArcEdge(f, a)
    BY <2>2
  <2>4. f = F /\ a.from = 0
    BY <1>2, <2>1, <2>3 DEF ArcEdge, EntryOf
  <2> QED
    BY <2>3, <2>4
<1>5. ASSUME NEW e \in S, NEW b \in S PROVE e = b
  <2>1. PICK a \in P[F].arcs : e = ArcEdge(F, a) /\ a.from = 0
    BY <1>4, <1>5
  <2>2. PICK c \in P[F].arcs : b = ArcEdge(F, c) /\ c.from = 0
    BY <1>4, <1>5
  <2>3. a = c
    BY <1>1, <1>2, <2>1, <2>2, ProgramsAssumption
  <2> QED
    BY <2>1, <2>2, <2>3
<1>6. ~ IsDecision(v)
  <2>1. Cardinality(S) \in {0, 1}
    <3> HIDE DEF S
    <3>1. CASE S = {}
      BY <3>1, FS_EmptySet
    <3>2. CASE S # {}
      <4>1. PICK e : S = {e}
        BY <1>5, <3>2
      <4> QED
        BY <4>1, FS_Singleton
    <3> QED
      BY <3>1, <3>2
  <2>2. ~ (Cardinality(S) > 1)
    <3> HIDE DEF S
    <3> QED
      BY <2>1
  <2> QED
    BY <2>2 DEF IsDecision
<1>7. \A n \in Int : IndentAfter(v, n) = n + 1
  <2>1. ~ IsExit(v)
    BY <1>2 DEF IsExit, EntryOf, ExitOf
  <2> QED
    BY <2>1 DEF IsEntry, IsExit, IndentAfter
<1> QED
  BY <1>3, <1>6, <1>7 DEF Unresolved, Listed, Resolved, P

LEMMA ExitUnlisted ==
  ASSUME SearchInv, NEW v, IsExit(v)
  PROVE  ~ Unresolved(v) /\ ~ Listed(v) /\ \A n \in Int : IndentAfter(v, n) = n - 1
<1>1. prog \in Programs /\ edges = EdgesOf(prog)
  BY DEF SearchInv, GivenOK
<1>2. PICK F \in DOMAIN prog : v = ExitOf(F)
  BY DEF IsExit
<1>3. v \notin CallSites(prog)
  <2> SUFFICES ASSUME v \in CallSites(prog) PROVE FALSE
    OBVIOUS
  <2>1. PICK f \in DOMAIN prog : \E n \in DOMAIN prog[f].calls : v = <<f, n>>
    BY DEF CallSites
  <2>2. 1 \in DOMAIN prog[f].calls
    BY <1>2, <2>1 DEF ExitOf
  <2>3. \E a \in prog[f].arcs : {b \in prog[f].arcs : b.from = 1 /\ b.kind # "impossible"} = {a}
    BY <1>1, <2>2, ProgramsAssumption
  <2>4. \E a \in prog[f].arcs : a.from = 1
    BY <2>3
  <2> QED
    BY <1>1, <2>4, ProgramsAssumption
<1> DEFINE S == {e \in OutEdges(edges, v) : e.kind \in {"plain", "back"}}
<1>4. ASSUME NEW e \in S PROVE FALSE
  <2>1. e \in EdgesOf(prog) /\ e.from = v /\ e.kind # "return"
    BY <1>1 DEF OutEdges
  <2> QED
    BY <1>1, <1>2, <2>1, ExitEdges
<1>5. Cardinality(S) = 0
  <2>1. S = {}
    BY <1>4
  <2> QED
    BY <2>1, FS_EmptySet
<1>6. ~ IsDecision(v)
  BY <1>5 DEF IsDecision
<1>7. ~ IsEntry(v)
  BY <1>2 DEF IsEntry, EntryOf, ExitOf
<1>8. \A n \in Int : IndentAfter(v, n) = n - 1
  BY <1>7 DEF IsEntry, IsExit, IndentAfter
<1> QED
  BY <1>3, <1>6, <1>8 DEF Unresolved, Listed, Resolved

(* Only calls lead to an ENTRY, and only returns away from an EXIT; both   *)
(* name functions of the program.                                          *)
LEMMA EdgeEnds ==
  ASSUME SearchInv, NEW e \in edges
  PROVE  /\ e.kind = "call" => /\ e.from = e.call /\ e.call \in Resolved(prog)
                               /\ e.to = EntryOf(Callee(prog, e.call))
                               /\ Callee(prog, e.call) \in DOMAIN prog
         /\ e.kind = "return" => IsExit(e.from)
         /\ IsExit(e.from) => e.kind = "return"
         /\ IsEntry(e.from) => e.kind \notin {"call", "return"}
         /\ e.kind # "call" => ~ IsEntry(e.to) /\ e.to[2] # 0
<1>1. prog \in Programs /\ e \in EdgesOf(prog)
  BY DEF SearchInv, GivenOK
<1>2. CASE e.kind = "call"
  <2>1. PICK c \in Resolved(prog) : IsCall(prog, e, c)
    BY <1>1, <1>2, LinkForms
  <2>2. e.from = e.call /\ e.call \in Resolved(prog) /\ e.to = EntryOf(Callee(prog, e.call))
    BY <2>1 DEF IsCall
  <2>3. Callee(prog, e.call) \in DOMAIN prog /\ e.call \in CallSites(prog)
    BY <2>2 DEF Resolved
  <2>4. ~ IsEntry(e.from)
    <3> SUFFICES ASSUME IsEntry(e.from) PROVE FALSE
      OBVIOUS
    <3>1. ~ Listed(e.from)
      BY EntryUnlisted
    <3> QED
      BY <2>2, <3>1 DEF Listed
  <2>5. ~ IsExit(e.from)
    BY <1>1, <1>2, ExitEdges DEF IsExit
  <2> QED
    BY <1>2, <2>2, <2>3, <2>4, <2>5
<1>3. CASE e.kind = "return"
  <2>1. PICK c \in Resolved(prog) : IsReturn(prog, e, c)
    BY <1>1, <1>3, LinkForms
  <2>2. e.from = ExitOf(Callee(prog, c)) /\ e.to = ReturnPoint(prog, c)
        /\ c \in CallSites(prog) /\ Callee(prog, c) \in DOMAIN prog
    BY <2>1 DEF IsReturn, Resolved
  <2>3. IsExit(e.from) /\ ~ IsEntry(e.from)
    BY <2>2 DEF IsExit, IsEntry, ExitOf, EntryOf
  <2>4. PICK f \in DOMAIN prog : \E n \in DOMAIN prog[f].calls : c = <<f, n>>
    BY <2>2 DEF CallSites
  <2>5. PICK n \in DOMAIN prog[f].calls : c = <<f, n>>
    BY <2>4
  <2>6. PICK a \in prog[f].arcs : {b \in prog[f].arcs : b.from = n /\ b.kind # "impossible"} = {a}
    BY <1>1, <2>5, ProgramsAssumption
  <2> DEFINE r == CHOOSE x \in prog[c[1]].arcs : x.from = c[2] /\ x.kind # "impossible"
  <2>7. r \in prog[f].arcs
    BY <2>5, <2>6
  <2>8. ReturnPoint(prog, c) = <<f, r.to>>
    BY <2>5 DEF ReturnPoint
  <2> HIDE DEF r
  <2>9. r.to # 0
    BY <1>1, <2>7, ProgramsAssumption
  <2>10. e.to[2] # 0 /\ ~ IsEntry(e.to)
    BY <2>2, <2>8, <2>9 DEF IsEntry, EntryOf
  <2> QED
    BY <1>3, <2>3, <2>10
<1>4. CASE e.kind \notin {"call", "return"}
  <2>1. PICK f \in DOMAIN prog : \E a \in prog[f].arcs : e = ArcEdge(f, a)
    BY <1>1, <1>4, LinkForms
  <2>2. PICK a \in prog[f].arcs : e = ArcEdge(f, a)
    BY <2>1
  <2>3. e.to = <<f, a.to>> /\ a.to # 0
    BY <1>1, <2>2, ProgramsAssumption DEF ArcEdge
  <2>4. e.to[2] # 0 /\ ~ IsEntry(e.to)
    BY <2>3 DEF IsEntry, EntryOf
  <2>5. ~ IsExit(e.from)
    BY <1>1, <1>4, ExitEdges DEF IsExit
  <2> QED
    BY <1>4, <2>4, <2>5
<1> QED
  BY <1>2, <1>3, <1>4

-----------------------------------------------------------------------------
(* CallChain is the recursion TLC evaluates: it has a solution.            *)
ChainNext(v, was) ==
  CASE Unresolved(v) -> was
    [] Listed(v) /\ ~Unresolved(v) ->
         [was EXCEPT !.lines = Append(@, [at |-> v, indent |-> was.indent])]
    [] OTHER -> [was EXCEPT !.indent = IndentAfter(v, @)]
Blank == [indent |-> 0, lines |-> <<>>]
ChainOf(w, G, n) ==
  G = [i \in 0 .. n |-> IF i = 0 THEN Blank ELSE ChainNext(w[i].from, G[i - 1])]

LEMMA ChainsExist ==
  ASSUME NEW w
  PROVE  \A n \in Nat : \E G : ChainOf(w, G, n)
<1> SUFFICES ASSUME NEW k \in Nat, ~ \E G : ChainOf(w, G, k) PROVE FALSE
  OBVIOUS
<1> DEFINE bad == {n \in Nat : ~ \E G : ChainOf(w, G, n)}
<1>1. PICK n \in bad : \A m \in bad : n <= m
  <2>1. bad \in SUBSET Nat /\ bad # {}
    OBVIOUS
  <2> HIDE DEF bad
  <2> QED
    BY <2>1, Least
<1>2. n # 0
  <2> DEFINE Z == [i \in 0 .. 0 |-> Blank]
  <2>1. 0 .. 0 = {0}
    OBVIOUS
  <2>2. \A i \in 0 .. 0 : Z[i] = IF i = 0 THEN Blank ELSE ChainNext(w[i].from, Z[i - 1])
    BY <2>1
  <2>3. Z = [i \in 0 .. 0 |-> Z[i]]
    OBVIOUS
  <2> HIDE DEF Z
  <2>4. ChainOf(w, Z, 0)
    BY <2>2, <2>3 DEF ChainOf
  <2> QED
    BY <1>1, <2>4
<1>3. n \in Nat /\ n - 1 \in Nat /\ n - 1 \notin bad
  BY <1>1, <1>2
<1>4. PICK g : ChainOf(w, g, n - 1)
  BY <1>3
<1> DEFINE h == [i \in 0 .. n |-> IF i = n THEN ChainNext(w[n].from, g[n - 1]) ELSE g[i]]
<1>5. ASSUME NEW i \in 0 .. n
      PROVE  h[i] = IF i = 0 THEN Blank ELSE ChainNext(w[i].from, h[i - 1])
  <2>1. CASE i = 0
    <3>1. i # n /\ i \in 0 .. n - 1
      BY <1>2, <1>3, <2>1
    <3>2. h[i] = g[i]
      BY <3>1
    <3> HIDE DEF h
    <3> QED
      BY <1>4, <2>1, <3>1, <3>2 DEF ChainOf
  <2>2. CASE i # 0
    <3>1. i - 1 \in 0 .. n /\ i - 1 # n
      BY <1>3, <2>2
    <3>2. h[i - 1] = g[i - 1]
      BY <3>1
    <3>3. CASE i = n
      BY <2>2, <3>2, <3>3
    <3>4. CASE i # n
      <4>1. i \in 0 .. n - 1 /\ h[i] = g[i]
        BY <1>3, <3>4
      <4> HIDE DEF h
      <4>2. g[i] = ChainNext(w[i].from, g[i - 1])
        BY <1>4, <2>2, <4>1 DEF ChainOf
      <4> QED
        BY <2>2, <3>2, <4>1, <4>2
    <3> QED
      BY <3>3, <3>4
  <2> QED
    BY <2>1, <2>2
<1>6. h = [i \in 0 .. n |-> h[i]]
  OBVIOUS
<1> HIDE DEF h
<1>7. ChainOf(w, h, n)
  BY <1>5, <1>6 DEF ChainOf
<1> QED
  BY <1>1, <1>7

LEMMA CallChainIs ==
  ASSUME path \in Seq(EdgesOf(prog))
  PROVE  \E G : /\ G[0] = Blank
                /\ G[1] = ChainNext(EntryOf(source), Blank)
                /\ \A n \in 1 .. Len(path) : G[n + 1] = ChainNext(path[n].from, G[n])
                /\ CallChain = G[Len(path) + 1].lines
<1> DEFINE w == <<EntrySelfEdge(source)>> \o path
           x == EntrySelfEdge(source)
           T == EdgesOf(prog) \cup {x}
<1>1. <<x>> \in Seq(T) /\ path \in Seq(T) /\ Len(<<x>>) = 1 /\ <<x>>[1] = x
  BY SeqMonotonic
<1>2. PICK m \in Nat : m = Len(path)
  BY LenProperties
<1> HIDE DEF x, T
<1>3. /\ Len(<<x>> \o path) = 1 + m
      /\ \A i \in 1 .. 1 + m : (<<x>> \o path)[i] = IF i <= 1 THEN <<x>>[i] ELSE path[i - 1]
  BY <1>1, <1>2, ConcatProperties
<1>4. w = <<x>> \o path
  BY DEF x
<1> HIDE DEF w
<1>5. Len(w) = m + 1 /\ w[1] = x
  <2>1. 1 \in 1 .. 1 + m /\ 1 <= 1 /\ 1 + m = m + 1
    OBVIOUS
  <2> QED
    BY <1>1, <1>3, <1>4, <2>1
<1>6. ASSUME NEW n \in 1 .. m PROVE w[n + 1] = path[n]
  <2>1. n + 1 \in 1 .. 1 + m /\ ~ (n + 1 <= 1) /\ (n + 1) - 1 = n
    OBVIOUS
  <2>2. (<<x>> \o path)[n + 1] = path[(n + 1) - 1]
    BY <1>3, <2>1
  <2> QED
    BY <1>4, <2>1, <2>2
<1> DEFINE G == CHOOSE f : ChainOf(w, f, Len(w))
<1>7. CallChain = G[Len(w)].lines
  BY DEF CallChain, ChainOf, ChainNext, Blank, w
<1>8. ChainOf(w, G, Len(w))
  <2>1. \E f : ChainOf(w, f, Len(w))
    <3>1. Len(w) \in Nat
      BY <1>5
    <3> QED
      BY <3>1, ChainsExist
  <2> QED
    BY <2>1
<1> HIDE DEF G
<1>9. G = [i \in 0 .. m + 1 |-> IF i = 0 THEN Blank ELSE ChainNext(w[i].from, G[i - 1])]
  BY <1>5, <1>8 DEF ChainOf
<1>10. G[0] = Blank
  BY <1>9
<1>11. G[1] = ChainNext(EntryOf(source), Blank)
  <2>1. 1 \in 0 .. m + 1 /\ 1 - 1 = 0
    OBVIOUS
  <2>2. G[1] = ChainNext(w[1].from, G[0])
    BY <1>9, <2>1
  <2>3. x.from = EntryOf(source)
    BY DEF x, EntrySelfEdge
  <2> QED
    BY <1>5, <1>10, <2>2, <2>3
<1>12. ASSUME NEW n \in 1 .. m PROVE G[n + 1] = ChainNext(path[n].from, G[n])
  <2>1. n + 1 \in 0 .. m + 1 /\ (n + 1) - 1 = n /\ n + 1 # 0
    OBVIOUS
  <2>2. G[n + 1] = ChainNext(w[n + 1].from, G[(n + 1) - 1])
    BY <1>9, <2>1
  <2> QED
    BY <1>6, <2>1, <2>2
<1> QED
  BY <1>2, <1>5, <1>7, <1>10, <1>11, <1>12


(* What the chain holds after the first edges of a path with the stack s:  *)
(* of each activation but the source's, the line of its call, and below it *)
(* only lines indented further.                                            *)
ChainLine  == [at : VerticesOf(prog), indent : Int]
ChainState == [indent : Int, lines : Seq(ChainLine)]
LineOf(lines, v, k) ==
  \E j \in 1 .. Len(lines) : /\ lines[j] = [at |-> v, indent |-> k]
                             /\ \A i \in j + 1 .. Len(lines) : lines[i].indent > k
Shown(p, s, lines) == \A k \in 2 .. Len(s) : LineOf(lines, p[s[k] - 1].call, k)
ChainGood(g, p, s, n) ==
  /\ g \in ChainState
  /\ g.indent = IF IsEntry(At(source, p, n)) THEN Len(s) ELSE Len(s) + 1
  /\ Shown(p, s, g.lines)

LEMMA LineStays ==
  ASSUME NEW lines \in Seq(ChainLine), NEW x \in ChainLine, NEW v, NEW k \in Int,
         LineOf(lines, v, k), x.indent > k
  PROVE  LineOf(Append(lines, x), v, k)
<1> DEFINE a == Append(lines, x)
<1>1. PICK m \in Nat : m = Len(lines)
  BY LenProperties
<1>2. Len(a) = m + 1 /\ a[m + 1] = x /\ \A n \in 1 .. m : a[n] = lines[n]
  BY <1>1, AppendSeq
<1>3. PICK j \in 1 .. m : /\ lines[j] = [at |-> v, indent |-> k]
                          /\ \A i \in j + 1 .. m : lines[i].indent > k
  BY <1>1 DEF LineOf
<1> HIDE DEF a
<1>4. j \in 1 .. Len(a) /\ a[j] = [at |-> v, indent |-> k]
  BY <1>2, <1>3
<1>5. ASSUME NEW i \in j + 1 .. Len(a) PROVE a[i].indent > k
  <2>1. CASE i = m + 1
    BY <1>2, <2>1
  <2>2. CASE i # m + 1
    <3>1. i \in j + 1 .. m /\ i \in 1 .. m
      BY <1>2, <2>2
    <3> QED
      BY <1>2, <1>3, <3>1
  <2> QED
    BY <2>1, <2>2
<1> QED
  BY <1>4, <1>5 DEF LineOf, a

LEMMA LineComes ==
  ASSUME NEW lines \in Seq(ChainLine), NEW v, NEW k, [at |-> v, indent |-> k] \in ChainLine
  PROVE  LineOf(Append(lines, [at |-> v, indent |-> k]), v, k)
<1> DEFINE x == [at |-> v, indent |-> k]
           a == Append(lines, x)
<1>1. PICK m \in Nat : m = Len(lines)
  BY LenProperties
<1>2. Len(a) = m + 1 /\ a[m + 1] = x
  <2> HIDE DEF x
  <2> QED
    BY <1>1, AppendSeq DEF x
<1> HIDE DEF a
<1>3. m + 1 \in 1 .. Len(a) /\ \A i \in (m + 1) + 1 .. Len(a) : FALSE
  BY <1>2
<1> QED
  BY <1>2, <1>3 DEF LineOf, a

LEMMA ChainSteps ==
  ASSUME SearchInv, NEW v \in VerticesOf(prog), NEW was \in ChainState
  PROVE  /\ IsEntry(v) => ChainNext(v, was) = [indent |-> was.indent + 1, lines |-> was.lines]
         /\ IsExit(v)  => ChainNext(v, was) = [indent |-> was.indent - 1, lines |-> was.lines]
         /\ ~ IsEntry(v) /\ ~ IsExit(v) =>
              \/ ChainNext(v, was) = was /\ v \notin Resolved(prog)
              \/ ChainNext(v, was) =
                   [indent |-> was.indent,
                    lines  |-> Append(was.lines, [at |-> v, indent |-> was.indent])]
<1>1. /\ was.indent \in Int /\ was = [indent |-> was.indent, lines |-> was.lines]
  BY DEF ChainState
<1>2. ASSUME NEW n
      PROVE  [was EXCEPT !.indent = n] = [indent |-> n, lines |-> was.lines]
  BY DEF ChainState
<1>3. ASSUME NEW l
      PROVE  [was EXCEPT !.lines = l] = [indent |-> was.indent, lines |-> l]
  BY DEF ChainState
<1>4. ASSUME ~ Unresolved(v), ~ Listed(v)
      PROVE  ChainNext(v, was) = [indent |-> IndentAfter(v, was.indent), lines |-> was.lines]
  <2>1. ChainNext(v, was) = [was EXCEPT !.indent = IndentAfter(v, was.indent)]
    BY <1>4 DEF ChainNext
  <2> QED
    BY <1>2, <2>1
<1>5. CASE IsEntry(v)
  <2>1. ~ IsExit(v)
    BY <1>5 DEF IsEntry, IsExit, EntryOf, ExitOf
  <2>2. ~ Unresolved(v) /\ ~ Listed(v) /\ IndentAfter(v, was.indent) = was.indent + 1
    BY <1>1, <1>5, EntryUnlisted
  <2> QED
    BY <1>4, <1>5, <2>1, <2>2
<1>6. CASE IsExit(v)
  <2>1. ~ IsEntry(v)
    BY <1>6 DEF IsEntry, IsExit, EntryOf, ExitOf
  <2>2. ~ Unresolved(v) /\ ~ Listed(v) /\ IndentAfter(v, was.indent) = was.indent - 1
    BY <1>1, <1>6, ExitUnlisted
  <2> QED
    BY <1>4, <1>6, <2>1, <2>2
<1>7. CASE ~ IsEntry(v) /\ ~ IsExit(v)
  <2>1. CASE Unresolved(v)
    BY <1>7, <2>1 DEF ChainNext, Unresolved
  <2>2. CASE ~ Unresolved(v) /\ Listed(v)
    <3>1. ChainNext(v, was) =
            [was EXCEPT !.lines = Append(was.lines, [at |-> v, indent |-> was.indent])]
      BY <2>2 DEF ChainNext
    <3> QED
      BY <1>3, <1>7, <3>1
  <2>3. CASE ~ Unresolved(v) /\ ~ Listed(v)
    <3>1. IndentAfter(v, was.indent) = was.indent
      BY <1>7 DEF IndentAfter, IsEntry, IsExit
    <3>2. ChainNext(v, was) = was
      BY <1>1, <1>4, <2>3, <3>1
    <3> QED
      BY <1>7, <2>3, <3>2 DEF Listed
  <2> QED
    BY <2>1, <2>2, <2>3
<1> QED
  BY <1>5, <1>6, <1>7

(* One step of the path, one step of the chain.                            *)
LEMMA ChainGoes ==
  ASSUME SearchInv, NEW O, OpenPath(prog, source, path, O), NEW n \in 1 .. Len(path),
         NEW g, ChainGood(g, path, O[n - 1], n - 1)
  PROVE  ChainGood(ChainNext(path[n].from, g), path, O[n], n)
<1> DEFINE e == path[n]
           v == path[n].from
           s == O[n - 1]
           h == ChainNext(path[n].from, g)
           x == [at |-> path[n].from, indent |-> g.indent]
<1>1. prog \in Programs /\ edges = EdgesOf(prog)
  BY DEF SearchInv, GivenOK
<1>2. /\ n \in Nat \ {0} /\ n \in 0 .. Len(path) /\ n - 1 \in 0 .. Len(path) /\ (n + 1) - 1 = n
      /\ n # 0
  BY LenProperties DEF OpenPath
<1>3. /\ e \in edges /\ v = At(source, path, n - 1) /\ OpenStep(path, O, n)
      /\ At(source, path, n) = e.to
  BY <1>1, <1>2, ElementOfSeq DEF OpenPath, At
<1>4. StackAt(prog, source, path, s, n - 1)
  BY <1>2 DEF OpenPath
<1>5. s \in Seq(Nat) /\ s # <<>>
  BY <1>2, <1>4, SeqMonotonic DEF StackAt
<1>6. PICK l \in Nat \ {0} : l = Len(s)
  BY <1>5, LastInSeq
<1>7. v \in VerticesOf(prog)
  BY <1>1, <1>3, EdgeFacts
<1>8. /\ g \in ChainState /\ g.indent = (IF IsEntry(v) THEN l ELSE l + 1)
      /\ \A k \in 2 .. l : LineOf(g.lines, path[s[k] - 1].call, k)
  BY <1>3, <1>6 DEF ChainGood, Shown
<1>9. g.indent \in Int /\ g.lines \in Seq(ChainLine)
  BY <1>8 DEF ChainState
<1>10. /\ IsEntry(v) => h = [indent |-> g.indent + 1, lines |-> g.lines]
       /\ IsExit(v)  => h = [indent |-> g.indent - 1, lines |-> g.lines]
       /\ ~ IsEntry(v) /\ ~ IsExit(v) =>
            \/ h = g /\ v \notin Resolved(prog)
            \/ h = [indent |-> g.indent, lines  |-> Append(g.lines, x)]
  BY <1>7, <1>8, ChainSteps
<1>11. x \in ChainLine
  BY <1>7, <1>9 DEF ChainLine
<1>12. Append(g.lines, x) \in Seq(ChainLine)
  BY <1>9, <1>11
<1>13. \A r \in Seq(ChainLine), i \in Int : [indent |-> i, lines |-> r] \in ChainState
  BY DEF ChainState
<1>14. \A i, r : [indent |-> i, lines |-> r].indent = i /\ [indent |-> i, lines |-> r].lines = r
  OBVIOUS
<1>15. /\ e.kind = "call" => /\ v = e.call /\ e.call \in Resolved(prog)
                             /\ e.to = EntryOf(Callee(prog, e.call))
                             /\ Callee(prog, e.call) \in DOMAIN prog
       /\ e.kind = "return" => IsExit(v)
       /\ IsExit(v) => e.kind = "return"
       /\ IsEntry(v) => e.kind \notin {"call", "return"}
       /\ e.kind # "call" => ~ IsEntry(e.to)
  BY <1>3, EdgeEnds
<1>16. ~ (IsEntry(v) /\ IsExit(v))
  BY DEF IsEntry, IsExit, EntryOf, ExitOf
<1>17. x.indent = g.indent
  OBVIOUS
<1> HIDE DEF e, v, s, h, x
<1>18. CASE IsEntry(v)
  <2>1. e.kind \notin {"call", "return"} /\ O[n] = s
    BY <1>3, <1>15, <1>18 DEF OpenStep, e, s
  <2>2. h = [indent |-> l + 1, lines |-> g.lines]
    BY <1>8, <1>10, <1>18
  <2>3. h \in ChainState /\ h.indent = l + 1 /\ h.lines = g.lines
    BY <1>9, <1>13, <1>14, <2>2
  <2> QED
    BY <1>3, <1>6, <1>8, <1>15, <2>1, <2>3 DEF ChainGood, Shown, h, v
<1>19. CASE IsExit(v)
  <2>1. e.kind = "return" /\ O[n] = Front(s)
    BY <1>3, <1>15, <1>19 DEF OpenStep, e, s
  <2>2. h = [indent |-> l, lines |-> g.lines]
    <3>1. g.indent - 1 = l
      BY <1>8, <1>16, <1>19
    <3> QED
      BY <1>10, <1>19, <3>1
  <2>3. h \in ChainState /\ h.indent = l /\ h.lines = g.lines
    BY <1>9, <1>13, <1>14, <2>2
  <2>4. Len(O[n]) = l - 1 /\ \A k \in 1 .. l - 1 : O[n][k] = s[k]
    BY <1>5, <1>6, <2>1, FrontSeq
  <2>5. h.indent = Len(O[n]) + 1
    BY <2>3, <2>4
  <2>6. ASSUME NEW k \in 2 .. Len(O[n]) PROVE LineOf(h.lines, path[O[n][k] - 1].call, k)
    <3>1. k \in 2 .. l /\ k \in 1 .. l - 1
      BY <2>4
    <3> QED
      BY <1>8, <2>3, <2>4, <3>1
  <2>7. ~ IsEntry(At(source, path, n))
    BY <1>3, <1>15, <2>1
  <2> QED
    BY <2>3, <2>5, <2>6, <2>7 DEF ChainGood, Shown, h, v
<1>20. CASE ~ IsEntry(v) /\ ~ IsExit(v)
  <2>1. g.indent = l + 1
    BY <1>8, <1>20
  <2>2. ASSUME NEW k \in 2 .. l PROVE LineOf(Append(g.lines, x), path[s[k] - 1].call, k)
    <3>1. x.indent > k /\ k \in Int
      BY <1>17, <2>1
    <3>2. LineOf(g.lines, path[s[k] - 1].call, k)
      BY <1>8
    <3> HIDE DEF x
    <3> QED
      BY <1>9, <1>11, <3>1, <3>2, LineStays
  <2>3. h \in ChainState /\ h.indent = l + 1
    BY <1>8, <1>9, <1>10, <1>12, <1>13, <1>14, <1>20, <2>1
  <2>4. h.lines = g.lines \/ h.lines = Append(g.lines, x)
    BY <1>10, <1>14, <1>20
  <2>5. ASSUME NEW k \in 2 .. l PROVE LineOf(h.lines, path[s[k] - 1].call, k)
    BY <1>8, <2>2, <2>4
  <2>6. CASE e.kind = "call"
    <3>1. O[n] = Append(s, n + 1)
      BY <1>3, <2>6 DEF OpenStep, e, s
    <3>2. /\ Len(O[n]) = l + 1 /\ O[n][l + 1] = n + 1
          /\ \A k \in 1 .. l : O[n][k] = s[k]
      BY <1>2, <1>5, <1>6, <3>1, AppendSeq
    <3>3. h.lines = Append(g.lines, x) /\ v = e.call
      BY <1>10, <1>14, <1>15, <1>20, <2>6
    <3>4. x = [at |-> e.call, indent |-> l + 1]
      BY <2>1, <3>3 DEF x, v
    <3>5. LineOf(h.lines, e.call, l + 1)
      BY <1>9, <1>11, <3>3, <3>4, LineComes
    <3>6. ASSUME NEW k \in 2 .. l + 1 PROVE LineOf(h.lines, path[O[n][k] - 1].call, k)
      <4>1. CASE k = l + 1
        BY <1>2, <3>2, <3>5, <4>1 DEF e
      <4>2. CASE k # l + 1
        <5>1. k \in 2 .. l /\ k \in 1 .. l
          BY <4>2
        <5> QED
          BY <2>5, <3>2, <5>1
      <4> QED
        BY <4>1, <4>2
    <3>7. IsEntry(At(source, path, n))
      BY <1>3, <1>15, <2>6 DEF IsEntry
    <3> QED
      BY <2>3, <3>2, <3>6, <3>7 DEF ChainGood, Shown, h, v
  <2>7. CASE e.kind # "call"
    <3>1. O[n] = s
      BY <1>3, <1>15, <1>20, <2>7 DEF OpenStep, e, s
    <3>2. ~ IsEntry(At(source, path, n))
      BY <1>3, <1>15, <2>7
    <3> QED
      BY <1>6, <2>3, <2>5, <3>1, <3>2 DEF ChainGood, Shown, h, v
  <2> QED
    BY <2>6, <2>7
<1> QED
  BY <1>18, <1>19, <1>20


(* The source is a function of the program, which no step changes.         *)
SourceThere == source \in DOMAIN prog

LEMMA SourceIsThere == Spec => []SourceThere
<1>1. Init => SourceThere
  BY DEF Init, SourceThere
<1>2. SourceThere /\ [Next]_vars => SourceThere'
  <2> SUFFICES ASSUME SourceThere, [Next]_vars PROVE SourceThere'
    OBVIOUS
  <2>1. source' = source /\ prog' = prog
    BY DEF Next, Walk, Skip, Discover, AlreadyColored, Finish, Reported, given, vars
  <2> QED
    BY <2>1 DEF SourceThere
<1> QED
  BY <1>1, <1>2, PTL DEF Spec

LEMMA ChainIsGood ==
  ASSUME SearchInv, SourceThere, NEW O, OpenPath(prog, source, path, O), NEW G,
         G[0] = Blank, G[1] = ChainNext(EntryOf(source), Blank),
         \A n \in 1 .. Len(path) : G[n + 1] = ChainNext(path[n].from, G[n])
  PROVE  \A n \in 0 .. Len(path) : ChainGood(G[n + 1], path, O[n], n)
<1> DEFINE good(n) == ChainGood(G[n + 1], path, O[n], n)
           bad == {n \in 0 .. Len(path) : ~ good(n)}
<1>1. Len(path) \in Nat
  BY LenProperties DEF OpenPath
<1>2. good(0)
  <2>1. source \in DOMAIN prog
    BY DEF SourceThere
  <2>2. EntryOf(source) \in VerticesOf(prog) /\ IsEntry(EntryOf(source))
    BY <2>1 DEF VerticesOf, IsEntry
  <2>3. Blank \in ChainState /\ Blank.indent = 0 /\ Blank.lines = <<>>
    BY DEF Blank, ChainState
  <2>4. G[1] = [indent |-> 0 + 1, lines |-> <<>>]
    BY <2>2, <2>3, ChainSteps
  <2>5. G[1] \in ChainState /\ G[1].indent = 1
    BY <2>4 DEF ChainState
  <2>6. O[0] = <<1>> /\ Len(<<1>>) = 1 /\ 2 .. 1 = {} /\ 0 + 1 = 1
    BY DEF OpenPath
  <2>7. At(source, path, 0) = EntryOf(source)
    BY DEF At
  <2> QED
    BY <2>2, <2>5, <2>6, <2>7 DEF ChainGood, Shown
<1>3. ASSUME NEW n \in 1 .. Len(path), good(n - 1) PROVE good(n)
  <2>1. (n - 1) + 1 = n
    OBVIOUS
  <2>2. ChainGood(G[n], path, O[n - 1], n - 1)
    BY <1>3, <2>1
  <2>3. ChainGood(ChainNext(path[n].from, G[n]), path, O[n], n)
    BY <2>2, ChainGoes
  <2> QED
    BY <2>3
<1> HIDE DEF good
<1> SUFFICES ASSUME bad # {} PROVE FALSE
  BY DEF good
<1>4. PICK n \in bad : \A m \in bad : n <= m
  <2>1. bad \in SUBSET Nat
    BY <1>1
  <2> HIDE DEF bad
  <2> QED
    BY <2>1, Least
<1>5. n \in 0 .. Len(path) /\ ~ good(n)
  BY <1>4
<1>6. n # 0
  BY <1>2, <1>5
<1>7. n \in 1 .. Len(path) /\ n - 1 \in 0 .. Len(path) /\ n - 1 < n
  BY <1>1, <1>5, <1>6
<1>8. n - 1 \notin bad
  BY <1>4, <1>7
<1>9. good(n - 1)
  BY <1>7, <1>8
<1> QED
  BY <1>3, <1>5, <1>7, <1>9

(* The chain printed for a violation leads from the source to the sink.    *)
LEMMA FoundChainShows == SearchInv /\ SourceThere /\ StoryInv => ChainShowsCallers
<1> SUFFICES ASSUME SearchInv, SourceThere, StoryInv, verdict = "violation"
             PROVE  LET open  == OpenCalls(path)
                        chain == CallChain
                    IN  /\ open # <<>> /\ Callee(prog, Last(open)) = sink
                        /\ \A n \in DOMAIN open : \E k \in DOMAIN chain :
                             /\ chain[k] = [at |-> open[n], indent |-> n + 1]
                             /\ \A m \in k + 1 .. Len(chain) : chain[m].indent > n + 1
                        /\ Last(chain).at = Last(open)
  BY DEF ChainShowsCallers
<1> DEFINE open  == OpenCalls(path)
           chain == CallChain
<1>1. prog \in Programs /\ edges = EdgesOf(prog)
  BY DEF SearchInv, GivenOK
<1>2. path # <<>> /\ Last(path).to = EntryOf(sink) /\ \E O : OpenPath(prog, source, path, O)
  BY DEF StoryInv, PathFound
<1>3. PICK O : OpenPath(prog, source, path, O)
  BY <1>2
<1>4. path \in Seq(EdgesOf(prog))
  BY <1>3 DEF OpenPath
<1>5. PICK m \in Nat \ {0} : m = Len(path)
  BY <1>2, <1>4, LastInSeq
<1>6. PICK G : /\ G[0] = Blank
               /\ G[1] = ChainNext(EntryOf(source), Blank)
               /\ \A n \in 1 .. Len(path) : G[n + 1] = ChainNext(path[n].from, G[n])
               /\ chain = G[Len(path) + 1].lines
  BY <1>4, CallChainIs
<1>7. \A n \in 0 .. m : ChainGood(G[n + 1], path, O[n], n)
  BY <1>3, <1>5, <1>6, ChainIsGood
<1> DEFINE e == path[m]
           v == path[m].from
           s == O[m]
           g == G[m]
<1>8. m \in 0 .. m /\ m \in 1 .. m /\ m - 1 \in 0 .. m /\ (m - 1) + 1 = m /\ (m + 1) - 1 = m
  OBVIOUS
<1>9. Last(path) = e /\ e \in edges /\ v \in VerticesOf(prog)
  BY <1>1, <1>4, <1>5, <1>8, ElementOfSeq, EdgeFacts DEF Last
<1>10. e.kind = "call" /\ Callee(prog, e.call) = sink /\ e.call \in Resolved(prog) /\ v = e.call
  <2>1. e.to = <<sink, 0>>
    BY <1>2, <1>9 DEF EntryOf
  <2>2. e.to[2] = 0
    BY <2>1
  <2>3. e.kind = "call"
    BY <1>9, <2>2, EdgeEnds
  <2>4. e.to = EntryOf(Callee(prog, e.call)) /\ e.call \in Resolved(prog) /\ v = e.call
    BY <1>9, <2>3, EdgeEnds
  <2> QED
    BY <2>1, <2>3, <2>4 DEF EntryOf
<1>11. s = Append(O[m - 1], m + 1)
  <2>1. OpenStep(path, O, m)
    BY <1>3, <1>5, <1>8 DEF OpenPath
  <2> QED
    BY <1>10, <2>1 DEF OpenStep
<1>12. PICK l \in Nat \ {0} : /\ Len(s) = l + 1 /\ s[l + 1] = m + 1
  <2>1. StackAt(prog, source, path, O[m - 1], m - 1)
    BY <1>3, <1>5, <1>8 DEF OpenPath
  <2>2. O[m - 1] \in Seq(Nat) /\ O[m - 1] # <<>>
    BY <1>8, <2>1, SeqMonotonic DEF StackAt
  <2>3. Len(O[m - 1]) \in Nat \ {0}
    BY <2>2, LastInSeq
  <2>4. PICK l \in Nat \ {0} : l = Len(O[m - 1])
    BY <2>3
  <2> DEFINE r == O[m - 1]
  <2>5. s = Append(r, m + 1) /\ r \in Seq(Nat) /\ Len(r) = l /\ m + 1 \in Nat
    BY <1>11, <2>2, <2>4
  <2> HIDE DEF r, s
  <2>6. Len(s) = l + 1 /\ s[l + 1] = m + 1
    BY <2>5, AppendSeq
  <2> QED
    BY <2>6
<1>13. open = CallsOf(path, s)
  BY <1>1, <1>3, <1>5, OpenCallsAre
<1>14. /\ open \in Seq(CallSites(prog)) /\ Len(open) = l
       /\ \A k \in 1 .. l : open[k] = path[s[k + 1] - 1].call
  <2>1. CallsKept(prog, path, s, m)
    BY <1>1, <1>3, <1>5, <1>8, CallsOfFacts
  <2>2. (l + 1) - 1 = l
    OBVIOUS
  <2> QED
    BY <1>12, <1>13, <2>1, <2>2 DEF CallsKept
<1>15. ChainGood(G[m + 1], path, s, m)
  BY <1>7, <1>8
<1>16. chain = G[m + 1].lines /\ G[m + 1] = ChainNext(v, g)
  BY <1>5, <1>6, <1>8
<1>17. ChainGood(g, path, O[m - 1], m - 1)
  <2>1. ChainGood(G[(m - 1) + 1], path, O[m - 1], m - 1)
    BY <1>7, <1>8
  <2> QED
    BY <1>8, <2>1
<1> HIDE DEF open, chain, e, v, s, g
<1>18. open # <<>> /\ Last(open) = e.call
  <2>1. l \in 1 .. l
    OBVIOUS
  <2>2. open[l] = e.call
    BY <1>8, <1>12, <1>14, <2>1 DEF e
  <2> QED
    BY <1>14, <2>2 DEF Last
<1>19. g \in ChainState /\ g.indent \in Int /\ g.lines \in Seq(ChainLine)
  BY <1>17 DEF ChainGood, ChainState
<1>20. chain = Append(g.lines, [at |-> v, indent |-> g.indent])
  <2>1. ~ IsEntry(v) /\ ~ IsExit(v)
    BY <1>9, <1>10, EdgeEnds DEF e, v
  <2>2. ChainNext(v, g) = [indent |-> g.indent,
                           lines  |-> Append(g.lines, [at |-> v, indent |-> g.indent])]
    BY <1>9, <1>10, <1>19, <2>1, ChainSteps
  <2> QED
    BY <1>16, <2>2
<1>21. Last(chain).at = e.call
  <2> DEFINE x == [at |-> v, indent |-> g.indent]
  <2>1. x \in ChainLine /\ x.at = v
    BY <1>9, <1>19 DEF ChainLine
  <2> HIDE DEF x
  <2>2. chain = Append(g.lines, x)
    BY <1>20 DEF x
  <2>3. Len(chain) = Len(g.lines) + 1 /\ chain[Len(g.lines) + 1] = x
    BY <1>19, <2>1, <2>2, AppendSeq
  <2> QED
    BY <1>10, <2>1, <2>3 DEF Last
<1>22. DOMAIN open = 1 .. l
  BY <1>14
<1>23. DOMAIN chain = 1 .. Len(chain)
  <2>1. chain \in Seq(ChainLine)
    BY <1>15, <1>16 DEF ChainGood, ChainState
  <2> QED
    BY <2>1
<1>24. ASSUME NEW n \in DOMAIN open
       PROVE  \E k \in DOMAIN chain :
                /\ chain[k] = [at |-> open[n], indent |-> n + 1]
                /\ \A i \in k + 1 .. Len(chain) : chain[i].indent > n + 1
  <2>1. PICK k \in 2 .. Len(s) : k = n + 1
    BY <1>12, <1>22
  <2>2. LineOf(chain, path[s[k] - 1].call, k)
    BY <1>15, <1>16 DEF ChainGood, Shown
  <2>3. open[n] = path[s[k] - 1].call
    BY <1>14, <1>22, <2>1
  <2>4. LineOf(chain, open[n], n + 1)
    BY <2>1, <2>2, <2>3
  <2> QED
    BY <1>23, <2>4 DEF LineOf
<1> QED
  BY <1>10, <1>18, <1>21, <1>24 DEF open, chain

(* The chain printed for a violation names, line under line, the calls     *)
(* that lead from the source to the sink, and ends at the sink's: the     *)
(* way out of a call that has returned undoes its indent, whatever lies    *)
(* between.                                                                *)
THEOREM ChainsShowCallers == Spec => []ChainShowsCallers
  BY FoundChainShows, SearchInvariant, SourceIsThere, StoryInvariant, PTL
=============================================================================
