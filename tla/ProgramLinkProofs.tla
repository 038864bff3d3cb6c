------------------------- MODULE ProgramLinkProofs -------------------------
(***************************************************************************)
(* Proofs about Function::Link, for every program and every order of       *)
(* files, functions and vertices.                                          *)
(*                                                                         *)
(* The argument: which calls have been replaced can be read off the        *)
(* control state, and they alone determine which vertices the graphs hold, *)
(* which edges there are and where each of them starts and ends.  That     *)
(* this is so is the inductive invariant; the properties follow from it    *)
(* without looking at another step.  What a call of the graph container    *)
(* does is taken from the lemmas of CfgGraphProofs.                        *)
(***************************************************************************)
EXTENDS ProgramLink, FiniteSetTheorems, SequenceTheorems, WellFoundedInduction, TLAPS

(* The container's lemmas, which speak of any heap; its own variables play *)
(* no part.                                                                *)
Graph == INSTANCE CfgGraphProofs
  WITH GraphId <- Functions, Vertex <- Objects, Edge <- EdgeObjects, NULL <- Null,
       MaxId <- 0, thrown <- "none"

-----------------------------------------------------------------------------
(* The inductive invariant.                                                *)

Listed(s) == {s[n] : n \in DOMAIN s}
Once(s)   == \A m, n \in DOMAIN s : s[m] = s[n] => m = n

(* The calls listed for the second pass and not replaced yet.              *)
Waiting == Listed(pairs)

(* The calls that have been replaced, from the control state.              *)
Replaced ==
  {c \in Resolved(prog) : c[1] \notin left /\ c \notin unseen /\ c \notin Waiting}

(* The object at a number, once the calls in R have been replaced.         *)
Object(R, v) == IF v \in R THEN ResolvedAt(v) ELSE Parsed(v)

(* The numbers an edge joins, whatever their objects.                      *)
FromOf(e) ==
  IF e.kind = "call" THEN e.call
  ELSE IF e.kind = "return" THEN ExitOf(Callee(prog, e.call)) ELSE e.from
ToOf(e) ==
  IF e.kind = "call" THEN EntryOf(Callee(prog, e.call))
  ELSE IF e.kind = "return" THEN ReturnPoint(prog, e.call) ELSE e.to

VerticesIn(f) == {v \in VerticesOf(prog) : v[1] = f}

(* A heap in which the calls in R have been replaced.                      *)
Layout(h, R) ==
  /\ \A f \in Functions : h.verts[f] = {Object(R, v) : v \in VerticesIn(f)}
  /\ \A e \in PlacedEdges(h) : /\ h.src[e] = Object(R, FromOf(e))
                               /\ h.tgt[e] = Object(R, ToOf(e))

EdgesFor(R) ==
  OwnEdges(prog) \cup {CallEdge(c) : c \in R} \cup {ReturnEdge(c) : c \in R}

(* What the passes have yet to do.                                         *)
Progress ==
  /\ prog \in Programs
  /\ left \subseteq DOMAIN prog /\ current \in DOMAIN prog \cup {""} /\ current \notin left
  /\ unseen \subseteq CallSites(prog) /\ pairs \in Seq(Resolved(prog))
  /\ current = "" => unseen = {} /\ pairs = <<>>
  /\ \A c \in unseen : c[1] = current
  /\ \A c \in Waiting : c[1] = current /\ c \notin unseen
  /\ Once(pairs)
  /\ unresolved =
       {c \in CallSites(prog) \ Resolved(prog) : c[1] \notin left /\ c \notin unseen}

LinkInv ==
  /\ Progress
  /\ Graph!Good(heap)
  /\ Layout(heap, Replaced)
  /\ PlacedEdges(heap) = EdgesFor(Replaced)

-----------------------------------------------------------------------------
(* Objects.                                                                *)

LEMMA NullApart == Null \notin Objects
<1>1. \A at : Parsed(at).class # Null.class /\ ResolvedAt(at).class # Null.class
  BY DEF Null, Parsed, ResolvedAt
<1> QED
  BY <1>1, Zenon DEF Objects

LEMMA ObjectsApart ==
  ASSUME NEW v, NEW w
  PROVE  /\ Parsed(v) = Parsed(w) <=> v = w
         /\ ResolvedAt(v) = ResolvedAt(w) <=> v = w
         /\ Parsed(v) # ResolvedAt(w)
         /\ Parsed(v).at = v /\ ResolvedAt(v).at = v
         /\ Parsed(v).class = "parsed"
         /\ ResolvedAt(v).class = "FunctionCallResolved"
  BY DEF Parsed, ResolvedAt

LEMMA ObjectFacts ==
  ASSUME NEW R, NEW v, NEW w
  PROVE  /\ Object(R, v).at = v
         /\ Object(R, v) = Object(R, w) <=> v = w
  BY ObjectsApart DEF Object

(* Every statement of the program being linked has its objects.            *)
LEMMA ObjectsThere ==
  ASSUME prog \in Programs, NEW R \in SUBSET Resolved(prog), NEW v \in VerticesOf(prog)
  PROVE  Object(R, v) \in Objects
<1> DEFINE here == {Parsed(w) : w \in VerticesOf(prog)} \cup {ResolvedAt(c) : c \in Resolved(prog)}
<1>1. Object(R, v) \in here
  BY DEF Object
<1>2. here \subseteq Objects
  BY Zenon DEF Objects
<1> QED
  BY <1>1, <1>2

LEMMA FunctionsThere ==
  ASSUME prog \in Programs
  PROVE  DOMAIN prog \subseteq Functions
  BY DEF Functions

-----------------------------------------------------------------------------
(* Programs.                                                               *)

LEMMA CallFacts ==
  ASSUME NEW p \in Programs, NEW c \in CallSites(p)
  PROVE  /\ c[1] \in DOMAIN p /\ c[2] \in DOMAIN p[c[1]].calls /\ c = <<c[1], c[2]>>
         /\ \A f : c # EntryOf(f) /\ c # ExitOf(f)
         /\ \E a \in p[c[1]].arcs :
              {b \in p[c[1]].arcs : b.from = c[2] /\ b.kind # "impossible"} = {a}
<1>0. PICK f \in DOMAIN p : \E n \in DOMAIN p[f].calls : c = <<f, n>>
  BY DEF CallSites
<1>1. PICK n \in DOMAIN p[f].calls : c = <<f, n>>
  BY <1>0
<1>2. n \in Nat \ {0, 1}
  BY ProgramsAssumption
<1>3. \A g : c # EntryOf(g) /\ c # ExitOf(g)
  BY <1>1, <1>2 DEF EntryOf, ExitOf
<1>4. \E a \in p[f].arcs : {b \in p[f].arcs : b.from = n /\ b.kind # "impossible"} = {a}
  BY ProgramsAssumption
<1>5. c[1] = f /\ c[2] = n
  BY <1>1
<1> QED
  BY <1>1, <1>3, <1>4, <1>5

LEMMA EdgeEnds ==
  ASSUME NEW p, NEW e \in EdgesOf(p)
  PROVE  e.from \in VerticesOf(p) /\ e.to \in VerticesOf(p)
  BY DEF VerticesOf

(* A call's one edge to go on by leads to where it returns to.             *)
LEMMA ReturnPointFacts ==
  ASSUME NEW p \in Programs, NEW c \in CallSites(p)
  PROVE  /\ c \in VerticesOf(p) /\ ReturnPoint(p, c) \in VerticesOf(p)
         /\ \A e \in OwnEdges(p) :
              e.from = c /\ e.kind # "impossible" => e.to = ReturnPoint(p, c)
<1> DEFINE f == c[1]
           n == c[2]
           a == CHOOSE x \in p[f].arcs : x.from = n /\ x.kind # "impossible"
           e == [from |-> <<f, a.from>>, to |-> <<f, a.to>>, kind |-> a.kind, call |-> NoCall]
<1>1. f \in DOMAIN p /\ c = <<f, n>>
  BY CallFacts
<1>2. PICK b \in p[f].arcs : {x \in p[f].arcs : x.from = n /\ x.kind # "impossible"} = {b}
  BY CallFacts
<1>3. a \in p[f].arcs /\ a.from = n /\ a.kind # "impossible"
  BY <1>2
<1>4. ReturnPoint(p, c) = <<f, a.to>>
  BY DEF ReturnPoint
<1> HIDE DEF a
<1>5. e \in OwnEdges(p) /\ e.from = c /\ e.to = ReturnPoint(p, c)
  <2>1. e \in {[from |-> <<f, x.from>>, to |-> <<f, x.to>>, kind |-> x.kind, call |-> NoCall]
                 : x \in p[f].arcs}
    BY <1>3, Zenon
  <2>2. e \in OwnEdges(p)
    BY <1>1, <2>1, Zenon DEF OwnEdges
  <2> QED
    BY <1>1, <1>3, <1>4, <2>2
<1>6. c \in VerticesOf(p) /\ ReturnPoint(p, c) \in VerticesOf(p)
  BY <1>5, EdgeEnds DEF EdgesOf
<1>7. ASSUME NEW d \in OwnEdges(p), d.from = c, d.kind # "impossible"
      PROVE  d.to = ReturnPoint(p, c)
  <2>0. PICK g \in DOMAIN p : \E x \in p[g].arcs :
          d = [from |-> <<g, x.from>>, to |-> <<g, x.to>>, kind |-> x.kind, call |-> NoCall]
    BY DEF OwnEdges
  <2>1. PICK x \in p[g].arcs :
          d = [from |-> <<g, x.from>>, to |-> <<g, x.to>>, kind |-> x.kind, call |-> NoCall]
    BY <2>0
  <2>2. g = f /\ x.from = n /\ x.kind # "impossible"
    BY <1>1, <1>7, <2>1
  <2>3. x = a
    BY <1>2, <1>3, <2>1, <2>2
  <2> QED
    BY <1>4, <2>1, <2>2, <2>3
<1> QED
  BY <1>6, <1>7

(* The edges of the functions themselves.                                  *)
LEMMA OwnEdgeFacts ==
  ASSUME NEW p \in Programs, NEW e \in OwnEdges(p)
  PROVE  /\ e.kind \in ArcKind
         /\ e = [from |-> e.from, to |-> e.to, kind |-> e.kind, call |-> NoCall]
         /\ e.from \in VerticesOf(p) /\ e.to \in VerticesOf(p)
         /\ e.from[1] \in DOMAIN p
<1>0. PICK f \in DOMAIN p : \E a \in p[f].arcs :
        e = [from |-> <<f, a.from>>, to |-> <<f, a.to>>, kind |-> a.kind, call |-> NoCall]
  BY DEF OwnEdges
<1>1. PICK a \in p[f].arcs :
        e = [from |-> <<f, a.from>>, to |-> <<f, a.to>>, kind |-> a.kind, call |-> NoCall]
  BY <1>0
<1>2. a.kind \in ArcKind
  BY ProgramsAssumption
<1>3. e.from \in VerticesOf(p) /\ e.to \in VerticesOf(p)
  BY EdgeEnds DEF EdgesOf
<1> QED
  BY <1>1, <1>2, <1>3

LEMMA LinkingEdgeFacts ==
  ASSUME NEW c
  PROVE  /\ CallEdge(c).kind = "call" /\ CallEdge(c).call = c
         /\ ReturnEdge(c).kind = "return" /\ ReturnEdge(c).call = c
         /\ CallEdge(c) # ReturnEdge(c)
         /\ \A d : CallEdge(c) # ReturnEdge(d)
         /\ \A d : CallEdge(c) = CallEdge(d) <=> c = d
         /\ \A d : ReturnEdge(c) = ReturnEdge(d) <=> c = d
         /\ \A p \in Programs : CallEdge(c) \notin OwnEdges(p) /\ ReturnEdge(c) \notin OwnEdges(p)
<1>1. /\ CallEdge(c).kind = "call" /\ CallEdge(c).call = c
      /\ ReturnEdge(c).kind = "return" /\ ReturnEdge(c).call = c
  BY DEF CallEdge, ReturnEdge
<1>2. \A p \in Programs : CallEdge(c) \notin OwnEdges(p) /\ ReturnEdge(c) \notin OwnEdges(p)
  BY <1>1, OwnEdgeFacts DEF ArcKind
<1> QED
  BY <1>1, <1>2 DEF CallEdge, ReturnEdge

(* Which numbers an edge joins.                                            *)
LEMMA EndsOf ==
  ASSUME prog \in Programs
  PROVE  /\ \A e \in OwnEdges(prog) : FromOf(e) = e.from /\ ToOf(e) = e.to
         /\ \A c : /\ FromOf(CallEdge(c)) = c /\ ToOf(CallEdge(c)) = EntryOf(Callee(prog, c))
                   /\ FromOf(ReturnEdge(c)) = ExitOf(Callee(prog, c))
                   /\ ToOf(ReturnEdge(c)) = ReturnPoint(prog, c)
<1>1. \A e \in OwnEdges(prog) : e.kind # "call" /\ e.kind # "return"
  BY OwnEdgeFacts DEF ArcKind
<1>2. \A e \in OwnEdges(prog) : FromOf(e) = e.from /\ ToOf(e) = e.to
  BY <1>1 DEF FromOf, ToOf
<1> QED
  BY <1>2, LinkingEdgeFacts DEF FromOf, ToOf

(* Where the statements are, and what a resolved call leads to.            *)
LEMMA OwnEnds ==
  ASSUME NEW p \in Programs, NEW e \in OwnEdges(p)
  PROVE  /\ e.from[1] \in DOMAIN p /\ e.from[2] \in Nat /\ e.from = <<e.from[1], e.from[2]>>
         /\ e.to[1] \in DOMAIN p /\ e.to[2] \in Nat /\ e.to = <<e.to[1], e.to[2]>>
<1>0. PICK f \in DOMAIN p : \E a \in p[f].arcs :
        e = [from |-> <<f, a.from>>, to |-> <<f, a.to>>, kind |-> a.kind, call |-> NoCall]
  BY DEF OwnEdges
<1>1. PICK a \in p[f].arcs :
        e = [from |-> <<f, a.from>>, to |-> <<f, a.to>>, kind |-> a.kind, call |-> NoCall]
  BY <1>0
<1>2. a.from \in Nat /\ a.to \in Nat
  BY ProgramsAssumption
<1> QED
  BY <1>1, <1>2

LEMMA ResolvedFacts ==
  ASSUME NEW p \in Programs, NEW c \in Resolved(p)
  PROVE  /\ c \in CallSites(p) /\ Callee(p, c) \in DOMAIN p
         /\ c \in VerticesOf(p) /\ ReturnPoint(p, c) \in VerticesOf(p)
         /\ EntryOf(Callee(p, c)) \in VerticesOf(p) /\ ExitOf(Callee(p, c)) \in VerticesOf(p)
<1>1. c \in CallSites(p) /\ Callee(p, c) \in DOMAIN p
  BY DEF Resolved
<1>2. \A f \in DOMAIN p : EntryOf(f) \in VerticesOf(p) /\ ExitOf(f) \in VerticesOf(p)
  BY DEF VerticesOf
<1> QED
  BY <1>1, <1>2, ReturnPointFacts

(* Linking connects the functions' own statements and adds none.           *)
LEMMA VertexFacts ==
  ASSUME NEW p \in Programs, NEW v \in VerticesOf(p)
  PROVE  v[1] \in DOMAIN p /\ v[2] \in Nat /\ v = <<v[1], v[2]>>
<1> DEFINE Fine(w) == w[1] \in DOMAIN p /\ w[2] \in Nat /\ w = <<w[1], w[2]>>
<1>1. \A f \in DOMAIN p : Fine(EntryOf(f)) /\ Fine(ExitOf(f))
  BY DEF EntryOf, ExitOf
<1>2. \A e \in OwnEdges(p) : Fine(e.from) /\ Fine(e.to)
  BY OwnEnds
<1>3. ASSUME NEW c \in Resolved(p)
      PROVE  Fine(c) /\ Fine(ReturnPoint(p, c))
  <2>1. c \in CallSites(p)
    BY ResolvedFacts
  <2>2. PICK a \in p[c[1]].arcs :
          {b \in p[c[1]].arcs : b.from = c[2] /\ b.kind # "impossible"} = {a}
    BY <2>1, CallFacts
  <2>3. c[1] \in DOMAIN p /\ c = <<c[1], c[2]>>
    BY <2>1, CallFacts
  <2>4. \A b \in p[c[1]].arcs : b.from \in Nat /\ b.to \in Nat
    BY <2>3, ProgramsAssumption
  <2>5. (CHOOSE x \in p[c[1]].arcs : x.from = c[2] /\ x.kind # "impossible")
          \in p[c[1]].arcs
    BY <2>2
  <2>6. Fine(ReturnPoint(p, c))
    BY <2>3, <2>4, <2>5 DEF ReturnPoint
  <2> QED
    BY <2>2, <2>3, <2>4, <2>6
<1>4. \A e \in LinkEdges(p) : Fine(e.from) /\ Fine(e.to)
  <2> SUFFICES ASSUME NEW e \in LinkEdges(p) PROVE Fine(e.from) /\ Fine(e.to)
    OBVIOUS
  <2>1. PICK c \in Resolved(p) :
          \/ e.from = c /\ e.to = EntryOf(Callee(p, c))
          \/ e.from = ExitOf(Callee(p, c)) /\ e.to = ReturnPoint(p, c)
    BY DEF LinkEdges
  <2>2. Callee(p, c) \in DOMAIN p
    BY ResolvedFacts
  <2> QED
    BY <1>1, <1>3, <2>1, <2>2
<1>5. \A e \in EdgesOf(p) : Fine(e.from) /\ Fine(e.to)
  BY <1>2, <1>4 DEF EdgesOf
<1>6. Fine(v)
  <2> HIDE DEF Fine
  <2> QED BY <1>1, <1>5 DEF VerticesOf
<1> QED
  BY <1>6

-----------------------------------------------------------------------------
(* The container, as this module and as its lemmas name its parts.         *)
LEMMA SameWords ==
  ASSUME NEW h
  PROVE  /\ Graph!Heaps = Heaps
         /\ Graph!PlacedEdges(h) = PlacedEdges(h)
         /\ Graph!PlacedVertices(h) = PlacedVertices(h)
         /\ \A g, old, new : Graph!ReplaceVertex(h, g, old, new) = ReplaceVertex(h, g, old, new)
         /\ \A g, s, t, e : Graph!AddEdge(h, g, s, t, e) = AddEdge(h, g, s, t, e)
<1>1. Graph!Heaps = Heaps
  BY DEF Graph!Heaps, Heaps, Graph!NoIndex, NoIndex
<1>2. Graph!PlacedEdges(h) = PlacedEdges(h) /\ Graph!PlacedVertices(h) = PlacedVertices(h)
  BY DEF Graph!PlacedEdges, PlacedEdges, Graph!PlacedVertices, PlacedVertices
<1>3. \A g, old, new : Graph!ReplaceVertex(h, g, old, new) = ReplaceVertex(h, g, old, new)
  BY DEF Graph!ReplaceVertex, ReplaceVertex, Graph!RemoveVertex, RemoveVertex,
         Graph!TransferOwnedResources, TransferOwnedResources, Graph!AddVertex, AddVertex
<1>4. \A g, s, t, e : Graph!AddEdge(h, g, s, t, e) = AddEdge(h, g, s, t, e)
  BY DEF Graph!AddEdge, AddEdge
<1> QED
  BY <1>1, <1>2, <1>3, <1>4

LEMMA GoodMeans ==
  ASSUME NEW h, Graph!Good(h)
  PROVE  h \in Heaps /\ Consistent(h)
<1>1. h \in Heaps
  BY SameWords DEF Graph!Good
<1>2. Consistent(h)
  BY SameWords DEF Graph!Good, Graph!Consistent, Consistent, Graph!EndsAgree, EndsAgree,
       Graph!EndsPlaced, EndsPlaced, Graph!OneOwner, OneOwner
<1> QED
  BY <1>1, <1>2

-----------------------------------------------------------------------------
(* The two calls of the container in the second pass.                      *)

LEMMA PlacedObject ==
  ASSUME prog \in Programs, NEW h, NEW R, Layout(h, R), NEW v \in VerticesOf(prog)
  PROVE  Object(R, v) \in h.verts[v[1]] /\ Object(R, v) \in PlacedVertices(h)
<1>1. v[1] \in Functions /\ v \in VerticesIn(v[1])
  BY VertexFacts, FunctionsThere DEF VerticesIn
<1>2. Object(R, v) \in h.verts[v[1]]
  BY <1>1 DEF Layout
<1> QED
  BY <1>1, <1>2 DEF PlacedVertices

LEMMA AddLayout ==
  ASSUME prog \in Programs, NEW h, Graph!Good(h), NEW R, Layout(h, R),
         NEW g \in Functions, NEW e \in EdgeObjects, e \notin PlacedEdges(h),
         FromOf(e) \in VerticesOf(prog), ToOf(e) \in VerticesOf(prog),
         NEW s, s = Object(R, FromOf(e)), NEW t, t = Object(R, ToOf(e)),
         NEW n, n = AddEdge(h, g, s, t, e)
  PROVE  /\ Graph!Good(n) /\ Layout(n, R) /\ PlacedEdges(n) = PlacedEdges(h) \cup {e}
         /\ \A f \in EdgeObjects : f # e => n.tgt[f] = h.tgt[f]
<1>1. s \in PlacedVertices(h) /\ t \in PlacedVertices(h)
  BY PlacedObject
<1>2. h \in Heaps
  BY GoodMeans
<1>3. s \in Objects /\ t \in Objects
  BY <1>1, <1>2 DEF PlacedVertices, Heaps
<1>4. Graph!Good(n)
  BY <1>1, SameWords, NullApart, Graph!AddEdgeGood
<1>5. Graph!AddEdgeEffect(n, h, g, s, t, e) /\ Graph!SameVertexFields(n, h)
  BY <1>2, <1>3, SameWords, NullApart, Graph!AddEdgeFields
<1>7. n.verts = h.verts
  BY <1>5 DEF Graph!SameVertexFields
<1>8. \A k \in Functions : n.edges[k] = IF k = g THEN h.edges[k] \cup {e} ELSE h.edges[k]
  BY <1>5 DEF Graph!AddEdgeEffect
<1>9. PlacedEdges(n) = PlacedEdges(h) \cup {e}
  <2>1. \A m, x : x \in PlacedEdges(m) <=> \E k \in Functions : x \in m.edges[k]
    BY DEF PlacedEdges
  <2>2. \A x : (\E k \in Functions : x \in n.edges[k])
                 <=> (\E k \in Functions : x \in h.edges[k]) \/ x = e
    BY <1>1, <1>8
  <2>3. \A x : x \in PlacedEdges(n) <=> x \in PlacedEdges(h) \cup {e}
    BY <2>1, <2>2
  <2> QED
    BY <2>3
<1>10. PlacedEdges(h) \subseteq EdgeObjects
  BY <1>2 DEF PlacedEdges, Heaps
<1>11. \A f \in EdgeObjects : /\ n.src[f] = IF f = e THEN s ELSE h.src[f]
                              /\ n.tgt[f] = IF f = e THEN t ELSE h.tgt[f]
  BY <1>5 DEF Graph!AddEdgeEffect
<1>12. Layout(n, R)
  BY <1>7, <1>9, <1>10, <1>11 DEF Layout
<1> QED
  BY <1>4, <1>9, <1>11, <1>12

LEMMA ReplaceLayout ==
  ASSUME prog \in Programs, NEW h, Graph!Good(h), NEW R \in SUBSET Resolved(prog), Layout(h, R),
         NEW c \in Resolved(prog), c \notin R
  PROVE  LET n == ReplaceVertex(h, c[1], Parsed(c), ResolvedAt(c)) IN
           /\ Graph!Good(n) /\ Layout(n, R \cup {c}) /\ PlacedEdges(n) = PlacedEdges(h)
<1> DEFINE g   == c[1]
           old == Parsed(c)
           new == ResolvedAt(c)
           n   == ReplaceVertex(h, g, old, new)
           S   == R \cup {c}
<1>1. c \in VerticesOf(prog) /\ g \in Functions
  BY ResolvedFacts, VertexFacts, FunctionsThere
<1>2. h \in Heaps /\ EndsAgree(h)
  BY GoodMeans DEF Consistent
<1>3. old \in h.verts[g]
  BY <1>1, PlacedObject DEF Object
<1>4. old \in Objects /\ new \in Objects
  <2>1. Object({c}, c) \in Objects /\ Object({}, c) \in Objects
    BY <1>1, ObjectsThere
  <2> QED
    BY <2>1 DEF Object
<1>5. new \notin PlacedVertices(h)
  <2>1. \A v : Object(R, v) # new
    BY ObjectsApart DEF Object
  <2> QED
    BY <2>1 DEF PlacedVertices, Layout
<1>6. Graph!Good(n)
  BY <1>1, <1>3, <1>4, <1>5, SameWords, NullApart, Graph!ReplaceVertexGood
<1>7. Graph!NumberingEffect(n, h, g, new, {old}) /\ Graph!TransferEffect(n, h, old, new)
  <2>1. h \in Graph!Heaps /\ n = Graph!ReplaceVertex(h, g, old, new)
    BY <1>2, SameWords
  <2> HIDE DEF n, g, old, new
  <2>2. /\ Graph!NumberingEffect(Graph!ReplaceVertex(h, g, old, new), h, g, new, {old})
        /\ Graph!TransferEffect(Graph!ReplaceVertex(h, g, old, new), h, old, new)
    BY <1>1, <1>4, <2>1, NullApart, Graph!ReplaceVertexFields
  <2> QED
    BY <2>1, <2>2
<1> HIDE DEF n
<1>8. /\ n.edges = h.edges
      /\ \A e \in EdgeObjects :
           /\ n.src[e] = IF e \in h.outE[old] THEN new ELSE h.src[e]
           /\ n.tgt[e] = IF e \in h.inE[old] THEN new ELSE h.tgt[e]
  BY <1>7 DEF Graph!TransferEffect
<1>9. PlacedEdges(n) = PlacedEdges(h)
  BY <1>8 DEF PlacedEdges
<1>10. \A v : Object(S, v) = IF Object(R, v) = old THEN new ELSE Object(R, v)
  BY ObjectsApart DEF Object
<1>11. ASSUME NEW e \in PlacedEdges(n)
       PROVE  n.src[e] = Object(S, FromOf(e)) /\ n.tgt[e] = Object(S, ToOf(e))
  <2>0. PlacedEdges(h) \subseteq EdgeObjects
    BY <1>2 DEF PlacedEdges, Heaps
  <2>1. e \in PlacedEdges(h) /\ e \in EdgeObjects
    BY <1>9, <2>0
  <2>2. /\ n.src[e] = IF h.src[e] = old THEN new ELSE h.src[e]
        /\ n.tgt[e] = IF h.tgt[e] = old THEN new ELSE h.tgt[e]
    BY <1>2, <1>4, <1>8, <2>1 DEF EndsAgree
  <2>3. h.src[e] = Object(R, FromOf(e)) /\ h.tgt[e] = Object(R, ToOf(e))
    BY <2>1 DEF Layout
  <2> QED
    BY <1>10, <2>2, <2>3
<1>12. ASSUME NEW f \in Functions
       PROVE  n.verts[f] = {Object(S, v) : v \in VerticesIn(f)}
  <2>1. h.verts[f] = {Object(R, v) : v \in VerticesIn(f)}
    BY DEF Layout
  <2>2. n.verts[f] = IF f = g THEN (h.verts[f] \cup {new}) \ {old} ELSE h.verts[f]
    BY <1>7 DEF Graph!NumberingEffect
  <2>3. \A v : Object(R, v) = old <=> v = c
    BY ObjectsApart DEF Object
  <2>4. c \in VerticesIn(g) /\ Object(R, c) = old /\ Object(S, c) = new
    BY <1>1 DEF VerticesIn, Object
  <2>5. CASE f = g
    <3>1. ASSUME NEW x \in n.verts[f] PROVE \E v \in VerticesIn(f) : x = Object(S, v)
      <4>1. CASE x = new
        BY <2>4, <2>5, <4>1
      <4>2. CASE x # new
        BY <1>10, <2>1, <2>2, <2>5, <4>2
      <4> QED
        BY <4>1, <4>2
    <3>2. ASSUME NEW v \in VerticesIn(f) PROVE Object(S, v) \in n.verts[f]
      <4>1. new # old
        BY ObjectsApart
      <4> QED
        BY <1>10, <2>1, <2>2, <2>3, <2>5, <4>1
    <3> QED
      BY <3>1, <3>2
  <2>6. CASE f # g
    <3>1. \A v \in VerticesIn(f) : Object(S, v) = Object(R, v)
      BY <2>6 DEF VerticesIn, Object
    <3> QED
      BY <2>1, <2>2, <2>6, <3>1
  <2> QED
    BY <2>5, <2>6
<1>13. Layout(n, S)
  BY <1>11, <1>12 DEF Layout
<1> QED
  BY <1>6, <1>9, <1>13 DEF n

-----------------------------------------------------------------------------
(* The graphs as they are given are in order.                              *)

LEMMA FiniteBounded ==
  ASSUME NEW S \in SUBSET Nat, IsFiniteSet(S)
  PROVE  \E n \in Nat : \A x \in S : x <= n
<1>1. PICK m \in Nat : ExistsSurjection(1 .. m, S)
  BY FS_NatSurjection
<1>2. PICK f \in [1 .. m -> S] : \A x \in S : \E k \in 1 .. m : f[k] = x
  BY <1>1 DEF ExistsSurjection, Surjection
<1> DEFINE Bounded(k) == \E n \in Nat : \A j \in 1 .. k : f[j] <= n
           T == {k \in 0 .. m : ~Bounded(k)}
<1>3. ASSUME NEW k \in 0 .. m, k # 0, Bounded(k - 1)
      PROVE  Bounded(k)
  <2>1. PICK n \in Nat : \A j \in 1 .. k - 1 : f[j] <= n
    BY <1>3
  <2>2. k \in 1 .. m
    BY <1>3
  <2>3. f[k] \in Nat
    BY <2>2
  <2>4. ASSUME NEW j \in 1 .. k PROVE f[j] <= n + f[k]
    <3>1. CASE j = k
      BY <2>3, <3>1
    <3>2. CASE j # k
      <4>1. j \in 1 .. k - 1 /\ j \in 1 .. m
        BY <2>2, <3>2
      <4>2. f[j] \in Nat /\ f[j] <= n
        BY <2>1, <4>1
      <4> QED
        BY <2>3, <4>2
    <3> QED
      BY <3>1, <3>2
  <2>5. n + f[k] \in Nat
    BY <2>3
  <2> QED
    BY <2>4, <2>5
<1>4. Bounded(0)
  OBVIOUS
<1> HIDE DEF Bounded
<1>5. T = {}
  <2> SUFFICES ASSUME T # {} PROVE FALSE
    OBVIOUS
  <2>1. T \subseteq Nat
    OBVIOUS
  <2>2. PICK k \in T : \A j \in T : ~(<<j, k>> \in OpToRel(<, Nat))
    <3> HIDE DEF T
    <3> QED BY <2>1, NatLessThanWellFounded, WFMin
  <2>3. k \in 0 .. m /\ ~Bounded(k)
    OBVIOUS
  <2>4. k \in Nat \ {0}
    BY <1>4, <2>3
  <2>5. k - 1 \in 0 .. m /\ k - 1 \in Nat /\ k - 1 < k
    BY <2>3, <2>4
  <2>6. k - 1 \notin T
    <3> HIDE DEF T
    <3> QED BY <2>2, <2>4, <2>5 DEF OpToRel
  <2>7. Bounded(k - 1)
    BY <2>5, <2>6
  <2> QED
    BY <1>3, <2>3, <2>4, <2>7
<1>6. Bounded(m)
  BY <1>5
<1> QED
  BY <1>2, <1>6 DEF Bounded

LEMMA FiniteMaximum ==
  ASSUME NEW S \in SUBSET Nat, IsFiniteSet(S), S # {}
  PROVE  \E n \in S : \A x \in S : x <= n
<1> DEFINE B == {n \in Nat : \A x \in S : x <= n}
<1>1. B # {} /\ B \subseteq Nat
  BY FiniteBounded
<1>2. PICK n \in B : \A m \in B : ~(<<m, n>> \in OpToRel(<, Nat))
  <2> HIDE DEF B
  <2> QED BY <1>1, NatLessThanWellFounded, WFMin
<1>3. CASE n \in S
  BY <1>3
<1>4. CASE n \notin S
  <2>1. n \in Nat /\ \A x \in S : x <= n
    OBVIOUS
  <2>2. \A x \in S : x \in Nat /\ x <= n /\ x # n
    BY <1>4, <2>1
  <2>3. n # 0
    <3>1. PICK x \in S : TRUE
      OBVIOUS
    <3> QED
      BY <2>2, <3>1
  <2>4. n - 1 \in Nat /\ \A x \in S : x <= n - 1
    BY <2>1, <2>2, <2>3
  <2>5. n - 1 \in B /\ n - 1 < n
    BY <2>1, <2>4
  <2> QED
    BY <1>2, <2>1, <2>4, <2>5 DEF OpToRel
<1> QED
  BY <1>3, <1>4

(* The highest number of a function: the next one is not in use.           *)
LEMMA HighestFacts ==
  ASSUME prog \in Programs, NEW f \in DOMAIN prog
  PROVE  /\ Highest(f) \in Nat
         /\ \A v \in OwnVertices(f) : v.at[2] <= Highest(f)
<1> DEFINE S == {v.at[2] : v \in OwnVertices(f)}
           W == VerticesOf(prog)
           num == [w \in W |-> w[2]]
<1>1. \A v \in OwnVertices(f) : v.at \in W
  BY ObjectsApart DEF OwnVertices
<1>2. S \in SUBSET Nat
  BY <1>1, VertexFacts
<1>3. IsFiniteSet(S)
  <2>1. IsFiniteSet(W)
    BY ProgramsAssumption
  <2> DEFINE I == {num[w] : w \in W}
  <2>2. num \in Surjection(W, I)
    BY DEF Surjection
  <2>3. IsFiniteSet(I)
    <3> HIDE DEF num, I, W
    <3> QED BY <2>1, <2>2, FS_Surjection
  <2>4. S \subseteq I
    BY <1>1
  <2> QED
    <3> HIDE DEF S, I
    <3> QED BY <2>3, <2>4, FS_Subset
<1>4. S # {}
  <2>1. EntryOf(f) \in W /\ EntryOf(f)[1] = f
    BY DEF VerticesOf, EntryOf
  <2>2. Parsed(EntryOf(f)) \in OwnVertices(f)
    BY <2>1 DEF OwnVertices
  <2> QED
    BY <2>2
<1>5. \E n \in S : \A x \in S : x <= n
  <2> HIDE DEF S
  <2> QED BY <1>2, <1>3, <1>4, FiniteMaximum
<1>6. \E n \in S : \A v \in OwnVertices(f) : v.at[2] <= n
  BY <1>5
<1>7. Highest(f) \in S /\ \A v \in OwnVertices(f) : v.at[2] <= Highest(f)
  BY <1>6 DEF Highest
<1> QED
  BY <1>2, <1>7

(* An end of an own edge, as the object that is there before linking.      *)
LEMMA OwnVertexFacts ==
  ASSUME prog \in Programs, NEW f
  PROVE  /\ OwnVertices(f) = {Parsed(v) : v \in VerticesIn(f)}
         /\ OwnVertices(f) \subseteq Objects
         /\ \A v \in OwnVertices(f) :
              /\ v.at[1] = f /\ v.at[2] \in Nat /\ v = Parsed(<<v.at[1], v.at[2]>>)
              /\ f \in DOMAIN prog
<1>1. OwnVertices(f) = {Parsed(v) : v \in VerticesIn(f)}
  BY DEF OwnVertices, VerticesIn
<1>2. OwnVertices(f) \subseteq Objects
  <2>1. \A v \in VerticesOf(prog) : Object({}, v) \in Objects
    BY ObjectsThere
  <2> QED
    BY <1>1, <2>1 DEF Object, VerticesIn
<1>3. ASSUME NEW w \in VerticesIn(f)
      PROVE  /\ Parsed(w).at[1] = f /\ Parsed(w).at[2] \in Nat
             /\ Parsed(w) = Parsed(<<Parsed(w).at[1], Parsed(w).at[2]>>) /\ f \in DOMAIN prog
  <2>1. Parsed(w).at = w
    BY ObjectsApart
  <2>2. w \in VerticesOf(prog) /\ w[1] = f
    BY DEF VerticesIn
  <2> QED
    BY <2>1, <2>2, VertexFacts
<1> QED
  BY <1>1, <1>2, <1>3

LEMMA ParsedHeapInHeaps ==
  ASSUME prog \in Programs
  PROVE  ParsedHeap \in Heaps
<1> DEFINE h == ParsedHeap
<1>1. h.verts \in [Functions -> SUBSET Objects]
  BY OwnVertexFacts DEF ParsedHeap
<1>2. OwnEdges(prog) \subseteq EdgeObjects
  BY Zenon DEF EdgeObjects
<1>3. h.edges \in [Functions -> SUBSET EdgeObjects]
  BY <1>2 DEF ParsedHeap
<1>4. h.nextId \in [Functions -> Nat]
  BY HighestFacts DEF ParsedHeap
<1>5. h.inE \in [Objects -> SUBSET EdgeObjects] /\ h.outE \in [Objects -> SUBSET EdgeObjects]
  BY <1>2 DEF ParsedHeap
<1>6. h.index \in [Objects -> Nat \cup {NoIndex}]
  BY OwnVertexFacts DEF ParsedHeap
<1>7. \A v \in VerticesOf(prog) : Parsed(v) \in Objects
  <2>1. \A v \in VerticesOf(prog) : Object({}, v) \in Objects
    BY ObjectsThere
  <2> QED
    BY <2>1 DEF Object
<1>8. h.src \in [EdgeObjects -> Objects \cup {Null}] /\ h.tgt \in [EdgeObjects -> Objects \cup {Null}]
  <2>1. \A e \in OwnEdges(prog) : Parsed(e.from) \in Objects /\ Parsed(e.to) \in Objects
    BY <1>7, OwnEdgeFacts
  <2> QED
    BY <2>1 DEF ParsedHeap
<1> QED
  BY <1>1, <1>3, <1>4, <1>5, <1>6, <1>8 DEF Heaps, ParsedHeap

LEMMA ParsedHeapGood ==
  ASSUME prog \in Programs
  PROVE  /\ Graph!Good(ParsedHeap) /\ Layout(ParsedHeap, {})
         /\ PlacedEdges(ParsedHeap) = OwnEdges(prog)
<1> DEFINE h == ParsedHeap
<1>1. h \in Heaps
  BY ParsedHeapInHeaps
<1>2. /\ \A f \in Functions : h.verts[f] = OwnVertices(f)
      /\ \A f \in Functions : h.edges[f] = {e \in OwnEdges(prog) : e.from[1] = f}
      /\ \A f \in DOMAIN prog : h.nextId[f] = Highest(f) + 1
      /\ \A v \in Objects : /\ h.inE[v] = {e \in OwnEdges(prog) : Parsed(e.to) = v}
                            /\ h.outE[v] = {e \in OwnEdges(prog) : Parsed(e.from) = v}
      /\ \A v \in Objects : v \in OwnVertices(v.at[1]) => h.index[v] = v.at[2]
      /\ \A e \in EdgeObjects :
           /\ h.src[e] = IF e \in OwnEdges(prog) THEN Parsed(e.from) ELSE Null
           /\ h.tgt[e] = IF e \in OwnEdges(prog) THEN Parsed(e.to) ELSE Null
  BY FunctionsThere DEF ParsedHeap
<1> HIDE DEF h
<1>3. OwnEdges(prog) \subseteq EdgeObjects
  BY Zenon DEF EdgeObjects
<1>4. PlacedEdges(h) = OwnEdges(prog)
  <2>1. \A e \in OwnEdges(prog) : e.from[1] \in Functions
    BY OwnEnds, FunctionsThere
  <2> QED
    BY <1>2, <2>1 DEF PlacedEdges
<1>5. Layout(h, {})
  <2>1. \A f \in Functions : h.verts[f] = {Object({}, v) : v \in VerticesIn(f)}
    BY <1>2, OwnVertexFacts DEF Object
  <2>2. \A e \in OwnEdges(prog) : /\ h.src[e] = Object({}, FromOf(e))
                                  /\ h.tgt[e] = Object({}, ToOf(e))
    BY <1>2, <1>3, EndsOf DEF Object
  <2> QED
    BY <1>4, <2>1, <2>2 DEF Layout
<1>6. EndsAgree(h)
  <2>1. \A v \in Objects : v # Null
    BY NullApart
  <2> QED
    BY <1>2, <1>3, <2>1 DEF EndsAgree
<1>7. EndsPlaced(h)
  <2>1. \A e \in OwnEdges(prog) : /\ Object({}, e.from) \in PlacedVertices(h)
                                  /\ Object({}, e.to) \in PlacedVertices(h)
    BY <1>5, OwnEdgeFacts, PlacedObject
  <2>2. \A e \in OwnEdges(prog) : /\ Parsed(e.from) \in PlacedVertices(h)
                                  /\ Parsed(e.to) \in PlacedVertices(h)
    BY <2>1 DEF Object
  <2> QED
    BY <1>2, <1>4, <2>2 DEF EndsPlaced
<1>8. OneOwner(h)
  <2>1. \A f \in Functions : \A v \in h.verts[f] : v.at[1] = f
    BY <1>2, OwnVertexFacts
  <2> QED
    BY <1>2, <2>1 DEF OneOwner
<1>9. IndexUnique(h) /\ IndexIssued(h)
  <2>1. ASSUME NEW f \in Functions, NEW v \in h.verts[f]
        PROVE  /\ f \in DOMAIN prog /\ v.at[1] = f /\ v.at[2] \in Nat
               /\ h.index[v] = v.at[2] /\ v = Parsed(<<f, v.at[2]>>) /\ v \in OwnVertices(f)
    <3>1. v \in OwnVertices(f) /\ v \in Objects
      BY <1>2, OwnVertexFacts
    <3>2. f \in DOMAIN prog /\ v.at[1] = f /\ v.at[2] \in Nat
      BY <3>1, OwnVertexFacts
    <3>3. v = Parsed(<<f, v.at[2]>>)
      BY <3>1, <3>2, OwnVertexFacts
    <3>4. h.index[v] = v.at[2]
      BY <1>2, <3>1, <3>2
    <3> QED
      BY <3>1, <3>2, <3>3, <3>4
  <2>2. IndexUnique(h)
    <3> SUFFICES ASSUME NEW f \in Functions, NEW v \in h.verts[f], NEW w \in h.verts[f],
                        h.index[v] = h.index[w]
                 PROVE  v = w
      BY DEF IndexUnique
    <3>1. v.at[2] = w.at[2]
      BY <2>1
    <3>2. v = Parsed(<<f, v.at[2]>>) /\ w = Parsed(<<f, w.at[2]>>)
      BY <2>1
    <3> QED
      BY <3>1, <3>2
  <2>3. IndexIssued(h)
    <3> SUFFICES ASSUME NEW f \in Functions, NEW v \in h.verts[f]
                 PROVE  h.index[v] \in 0 .. h.nextId[f] - 1
      BY DEF IndexIssued
    <3>1. /\ f \in DOMAIN prog /\ h.index[v] = v.at[2] /\ v.at[2] \in Nat
          /\ v \in OwnVertices(f)
      BY <2>1
    <3>2. Highest(f) \in Nat /\ v.at[2] <= Highest(f)
      BY <3>1, HighestFacts
    <3>3. h.nextId[f] = Highest(f) + 1
      BY <1>2, <3>1
    <3> QED
      BY <3>1, <3>2, <3>3
  <2> QED
    BY <2>2, <2>3
<1>10. Graph!Good(h)
  BY <1>1, <1>6, <1>7, <1>8, <1>9, SameWords DEF Graph!Good, Graph!Consistent, Graph!EndsAgree,
     EndsAgree, Graph!EndsPlaced, EndsPlaced, Graph!OneOwner, OneOwner, Graph!IndexUnique,
     IndexUnique, Graph!IndexIssued, IndexIssued
<1> QED
  BY <1>4, <1>5, <1>10 DEF h

LEMMA NothingWaits ==
  ASSUME pairs = <<>>
  PROVE  Waiting = {}
<1>1. DOMAIN pairs = {}
  BY EmptySeq
<1> QED
  BY <1>1 DEF Waiting, Listed

LEMMA InitGood == Init => LinkInv
<1> SUFFICES ASSUME Init PROVE LinkInv
  OBVIOUS
<1>1. prog \in Programs /\ heap = ParsedHeap /\ "" \notin DOMAIN prog
  BY ProgramsAssumption DEF Init
<1>2. Waiting = {} /\ pairs = <<>> /\ unseen = {} /\ unresolved = {}
  BY NothingWaits DEF Init
<1>3. \A c \in CallSites(prog) : c[1] \in left
  BY <1>1, CallFacts DEF Init
<1>4. Replaced = {}
  BY <1>3 DEF Replaced, Resolved
<1>5. Progress
  <2>1. pairs \in Seq(Resolved(prog)) /\ DOMAIN pairs = {}
    BY <1>2, EmptySeq
  <2> QED
    BY <1>1, <1>2, <1>3, <2>1 DEF Init, Progress, Once
<1>6. PlacedEdges(heap) = EdgesFor({})
  BY <1>1, ParsedHeapGood DEF EdgesFor
<1> QED
  BY <1>1, <1>4, <1>5, <1>6, ParsedHeapGood DEF LinkInv

-----------------------------------------------------------------------------
(* The calls waiting for the second pass.                                  *)

LEMMA PairsAppended ==
  ASSUME NEW S, NEW q \in Seq(S), NEW c \in S, Once(q), c \notin Listed(q)
  PROVE  /\ Append(q, c) \in Seq(S)
         /\ Listed(Append(q, c)) = Listed(q) \cup {c}
         /\ Once(Append(q, c))
<1> DEFINE s == Append(q, c)
           k == Len(q)
<1>1. k \in Nat /\ DOMAIN q = 1 .. k
  BY LenProperties
<1>2. /\ s \in Seq(S) /\ DOMAIN s = 1 .. k + 1
      /\ s[k + 1] = c /\ \A n \in 1 .. k : s[n] = q[n]
  BY <1>1
<1> HIDE DEF s, k
<1>3. Listed(s) = Listed(q) \cup {c}
  <2>1. \A n \in 1 .. k + 1 : n \in 1 .. k \/ n = k + 1
    BY <1>1
  <2>2. k + 1 \in 1 .. k + 1 /\ 1 .. k \subseteq 1 .. k + 1
    BY <1>1
  <2> QED
    BY <1>1, <1>2, <2>1, <2>2 DEF Listed
<1>4. ASSUME NEW m \in DOMAIN s, NEW n \in DOMAIN s, s[m] = s[n]
      PROVE  m = n
  <2>1. (m \in 1 .. k \/ m = k + 1) /\ (n \in 1 .. k \/ n = k + 1)
    BY <1>1, <1>2
  <2>2. \A i \in 1 .. k : s[i] # c
    BY <1>1, <1>2 DEF Listed
  <2> QED
    BY <1>1, <1>2, <1>4, <2>1, <2>2 DEF Once
<1>5. Once(s)
  BY <1>4 DEF Once
<1> QED
  BY <1>2, <1>3, <1>5 DEF s

LEMMA PairsTail ==
  ASSUME NEW S, NEW q \in Seq(S), Once(q), q # <<>>
  PROVE  /\ Head(q) \in S /\ Head(q) \in Listed(q)
         /\ Tail(q) \in Seq(S)
         /\ Listed(Tail(q)) = Listed(q) \ {Head(q)}
         /\ Once(Tail(q))
<1> DEFINE s == Tail(q)
           k == Len(q)
<1>1. k \in Nat \ {0} /\ DOMAIN q = 1 .. k /\ Head(q) = q[1]
  BY LenProperties, EmptySeq
<1>2. /\ s \in Seq(S) /\ DOMAIN s = 1 .. k - 1
      /\ \A n \in 1 .. k - 1 : s[n] = q[n + 1]
  BY <1>1
<1> HIDE DEF s, k
<1>3. 1 \in 1 .. k /\ q[1] \in S
  BY <1>1
<1>4. \A m, n \in 1 .. k : q[m] = q[n] => m = n
  BY <1>1 DEF Once
<1>5. ASSUME NEW n \in 1 .. k - 1 PROVE n + 1 \in 1 .. k /\ n + 1 # 1
  BY <1>1
<1>6. ASSUME NEW n \in 1 .. k, n # 1 PROVE n - 1 \in 1 .. k - 1 /\ (n - 1) + 1 = n
  BY <1>1, <1>6
<1>7. Listed(s) = Listed(q) \ {Head(q)}
  <2>1. ASSUME NEW n \in DOMAIN s PROVE s[n] \in Listed(q) \ {Head(q)}
    <3>1. n + 1 \in DOMAIN q /\ n + 1 # 1 /\ s[n] = q[n + 1]
      BY <1>1, <1>2, <1>5
    <3>2. q[n + 1] # q[1]
      BY <1>1, <1>3, <1>4, <3>1
    <3> QED
      BY <1>1, <3>1, <3>2 DEF Listed
  <2>2. ASSUME NEW w \in Listed(q), w # Head(q) PROVE w \in Listed(s)
    <3>1. PICK n \in DOMAIN q : w = q[n]
      BY DEF Listed
    <3>2. n \in 1 .. k /\ n # 1
      BY <1>1, <2>2, <3>1
    <3>3. n - 1 \in DOMAIN s /\ s[n - 1] = w
      BY <1>2, <1>6, <3>1, <3>2
    <3> QED
      BY <3>3 DEF Listed
  <2>3. Listed(s) \subseteq Listed(q) \ {Head(q)}
    BY <2>1 DEF Listed
  <2> QED
    BY <2>2, <2>3
<1>8. ASSUME NEW m \in DOMAIN s, NEW n \in DOMAIN s, s[m] = s[n] PROVE m = n
  <2>1. m \in 1 .. k - 1 /\ n \in 1 .. k - 1 /\ q[m + 1] = q[n + 1]
    BY <1>2, <1>8
  <2>2. m + 1 = n + 1
    BY <1>4, <1>5, <2>1
  <2> QED
    BY <2>1, <2>2
<1>9. Once(s)
  BY <1>8 DEF Once
<1>10. Head(q) \in S /\ Head(q) \in Listed(q)
  BY <1>1, <1>3 DEF Listed
<1> QED
  BY <1>2, <1>7, <1>9, <1>10 DEF s

-----------------------------------------------------------------------------
(* Steps.                                                                  *)

(* A step that leaves the objects alone need only leave the replaced calls *)
(* alone too.                                                              *)
LEMMA SameLayout ==
  ASSUME LinkInv, prog' = prog, heap' = heap, Replaced' = Replaced, Progress'
  PROVE  LinkInv'
<1>1. Layout(heap, Replaced)'
  BY DEF LinkInv, Layout, VerticesIn, FromOf, ToOf
<1>2. (PlacedEdges(heap) = EdgesFor(Replaced))'
  BY DEF LinkInv, EdgesFor
<1>3. Graph!Good(heap)'
  BY DEF LinkInv
<1> QED
  BY <1>1, <1>2, <1>3 DEF LinkInv

LEMMA LinkFunctionGood ==
  ASSUME LinkInv, LinkFunction
  PROVE  LinkInv' /\ UNCHANGED <<prog, Replaced>>
<1>1. PICK f \in left :
        /\ current' = f /\ left' = left \ {f}
        /\ unseen' = {v.at : v \in {w \in heap.verts[f] :
                               w.class = "parsed" /\ w.at \in CallSites(prog)}}
  BY DEF LinkFunction
<1>2. current = "" /\ UNCHANGED <<prog, heap, pairs, unresolved>>
  BY DEF LinkFunction
<1>3. Progress /\ f \in DOMAIN prog /\ unseen = {} /\ pairs = <<>> /\ prog \in Programs
  BY <1>2 DEF LinkInv, Progress
<1>4. Waiting = {} /\ Waiting' = {}
  BY <1>2, <1>3, NothingWaits DEF Waiting
<1>5. unseen' = {c \in CallSites(prog) : c[1] = f}
  <2>1. heap.verts[f] = {Object(Replaced, v) : v \in VerticesIn(f)}
    BY <1>3, FunctionsThere DEF LinkInv, Layout
  <2>2. \A v \in VerticesIn(f) : v[1] = f
    BY DEF VerticesIn
  <2>3. \A v \in VerticesIn(f) : Object(Replaced, v) = Parsed(v)
    BY <2>2 DEF Object, Replaced
  <2>4. \A v : Parsed(v).at = v /\ Parsed(v).class = "parsed"
    BY ObjectsApart
  <2>5. ASSUME NEW c \in unseen' PROVE c \in CallSites(prog) /\ c[1] = f
    <3>1. PICK v \in heap.verts[f] : v.at = c /\ v.at \in CallSites(prog)
      BY <1>1
    <3>2. PICK w \in VerticesIn(f) : v = Parsed(w)
      BY <2>1, <2>3
    <3> QED
      BY <2>2, <2>4, <3>1, <3>2
  <2>6. ASSUME NEW c \in CallSites(prog), c[1] = f PROVE c \in unseen'
    <3>1. c \in VerticesIn(f)
      BY <1>3, <2>6, ReturnPointFacts DEF VerticesIn
    <3>2. Parsed(c) \in heap.verts[f]
      BY <2>1, <2>3, <3>1
    <3>3. Parsed(c) \in {w \in heap.verts[f] : w.class = "parsed" /\ w.at \in CallSites(prog)}
      BY <2>4, <3>2
    <3> QED
      BY <1>1, <2>4, <3>3
  <2> QED
    BY <2>5, <2>6
<1>6. Replaced' = Replaced
  BY <1>1, <1>2, <1>3, <1>4, <1>5 DEF Replaced, Resolved
<1>7. f # ""
  BY <1>3, ProgramsAssumption
<1>8. Progress'
  BY <1>1, <1>2, <1>3, <1>4, <1>5, <1>7 DEF Progress
<1> QED
  BY <1>2, <1>6, <1>8, SameLayout

LEMMA ListCallGood ==
  ASSUME LinkInv, ListCall
  PROVE  LinkInv' /\ UNCHANGED <<prog, Replaced>>
<1>1. PICK c \in unseen :
        /\ unseen' = unseen \ {c}
        /\ \/ /\ Callee(prog, c) \in DOMAIN prog
              /\ pairs' = Append(pairs, c)
              /\ UNCHANGED unresolved
           \/ /\ Callee(prog, c) \notin DOMAIN prog
              /\ unresolved' = unresolved \cup {c}
              /\ UNCHANGED pairs
        /\ UNCHANGED <<prog, heap, left, current>>
  BY DEF ListCall
<1>2. /\ Progress /\ prog \in Programs /\ c \in CallSites(prog) /\ c[1] = current
      /\ current \notin left /\ c \notin Waiting /\ current # ""
  BY DEF LinkInv, Progress
<1>3. CASE Callee(prog, c) \in DOMAIN prog
  <2>1. c \in Resolved(prog) /\ pairs' = Append(pairs, c) /\ unresolved' = unresolved
    BY <1>1, <1>2, <1>3 DEF Resolved
  <2>0. pairs \in Seq(Resolved(prog)) /\ Once(pairs) /\ c \notin Listed(pairs)
    BY <1>2 DEF Progress, Waiting
  <2>2. /\ pairs' \in Seq(Resolved(prog)) /\ Waiting' = Waiting \cup {c}
        /\ Once(pairs')
    BY <2>0, <2>1, PairsAppended DEF Waiting
  <2>3. Replaced' = Replaced
    BY <1>1, <1>2, <2>1, <2>2 DEF Replaced
  <2>4. Progress'
    BY <1>1, <1>2, <2>1, <2>2 DEF Progress
  <2> QED
    BY <1>1, <2>3, <2>4, SameLayout
<1>4. CASE Callee(prog, c) \notin DOMAIN prog
  <2>1. c \notin Resolved(prog) /\ pairs' = pairs /\ unresolved' = unresolved \cup {c}
    BY <1>1, <1>2, <1>4 DEF Resolved
  <2>2. Waiting' = Waiting
    BY <2>1 DEF Waiting
  <2>3. Replaced' = Replaced
    BY <1>1, <2>1, <2>2 DEF Replaced
  <2>4. Progress'
    BY <1>1, <1>2, <2>1, <2>2 DEF Progress
  <2> QED
    BY <1>1, <2>3, <2>4, SameLayout
<1> QED
  BY <1>3, <1>4

LEMMA FunctionLinkedGood ==
  ASSUME LinkInv, FunctionLinked
  PROVE  LinkInv' /\ UNCHANGED <<prog, Replaced>>
<1>1. /\ unseen = {} /\ pairs = <<>> /\ current' = "" /\ prog \in Programs
      /\ UNCHANGED <<prog, heap, left, unseen, pairs, unresolved>>
  BY DEF FunctionLinked, LinkInv, Progress
<1>2. Waiting = {} /\ Waiting' = {}
  BY <1>1, NothingWaits DEF Waiting
<1>3. Replaced' = Replaced
  BY <1>1, <1>2 DEF Replaced
<1>4. "" \notin left
  BY <1>1, ProgramsAssumption DEF LinkInv, Progress
<1>5. Progress'
  BY <1>1, <1>2, <1>4 DEF LinkInv, Progress
<1> QED
  BY <1>1, <1>3, <1>5, SameLayout
(* The edge a replaced call goes on by is one of its function's own, and   *)
(* leads to whatever object now stands where the call returns to.          *)
LEMMA GoesOn ==
  ASSUME prog \in Programs, NEW h, Graph!Good(h), NEW S \in SUBSET Resolved(prog),
         Layout(h, S), PlacedEdges(h) \subseteq EdgesFor(S), NEW c \in S,
         NEW through \in Fallthroughs(h, ResolvedAt(c))
  PROVE  /\ through \in EdgeObjects /\ through # CallEdge(c)
         /\ h.tgt[through] = Object(S, ReturnPoint(prog, c))
<1>1. c \in VerticesOf(prog) /\ c \in CallSites(prog) /\ Object(S, c) = ResolvedAt(c)
  BY ResolvedFacts DEF Object
<1>2. h \in Heaps /\ EndsAgree(h) /\ EndsPlaced(h)
  BY GoodMeans DEF Consistent
<1>3. ResolvedAt(c) \in Objects /\ ResolvedAt(c) # Null
  BY <1>1, ObjectsThere, NullApart
<1>4. through \in h.outE[ResolvedAt(c)] /\ through.kind \in {"plain", "back"}
  BY DEF Fallthroughs
<1>5. through \in EdgeObjects /\ h.src[through] = ResolvedAt(c)
  BY <1>2, <1>3, <1>4 DEF Heaps, EndsAgree
<1>6. through \in PlacedEdges(h)
  BY <1>2, <1>3, <1>5 DEF EndsPlaced
<1>7. through \in OwnEdges(prog)
  BY <1>4, <1>6, LinkingEdgeFacts DEF EdgesFor
<1>8. FromOf(through) = through.from /\ ToOf(through) = through.to
  BY <1>7, EndsOf
<1>9. Object(S, through.from) = Object(S, c) /\ h.tgt[through] = Object(S, through.to)
  BY <1>1, <1>5, <1>6, <1>8 DEF Layout
<1>10. through.to = ReturnPoint(prog, c)
  BY <1>1, <1>4, <1>7, <1>9, ObjectFacts, ReturnPointFacts
<1>11. through # CallEdge(c)
  BY <1>4, LinkingEdgeFacts
<1> QED
  BY <1>5, <1>9, <1>10, <1>11

(* The three calls the second pass makes of the container for one call c.  *)
Placed(h, c) == ReplaceVertex(h, c[1], Parsed(c), ResolvedAt(c))
Called(h, c) ==
  AddEdge(Placed(h, c), c[1], ResolvedAt(c), Parsed(EntryOf(Callee(prog, c))), CallEdge(c))
Joined(h, c, through) ==
  AddEdge(Called(h, c), Callee(prog, c), Parsed(ExitOf(Callee(prog, c))),
          Called(h, c).tgt[through], ReturnEdge(c))

(* The second pass for one call, whatever has been replaced before.        *)
LEMMA CallLinked ==
  ASSUME prog \in Programs, NEW h, Graph!Good(h), NEW R \in SUBSET Resolved(prog),
         Layout(h, R), PlacedEdges(h) = EdgesFor(R), NEW c \in Resolved(prog), c \notin R,
         NEW through, through \in Fallthroughs(Placed(h, c), ResolvedAt(c)),
         NEW n, n = Joined(h, c, through)
  PROVE  /\ Graph!Good(n) /\ Layout(n, R \cup {c}) /\ PlacedEdges(n) = EdgesFor(R \cup {c})
<1> DEFINE S      == R \cup {c}
           callee == Callee(prog, c)
           placed == Placed(h, c)
           called == Called(h, c)
<1>1. /\ c \in VerticesOf(prog) /\ c[1] \in Functions /\ callee \in Functions
      /\ EntryOf(callee) \in VerticesOf(prog) /\ ExitOf(callee) \in VerticesOf(prog)
      /\ ReturnPoint(prog, c) \in VerticesOf(prog) /\ c \in CallSites(prog)
  BY ResolvedFacts, VertexFacts, FunctionsThere
<1>2. CallEdge(c) \in EdgeObjects /\ ReturnEdge(c) \in EdgeObjects
  <2> DEFINE here == OwnEdges(prog) \cup {CallEdge(d) : d \in Resolved(prog)}
                     \cup {ReturnEdge(d) : d \in Resolved(prog)}
  <2>1. CallEdge(c) \in here /\ ReturnEdge(c) \in here
    OBVIOUS
  <2>2. here \subseteq EdgeObjects
    BY Zenon DEF EdgeObjects
  <2> QED
    BY <2>1, <2>2
<1>3. Object(S, c) = ResolvedAt(c) /\ S \in SUBSET Resolved(prog)
  BY DEF Object
<1>4. Object(S, EntryOf(callee)) = Parsed(EntryOf(callee))
      /\ Object(S, ExitOf(callee)) = Parsed(ExitOf(callee))
  <2>1. \A d \in S : d # EntryOf(callee) /\ d # ExitOf(callee)
    BY <1>3, ResolvedFacts, CallFacts
  <2> QED
    BY <2>1 DEF Object
<1>5. CallEdge(c) \notin EdgesFor(R) /\ ReturnEdge(c) \notin EdgesFor(R)
  BY LinkingEdgeFacts DEF EdgesFor
<1>6. /\ FromOf(CallEdge(c)) = c /\ ToOf(CallEdge(c)) = EntryOf(callee)
      /\ FromOf(ReturnEdge(c)) = ExitOf(callee) /\ ToOf(ReturnEdge(c)) = ReturnPoint(prog, c)
  BY EndsOf
<1> HIDE DEF S, callee, placed, called
<1>7. Graph!Good(placed) /\ Layout(placed, S) /\ PlacedEdges(placed) = EdgesFor(R)
  BY ReplaceLayout DEF S, placed, Placed
<1>8. /\ called = AddEdge(placed, c[1], ResolvedAt(c), Parsed(EntryOf(callee)), CallEdge(c))
      /\ n = AddEdge(called, callee, Parsed(ExitOf(callee)), called.tgt[through], ReturnEdge(c))
  BY DEF callee, placed, called, Called, Joined
<1>9. /\ Graph!Good(called) /\ Layout(called, S)
      /\ PlacedEdges(called) = EdgesFor(R) \cup {CallEdge(c)}
      /\ \A f \in EdgeObjects : f # CallEdge(c) => called.tgt[f] = placed.tgt[f]
  BY <1>1, <1>2, <1>3, <1>4, <1>5, <1>6, <1>7, <1>8, AddLayout
<1>10. called.tgt[through] = Object(S, ReturnPoint(prog, c))
  <2>1. PlacedEdges(placed) \subseteq EdgesFor(S) /\ c \in S
    BY <1>7 DEF EdgesFor, S
  <2>2. through \in Fallthroughs(placed, ResolvedAt(c))
    BY DEF placed
  <2>3. /\ through \in EdgeObjects /\ through # CallEdge(c)
        /\ placed.tgt[through] = Object(S, ReturnPoint(prog, c))
    BY <1>3, <1>7, <2>1, <2>2, GoesOn
  <2> QED
    BY <1>9, <2>3
<1>11. ReturnEdge(c) \notin PlacedEdges(called)
  BY <1>5, <1>9, LinkingEdgeFacts
<1>12. /\ Graph!Good(n) /\ Layout(n, S)
       /\ PlacedEdges(n) = EdgesFor(R) \cup {CallEdge(c)} \cup {ReturnEdge(c)}
  BY <1>1, <1>2, <1>4, <1>6, <1>8, <1>9, <1>10, <1>11, AddLayout
<1>13. EdgesFor(S) = EdgesFor(R) \cup {CallEdge(c)} \cup {ReturnEdge(c)}
  BY DEF EdgesFor, S
<1> QED
  BY <1>12, <1>13 DEF S

LEMMA ReplaceCallGood ==
  ASSUME LinkInv, ReplaceCall
  PROVE  /\ LinkInv' /\ UNCHANGED prog
         /\ \E c \in Resolved(prog) \ Replaced : Replaced' = Replaced \cup {c}
<1> DEFINE c == Head(pairs)
<1>1. /\ Progress /\ prog \in Programs /\ current # "" /\ unseen = {} /\ pairs # <<>>
      /\ pairs' = Tail(pairs) /\ UNCHANGED <<prog, left, current, unseen, unresolved>>
  BY DEF LinkInv, Progress, ReplaceCall
<1>2. /\ c \in Resolved(prog) /\ c \in Waiting /\ pairs' \in Seq(Resolved(prog))
      /\ Waiting' = Waiting \ {c} /\ Once(pairs')
  <2>1. pairs \in Seq(Resolved(prog)) /\ Once(pairs)
    BY <1>1 DEF Progress
  <2> QED
    BY <1>1, <2>1, PairsTail DEF Waiting
<1>3. PICK through \in Fallthroughs(Placed(heap, c), ResolvedAt(c)) :
        heap' = Joined(heap, c, through)
  BY <1>1, <1>2 DEF ReplaceCall, Joined, Called, Placed, Progress
<1>4. c[1] = current /\ c \notin Replaced /\ current \notin left
  BY <1>1, <1>2 DEF Progress, Replaced
<1>5. Replaced' = Replaced \cup {c} /\ Replaced \in SUBSET Resolved(prog)
  <2> HIDE DEF c
  <2> QED
    BY <1>1, <1>2, <1>4 DEF Replaced
<1>6. /\ Graph!Good(heap') /\ Layout(heap', Replaced \cup {c})
      /\ PlacedEdges(heap') = EdgesFor(Replaced \cup {c})
  <2>1. /\ Graph!Good(heap) /\ Layout(heap, Replaced)
        /\ PlacedEdges(heap) = EdgesFor(Replaced)
    BY DEF LinkInv
  <2> HIDE DEF c
  <2>2. prog \in Programs /\ c \in Resolved(prog) /\ c \notin Replaced
    BY <1>1, <1>2, <1>4
  <2> QED
    BY <1>3, <1>5, <2>1, <2>2, CallLinked
<1>7. Layout(heap, Replaced)' /\ (PlacedEdges(heap) = EdgesFor(Replaced))'
  BY <1>1, <1>5, <1>6 DEF Layout, VerticesIn, FromOf, ToOf, EdgesFor
<1>8. Progress'
  BY <1>1, <1>2 DEF Progress
<1>9. Graph!Good(heap)'
  BY <1>6
<1> QED
  BY <1>1, <1>2, <1>4, <1>5, <1>7, <1>8, <1>9 DEF LinkInv
-----------------------------------------------------------------------------
(* What follows.                                                           *)

(* The pass changes nothing but which calls have been replaced.            *)
LEMMA StepGood ==
  ASSUME LinkInv, [Next]_vars
  PROVE  /\ LinkInv' /\ UNCHANGED prog
         /\ \/ UNCHANGED Replaced
            \/ \E c \in Resolved(prog) \ Replaced : Replaced' = Replaced \cup {c}
<1>1. CASE LinkFunction
  BY <1>1, LinkFunctionGood
<1>2. CASE ListCall
  BY <1>2, ListCallGood
<1>3. CASE ReplaceCall
  BY <1>3, ReplaceCallGood
<1>4. CASE FunctionLinked
  BY <1>4, FunctionLinkedGood
<1>5. CASE UNCHANGED vars
  <2>1. UNCHANGED <<prog, heap, left, current, unseen, pairs, unresolved>>
    BY <1>5 DEF vars
  <2>2. UNCHANGED Waiting
    BY <2>1 DEF Waiting
  <2>3. UNCHANGED Replaced
    BY <2>1, <2>2 DEF Replaced
  <2>4. Progress'
    BY <2>1, <2>2 DEF LinkInv, Progress
  <2> QED
    BY <2>1, <2>3, <2>4, SameLayout
<1> QED
  BY <1>1, <1>2, <1>3, <1>4, <1>5 DEF Next

(* Function::Link keeps its bookkeeping: the graphs are at every moment    *)
(* those of the calls it has replaced.                                     *)
THEOREM LinkInvariant == Spec => []LinkInv
<1>1. Init => LinkInv
  BY InitGood
<1>2. LinkInv /\ [Next]_vars => LinkInv'
  BY StepGood
<1> QED
  BY <1>1, <1>2, PTL DEF Spec

(* Deleting the replaced calls leaves nothing behind that points at one,   *)
(* in whatever graph (Function.cpp:151-152).                               *)
THEOREM AlwaysLinkedConsistent == Spec => []LinkedConsistent
<1>1. LinkInv => LinkedConsistent
  BY GoodMeans DEF LinkInv, Progress, LinkedConsistent, TypeOK
<1> QED
  BY <1>1, LinkInvariant, PTL

(* A call comes back to where its caller goes on, also when that vertex is *)
(* itself a call that has been replaced.                                   *)
THEOREM AlwaysRejoins == Spec => []ReturnsRejoin
<1>1. LinkInv => ReturnsRejoin
  <2> SUFFICES ASSUME LinkInv, NEW c \in Resolved(prog), ReturnEdge(c) \in PlacedEdges(heap),
                      NEW through \in Fallthroughs(heap, ResolvedAt(c))
               PROVE  heap.tgt[ReturnEdge(c)] = heap.tgt[through]
    BY DEF ReturnsRejoin
  <2>1. /\ prog \in Programs /\ Graph!Good(heap) /\ Layout(heap, Replaced)
        /\ PlacedEdges(heap) = EdgesFor(Replaced) /\ Replaced \in SUBSET Resolved(prog)
    BY DEF LinkInv, Progress, Replaced
  <2>2. c \in Replaced
    BY <2>1, LinkingEdgeFacts DEF EdgesFor
  <2>3. heap.tgt[through] = Object(Replaced, ReturnPoint(prog, c))
    BY <2>1, <2>2, GoesOn
  <2>4. heap.tgt[ReturnEdge(c)] = Object(Replaced, ReturnPoint(prog, c))
    BY <2>1, EndsOf DEF Layout
  <2> QED
    BY <2>3, <2>4
<1> QED
  BY <1>1, LinkInvariant, PTL

(* Whatever the order of files, functions and vertices, the calls reported *)
(* are those to functions no file defines and all others are resolved.     *)
THEOREM AlwaysUnresolvedExact == Spec => []UnresolvedExact
<1>1. LinkInv => UnresolvedExact
  <2> SUFFICES ASSUME LinkInv, left = {}, current = ""
               PROVE  /\ unresolved = CallSites(prog) \ Resolved(prog)
                      /\ PlacedVertices(heap) =
                           {Parsed(v) : v \in VerticesOf(prog) \ Resolved(prog)}
                           \cup {ResolvedAt(c) : c \in Resolved(prog)}
    BY DEF UnresolvedExact, Linked
  <2>1. prog \in Programs /\ unseen = {} /\ pairs = <<>> /\ Waiting = {}
    BY NothingWaits DEF LinkInv, Progress
  <2>2. unresolved = CallSites(prog) \ Resolved(prog)
    BY <2>1 DEF LinkInv, Progress
  <2>3. Replaced = Resolved(prog)
    BY <2>1 DEF Replaced
  <2>4. \A f \in Functions : heap.verts[f] = {Object(Resolved(prog), v) : v \in VerticesIn(f)}
    BY <2>3 DEF LinkInv, Layout
  <2>5. \A v \in VerticesOf(prog) : v[1] \in Functions /\ v \in VerticesIn(v[1])
    BY <2>1, VertexFacts, FunctionsThere DEF VerticesIn
  <2>6. PlacedVertices(heap) = {Object(Resolved(prog), v) : v \in VerticesOf(prog)}
    <3>1. ASSUME NEW w \in PlacedVertices(heap)
          PROVE  \E v \in VerticesOf(prog) : w = Object(Resolved(prog), v)
      <4>1. PICK f \in Functions : w \in heap.verts[f]
        BY DEF PlacedVertices
      <4>2. PICK v \in VerticesIn(f) : w = Object(Resolved(prog), v)
        BY <2>4, <4>1
      <4> QED
        BY <4>2 DEF VerticesIn
    <3>2. ASSUME NEW v \in VerticesOf(prog)
          PROVE  Object(Resolved(prog), v) \in PlacedVertices(heap)
      <4>1. Object(Resolved(prog), v) \in heap.verts[v[1]] /\ v[1] \in Functions
        BY <2>4, <2>5
      <4> QED
        BY <4>1 DEF PlacedVertices
    <3> QED
      BY <3>1, <3>2
  <2>7. Resolved(prog) \subseteq VerticesOf(prog)
    BY <2>1, ResolvedFacts
  <2> QED
    BY <2>2, <2>6, <2>7 DEF Object
<1> QED
  BY <1>1, LinkInvariant, PTL
-----------------------------------------------------------------------------
(* The pass implements Linking.                                            *)

(* What the edge of the abstract graph is that an edge object stands for.  *)
LEMMA ArcsOfEdges ==
  ASSUME LinkInv
  PROVE  /\ \A e \in OwnEdges(prog) : ArcOf(e) = e
         /\ \A c \in Replaced :
              /\ ArcOf(CallEdge(c)) =
                   [from |-> c, to |-> EntryOf(Callee(prog, c)), kind |-> "call", call |-> c]
              /\ ArcOf(ReturnEdge(c)) =
                   [from |-> ExitOf(Callee(prog, c)), to |-> ReturnPoint(prog, c),
                    kind |-> "return", call |-> c]
<1>1. /\ prog \in Programs /\ Replaced \subseteq Resolved(prog)
      /\ \A e \in EdgesFor(Replaced) : /\ heap.src[e].at = FromOf(e)
                                        /\ heap.tgt[e].at = ToOf(e)
  <2>1. prog \in Programs /\ Replaced \subseteq Resolved(prog)
    BY DEF LinkInv, Progress, Replaced
  <2>2. \A e \in EdgesFor(Replaced) : /\ heap.src[e] = Object(Replaced, FromOf(e))
                                       /\ heap.tgt[e] = Object(Replaced, ToOf(e))
    BY DEF LinkInv, Layout
  <2> QED
    BY <2>1, <2>2, ObjectFacts
<1>2. ASSUME NEW e \in OwnEdges(prog) PROVE ArcOf(e) = e
  <2>1. heap.src[e].at = e.from /\ heap.tgt[e].at = e.to
    BY <1>1, EndsOf DEF EdgesFor
  <2>2. e = [from |-> e.from, to |-> e.to, kind |-> e.kind, call |-> NoCall]
    BY <1>1, OwnEdgeFacts
  <2> QED
    BY <2>1, <2>2 DEF ArcOf
<1>3. ASSUME NEW c \in Replaced
      PROVE  /\ ArcOf(CallEdge(c)) =
                  [from |-> c, to |-> EntryOf(Callee(prog, c)), kind |-> "call", call |-> c]
             /\ ArcOf(ReturnEdge(c)) =
                  [from |-> ExitOf(Callee(prog, c)), to |-> ReturnPoint(prog, c),
                   kind |-> "return", call |-> c]
  <2>1. CallEdge(c) \in EdgesFor(Replaced) /\ ReturnEdge(c) \in EdgesFor(Replaced)
    BY DEF EdgesFor
  <2>2. "to" \notin DOMAIN CallEdge(c) /\ "to" \notin DOMAIN ReturnEdge(c)
    BY DEF CallEdge, ReturnEdge
  <2> QED
    BY <1>1, <2>1, <2>2, EndsOf, LinkingEdgeFacts DEF ArcOf
<1> QED
  BY <1>2, <1>3

LEMMA SameProgram ==
  ASSUME NEW p
  PROVE  /\ Abstract!OwnEdges(p) = OwnEdges(p)
         /\ Abstract!LinkEdges(p) = LinkEdges(p)
         /\ Abstract!Resolved(p) = Resolved(p)
<1>1. Abstract!OwnEdges(p) = OwnEdges(p)
  BY Zenon DEF Abstract!OwnEdges, OwnEdges, Abstract!NoCall, NoCall
<1>2. Abstract!Resolved(p) = Resolved(p) /\ \A c : Abstract!Callee(p, c) = Callee(p, c)
  BY Zenon DEF Abstract!Resolved, Resolved, Abstract!CallSites, CallSites,
               Abstract!Callee, Callee
<1>3. \A c : Abstract!ReturnPoint(p, c) = ReturnPoint(p, c)
  BY Zenon DEF Abstract!ReturnPoint, ReturnPoint
<1>4. \A f : Abstract!EntryOf(f) = EntryOf(f) /\ Abstract!ExitOf(f) = ExitOf(f)
  BY DEF Abstract!EntryOf, EntryOf, Abstract!ExitOf, ExitOf
<1>5. Abstract!LinkEdges(p) = LinkEdges(p)
  <2> DEFINE There(e) == \E c \in Resolved(p) :
               \/ e = [from |-> c, to |-> EntryOf(Callee(p, c)), kind |-> "call", call |-> c]
               \/ e = [from |-> ExitOf(Callee(p, c)), to |-> ReturnPoint(p, c),
                       kind |-> "return", call |-> c]
  <2>1. \A e : e \in LinkEdges(p) <=> There(e)
    BY DEF LinkEdges
  <2>2. \A e : e \in Abstract!LinkEdges(p) <=> There(e)
    BY <1>2, <1>3, <1>4 DEF Abstract!LinkEdges
  <2> HIDE DEF There
  <2> QED
    BY <2>1, <2>2
<1> QED
  BY <1>1, <1>2, <1>5

LEMMA CallAndReturnFacts ==
  ASSUME prog \in Programs, NEW c \in Resolved(prog)
  PROVE  Abstract!CallAndReturn(c) =
           {[from |-> c, to |-> EntryOf(Callee(prog, c)), kind |-> "call", call |-> c],
            [from |-> ExitOf(Callee(prog, c)), to |-> ReturnPoint(prog, c),
             kind |-> "return", call |-> c]}
<1>1. Abstract!CallAndReturn(c) = {e \in LinkEdges(prog) : e.call = c}
  BY SameProgram DEF Abstract!CallAndReturn
<1> QED
  BY <1>1 DEF LinkEdges

Arcs == {ArcOf(e) : e \in PlacedEdges(heap)}

LEMMA ArcsAre ==
  ASSUME LinkInv
  PROVE  Arcs = OwnEdges(prog) \cup UNION {Abstract!CallAndReturn(c) : c \in Replaced}
<1>1. /\ prog \in Programs /\ Replaced \subseteq Resolved(prog)
      /\ PlacedEdges(heap) = EdgesFor(Replaced)
  BY DEF LinkInv, Progress, Replaced
<1>2. \A c \in Replaced : Abstract!CallAndReturn(c) = {ArcOf(CallEdge(c)), ArcOf(ReturnEdge(c))}
  BY <1>1, ArcsOfEdges, CallAndReturnFacts
<1>3. \A e \in OwnEdges(prog) : ArcOf(e) = e
  BY ArcsOfEdges
<1> QED
  BY <1>1, <1>2, <1>3 DEF Arcs, EdgesFor

(* Every edge the passes make is one of a call and its return, both come   *)
(* at once, no call gets them twice, and nothing else ever changes, also   *)
(* while the vertices at their ends are being replaced.  That every call   *)
(* gets them in the end is left to TLC.                                    *)
THEOREM LinkingIsSafe == Spec => Abstract!Safety
<1>1. Init => Abstract!Init
  <2> SUFFICES ASSUME Init PROVE Abstract!Init
    OBVIOUS
  <2>1. LinkInv
    BY InitGood
  <2>2. \A c \in CallSites(prog) : c[1] \in left
    BY CallFacts DEF Init
  <2>3. Replaced = {}
    BY <2>2 DEF Replaced, Resolved
  <2>4. Arcs = OwnEdges(prog)
    BY <2>1, <2>3, ArcsAre
  <2> QED
    BY <2>4, SameProgram DEF Init, Arcs, Abstract!Init
<1>2. LinkInv /\ [Next]_vars => [Abstract!LinkCall]_<<prog, Arcs>>
  <2> SUFFICES ASSUME LinkInv, [Next]_vars PROVE [Abstract!LinkCall]_<<prog, Arcs>>
    OBVIOUS
  <2>1. LinkInv' /\ UNCHANGED prog
    BY StepGood
  <2>2. Arcs = OwnEdges(prog) \cup UNION {Abstract!CallAndReturn(c) : c \in Replaced}
    BY ArcsAre
  <2>3. Arcs' = OwnEdges(prog) \cup UNION {Abstract!CallAndReturn(c) : c \in Replaced'}
    <3>1. (Arcs = OwnEdges(prog) \cup UNION {Abstract!CallAndReturn(c) : c \in Replaced})'
      BY <2>1, ArcsAre, PTL
    <3>2. \A c : Abstract!CallAndReturn(c)' = Abstract!CallAndReturn(c)
      BY <2>1 DEF Abstract!CallAndReturn
    <3> QED
      BY <2>1, <3>1, <3>2
  <2>4. CASE UNCHANGED Replaced
    BY <2>1, <2>2, <2>3, <2>4
  <2>5. CASE \E c \in Resolved(prog) \ Replaced : Replaced' = Replaced \cup {c}
    <3>1. PICK c \in Resolved(prog) \ Replaced : Replaced' = Replaced \cup {c}
      BY <2>5
    <3>2. Arcs' = Arcs \cup Abstract!CallAndReturn(c)
      BY <2>2, <2>3, <3>1
    <3>3. ~ Abstract!CallAndReturn(c) \subseteq Arcs
      <4> DEFINE new == [from |-> c, to |-> EntryOf(Callee(prog, c)), kind |-> "call", call |-> c]
      <4>1. prog \in Programs /\ Replaced \subseteq Resolved(prog)
        BY DEF LinkInv, Progress, Replaced
      <4>2. new \in Abstract!CallAndReturn(c) /\ new.kind = "call" /\ new.call = c
        BY <4>1, CallAndReturnFacts
      <4> HIDE DEF new
      <4>3. new \notin OwnEdges(prog)
        BY <4>1, <4>2, OwnEdgeFacts DEF ArcKind
      <4>4. \A d \in Replaced : new \notin Abstract!CallAndReturn(d)
        BY <4>2 DEF Abstract!CallAndReturn
      <4> QED
        BY <2>2, <4>2, <4>3, <4>4
    <3> QED
      BY <2>1, <3>1, <3>2, <3>3, SameProgram DEF Abstract!LinkCall, Arcs
  <2> QED
    BY <2>4, <2>5, StepGood
<1> QED
  BY <1>1, <1>2, LinkInvariant, PTL DEF Spec, Abstract!Safety, Arcs
=============================================================================
