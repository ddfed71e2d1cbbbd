------------------------------ MODULE Graph_proofs ------------------------------
(* Theorems about Graph, for every finite set of IDs and every bound on the  *)
(* number of edges.                                                          *)
EXTENDS Graph, FiniteSetTheorems, SequenceTheorems, TLAPS

--------------------------------------------------------------------------------
(* Lemmas about sequences                                                    *)

\* What a sequence holds after Append, and that nothing is in it twice.
LEMMA AppendElement ==
    ASSUME NEW S, NEW s \in Seq(S), NEW e \in S
    PROVE  /\ Append(s, e) \in Seq(S) /\ Len(Append(s, e)) = Len(s) + 1
           /\ \A i \in 1..Len(s) : Append(s, e)[i] = s[i]
           /\ Append(s, e)[Len(s) + 1] = e
           /\ Range(Append(s, e)) = Range(s) \cup {e}
           /\ IsInjective(s) /\ e \notin Range(s) => IsInjective(Append(s, e))
  <1> DEFINE r == Append(s, e)
  <1>1. /\ r \in Seq(S) /\ Len(r) = Len(s) + 1
        /\ \A i \in 1..Len(s) : r[i] = s[i]
        /\ r[Len(s) + 1] = e
    BY AppendProperties
  <1> HIDE DEF r
  <1>2. /\ Len(s) \in Nat /\ DOMAIN s = 1..Len(s)
        /\ DOMAIN r = 1..(Len(s) + 1)
    BY <1>1, LenProperties
  <1>3. Range(r) = Range(s) \cup {e}
    BY <1>1, <1>2 DEF Range
  <1>4. IsInjective(s) /\ e \notin Range(s) => IsInjective(r)
    BY <1>1, <1>2 DEF Range, IsInjective
  <1> QED
    BY <1>1, <1>3, <1>4 DEF r

\* An injective sequence has as many elements as places.
LEMMA InjectiveLength ==
    ASSUME NEW S, NEW s \in Seq(S), IsInjective(s)
    PROVE  IsFiniteSet(Range(s)) /\ Cardinality(Range(s)) = Len(s)
  <1>1. Len(s) \in Nat /\ DOMAIN s = 1..Len(s)
    BY LenProperties
  <1>2. IsFiniteSet(DOMAIN s) /\ Cardinality(DOMAIN s) = Len(s)
    BY <1>1, FS_Interval, SMTT(30)
  <1>3. s \in Surjection(DOMAIN s, Range(s)) /\ s \in Injection(DOMAIN s, Range(s))
    BY DEF Surjection, Injection, IsInjective, Range
  <1> QED
    BY <1>2, <1>3, FS_Surjection

\* The empty sequence.
LEMMA Empty ==
    ASSUME NEW S
    PROVE  <<>> \in Seq(S) /\ Len(<<>>) = 0 /\ Range(<<>>) = {} /\ DOMAIN <<>> = {} /\ IsInjective(<<>>)
  <1>1. <<>> \in Seq(S) /\ Len(<<>>) = 0
    BY EmptySeq
  <1>2. DOMAIN <<>> = {}
    BY <1>1, LenProperties
  <1> QED
    BY <1>1, <1>2 DEF Range, IsInjective

--------------------------------------------------------------------------------
(* The graph                                                                 *)

GraphOK == nodes \subseteq IDs /\ edges \in [IDs -> Seq(IDs)] /\ reverse \in [IDs -> Seq(IDs)]

\* The reverse index has the same edges.
Mirror == \A s, t \in IDs : t \in Range(edges[s]) <=> s \in Range(reverse[t])

\* An algorithm that is not running has no locals.
Fresh ==
    /\ op \notin {"sorting", "order", "error"} => deg = NoDegrees /\ ready = {} /\ sorted = <<>>
    /\ op \notin {"searching", "cycles"} => stack = <<>> /\ next = <<>> /\ done = {} /\ cycles = {}
    /\ op \notin {"spreading", "affected"} => start = {} /\ frontier = {} /\ affected = {}

OpOK == op \in {"idle"} \cup Running \cup Returned

GraphInv == GraphOK /\ Mirror /\ OpOK /\ Fresh

\* The graph and its reverse index grow together.
LEMMA AddEdgeKeeps ==
    ASSUME GraphOK, Mirror, NEW s \in IDs, NEW t \in IDs, AddEdge(s, t)
    PROVE  GraphOK' /\ Mirror'
  <1>1. edges[s] \in Seq(IDs) /\ reverse[t] \in Seq(IDs)
    BY DEF GraphOK
  <1> DEFINE e == Append(edges[s], t)
             r == Append(reverse[t], s)
  <1>2. /\ e \in Seq(IDs) /\ Range(e) = Range(edges[s]) \cup {t}
        /\ r \in Seq(IDs) /\ Range(r) = Range(reverse[t]) \cup {s}
    BY <1>1, AppendElement
  <1>3. /\ edges' = [edges EXCEPT ![s] = e] /\ reverse' = [reverse EXCEPT ![t] = r]
        /\ nodes' = nodes
    BY DEF AddEdge
  <1> HIDE DEF e, r
  <1>4. GraphOK'
    BY <1>2, <1>3 DEF GraphOK
  <1>5. Mirror'
    <2> SUFFICES ASSUME NEW a \in IDs, NEW b \in IDs
                 PROVE  b \in Range(edges'[a]) <=> a \in Range(reverse'[b])
      BY DEF Mirror
    <2>1. /\ edges'[a] = IF a = s THEN e ELSE edges[a]
          /\ reverse'[b] = IF b = t THEN r ELSE reverse[b]
      BY <1>3 DEF GraphOK
    <2>2. b \in Range(edges[a]) <=> a \in Range(reverse[b])
      BY DEF Mirror
    <2>3. b \in Range(edges'[a]) <=> b \in Range(edges[a]) \/ (a = s /\ b = t)
      BY <2>1, <1>2
    <2>4. a \in Range(reverse'[b]) <=> a \in Range(reverse[b]) \/ (a = s /\ b = t)
      BY <2>1, <1>2
    <2> QED
      BY <2>2, <2>3, <2>4
  <1> QED
    BY <1>4, <1>5

\* What each step does to the graph and to op.
LEMMA Steps ==
    ASSUME [Next]_vars
    PROVE  \/ \E id \in IDs : AddNode(id)
           \/ \E s, t \in IDs : AddEdge(s, t)
           \/ Clear
           \/ SortBegin \/ SearchBegin \/ \E n \in IDs : SpreadBegin(n)
           \/ SortNext \/ SortEnd
           \/ \E n \in IDs : SearchRoot(n)
           \/ SearchEdge \/ SearchLeave \/ SearchEnd
           \/ \E n \in IDs : SpreadNext(n)
           \/ SpreadEnd \/ Return
           \/ UNCHANGED vars
  BY DEF Next, Begin, Sort, Search, Spread

\* The graph mirrors its reverse index, whatever was added and cleared.
THEOREM GraphCorrect == Spec => []GraphInv
  <1>1. Init => GraphInv
    <2> SUFFICES ASSUME Init PROVE GraphInv
      OBVIOUS
    <2>1. <<>> \in Seq(IDs) /\ Range(<<>>) = {}
      BY Empty
    <2>2. \A s \in IDs : edges[s] = <<>> /\ reverse[s] = <<>>
      BY DEF Init, NoEdges
    <2>3. GraphOK /\ Mirror
      BY <2>1, <2>2 DEF Init, GraphOK, Mirror, NoEdges
    <2> QED
      BY <2>3 DEF Init, GraphInv, OpOK, Fresh
  <1>2. GraphInv /\ [Next]_vars => GraphInv'
    <2> SUFFICES ASSUME GraphInv, [Next]_vars PROVE GraphInv'
      OBVIOUS
    <2> USE DEF GraphInv
    <2>1. ASSUME NEW id \in IDs, AddNode(id) PROVE GraphInv'
      BY <2>1 DEF AddNode, Change, GraphOK, Mirror, OpOK, Fresh, topoVars, dfsVars, bfsVars
    <2>2. ASSUME NEW s \in IDs, NEW t \in IDs, AddEdge(s, t) PROVE GraphInv'
      <3>1. GraphOK' /\ Mirror'
        BY <2>2, AddEdgeKeeps
      <3>2. OpOK' /\ Fresh'
        BY <2>2 DEF AddEdge, Change, OpOK, Fresh, topoVars, dfsVars, bfsVars
      <3> QED
        BY <3>1, <3>2
    <2>3. CASE Clear
      <3>1. <<>> \in Seq(IDs) /\ Range(<<>>) = {}
        BY Empty
      <3>2. \A s \in IDs : edges'[s] = <<>> /\ reverse'[s] = <<>>
        BY <2>3 DEF Clear, NoEdges
      <3>3. GraphOK' /\ Mirror'
        BY <3>1, <3>2, <2>3 DEF Clear, GraphOK, Mirror, NoEdges
      <3>4. OpOK' /\ Fresh'
        BY <2>3 DEF Clear, Change, OpOK, Fresh, topoVars, dfsVars, bfsVars
      <3> QED
        BY <3>3, <3>4
    <2>4. ASSUME UNCHANGED graphVars PROVE GraphOK' /\ Mirror'
      BY <2>4 DEF graphVars, GraphOK, Mirror
    <2>5. ASSUME SortBegin \/ SortNext \/ SortEnd PROVE GraphInv'
      <3>1. OpOK' /\ Fresh' /\ UNCHANGED graphVars
        BY <2>5 DEF SortBegin, SortNext, SortEnd, OpOK, Running, Returned, Fresh, topoVars, dfsVars, bfsVars
      <3> QED
        BY <3>1, <2>4
    <2>6. ASSUME SearchBegin \/ SearchEdge \/ SearchLeave \/ SearchEnd \/ \E n \in IDs : SearchRoot(n)
          PROVE  GraphInv'
      <3>1. /\ UNCHANGED <<graphVars, topoVars, bfsVars>> /\ op' \in {"searching", "cycles"}
            /\ op \in {"idle", "searching"}
        BY <2>6 DEF SearchBegin, SearchEdge, SearchLeave, SearchEnd, SearchRoot
      <3>2. OpOK' /\ Fresh'
        BY <3>1 DEF OpOK, Running, Returned, Fresh, topoVars, bfsVars
      <3> QED
        BY <3>1, <3>2, <2>4
    <2>7. ASSUME SpreadEnd \/ \E n \in IDs : SpreadBegin(n) \/ SpreadNext(n) PROVE GraphInv'
      <3>1. /\ UNCHANGED <<graphVars, topoVars, dfsVars>> /\ op' \in {"spreading", "affected"}
            /\ op \in {"idle", "spreading"}
        BY <2>7 DEF SpreadBegin, SpreadNext, SpreadEnd
      <3>2. OpOK' /\ Fresh'
        BY <3>1 DEF OpOK, Running, Returned, Fresh, topoVars, dfsVars
      <3> QED
        BY <3>1, <3>2, <2>4
    <2>8. CASE Return
      <3>1. OpOK' /\ Fresh' /\ UNCHANGED graphVars
        BY <2>8 DEF Return, OpOK, Fresh
      <3> QED
        BY <3>1, <2>4
    <2>9. CASE UNCHANGED vars
      BY <2>9, <2>4 DEF vars, graphVars, topoVars, dfsVars, bfsVars, OpOK, Fresh
    <2> QED
      BY <2>1, <2>2, <2>3, <2>5, <2>6, <2>7, <2>8, <2>9, Steps
  <1> QED
    BY <1>1, <1>2, PTL DEF Spec

--------------------------------------------------------------------------------
(* AffectedNodes                                                             *)

\* What is affected leads to the argument; who leads to it is affected, or
\* will be when the queue is through.
SpreadInv ==
    op \in {"spreading", "affected"} =>
        /\ start \subseteq affected /\ frontier \subseteq affected /\ affected \subseteq IDs
        /\ \A e \in EdgesBack : e[1] \in affected \ frontier => e[2] \in affected
        /\ \A S \in SUBSET IDs : start \subseteq S /\ Closed(S, EdgesBack) => affected \subseteq S
        /\ op = "affected" => frontier = {}

\* The importers of a node are the other ends of its edges.
LEMMA ImportersAre ==
    ASSUME GraphOK, Mirror, NEW n \in IDs
    PROVE  /\ Importers(n) \subseteq IDs
           /\ \A m : <<n, m>> \in EdgesBack <=> m \in Importers(n)
  <1>1. reverse[n] \in Seq(IDs)
    BY DEF GraphOK
  <1>2. Range(reverse[n]) \subseteq IDs
    BY <1>1, LenProperties, ElementOfSeq DEF Range
  <1>3. \A m \in IDs : Edge(m, n) <=> m \in Range(reverse[n])
    BY DEF Mirror, Edge
  <1> QED
    BY <1>2, <1>3 DEF Importers, EdgesBack

LEMMA SpreadNextKeeps ==
    ASSUME GraphInv, SpreadInv, NEW n \in IDs, SpreadNext(n)
    PROVE  SpreadInv'
  <1> DEFINE I == Importers(n)
  <1>1. /\ op = "spreading" /\ op' = op /\ n \in frontier
        /\ affected' = affected \cup I
        /\ frontier' = (frontier \ {n}) \cup (I \ affected)
        /\ start' = start /\ edges' = edges
    BY DEF SpreadNext, graphVars
  <1>2. /\ I \subseteq IDs
        /\ \A m : <<n, m>> \in EdgesBack <=> m \in I
    BY ImportersAre DEF GraphInv
  <1> HIDE DEF I
  <1>3. EdgesBack' = EdgesBack
    BY <1>1 DEF EdgesBack, Edge
  <1>4. /\ start \subseteq affected /\ frontier \subseteq affected /\ affected \subseteq IDs
        /\ \A e \in EdgesBack : e[1] \in affected \ frontier => e[2] \in affected
        /\ \A S \in SUBSET IDs : start \subseteq S /\ Closed(S, EdgesBack) => affected \subseteq S
    BY <1>1 DEF SpreadInv
  <1>5. \A e \in EdgesBack : e = <<e[1], e[2]>>
    BY DEF EdgesBack
  <1>6. ASSUME NEW e \in EdgesBack, e[1] \in affected' \ frontier' PROVE e[2] \in affected'
    <2>1. CASE e[1] = n
      BY <2>1, <1>1, <1>2, <1>5
    <2>2. CASE e[1] # n
      <3>1. e[1] \in affected \ frontier
        BY <2>2, <1>6, <1>1
      <3> QED
        BY <3>1, <1>4, <1>1
    <2> QED
      BY <2>1, <2>2
  <1>7. ASSUME NEW S \in SUBSET IDs, start \subseteq S, Closed(S, EdgesBack) PROVE affected' \subseteq S
    <2>1. affected \subseteq S /\ n \in S
      BY <1>7, <1>4, <1>1
    <2>2. ASSUME NEW m \in I PROVE m \in S
      <3>1. <<n, m>> \in EdgesBack
        BY <1>2
      <3>2. \A e \in EdgesBack : e[1] \in S => e[2] \in S
        BY <1>7 DEF Closed
      <3> QED
        BY <3>1, <3>2, <2>1
    <2> QED
      BY <2>1, <2>2, <1>1
  <1>8. start' \subseteq affected' /\ frontier' \subseteq affected' /\ affected' \subseteq IDs
    BY <1>1, <1>2, <1>4
  <1>9. \A S \in SUBSET IDs : start' \subseteq S /\ Closed(S, EdgesBack') => affected' \subseteq S
    BY <1>7, <1>1, <1>3
  <1> QED
    BY <1>1, <1>3, <1>6, <1>8, <1>9 DEF SpreadInv, Closed

\* The invariant of AffectedNodes.
THEOREM SpreadCorrect == Spec => []SpreadInv
  <1>1. Init => SpreadInv
    BY DEF Init, SpreadInv
  <1>2. GraphInv /\ SpreadInv /\ [Next]_vars => SpreadInv'
    <2> SUFFICES ASSUME GraphInv, SpreadInv, [Next]_vars PROVE SpreadInv'
      OBVIOUS
    <2>1. ASSUME NEW n \in IDs, SpreadBegin(n) PROVE SpreadInv'
      BY <2>1 DEF SpreadBegin, SpreadInv
    <2>2. ASSUME NEW n \in IDs, SpreadNext(n) PROVE SpreadInv'
      BY <2>2, SpreadNextKeeps
    <2>3. ASSUME SpreadEnd \/ UNCHANGED vars PROVE SpreadInv'
      <3>1. UNCHANGED <<graphVars, bfsVars>>
        BY <2>3 DEF SpreadEnd, vars
      <3>2. EdgesBack' = EdgesBack
        BY <3>1 DEF graphVars, EdgesBack, Edge
      <3>3. /\ op' \in {"spreading", "affected"} => op \in {"spreading", "affected"}
            /\ op' = "affected" /\ op # "affected" => frontier = {}
        BY <2>3 DEF SpreadEnd, vars
      <3> QED
        BY <3>1, <3>2, <3>3 DEF bfsVars, SpreadInv, Closed
    <2>4. ASSUME op' \notin {"spreading", "affected"} PROVE SpreadInv'
      BY <2>4 DEF SpreadInv
    <2> QED
      BY <2>1, <2>2, <2>3, <2>4, Steps
      DEF AddNode, AddEdge, Clear, Change, SortBegin, SortNext, SortEnd, SearchBegin, SearchRoot,
          SearchEdge, SearchLeave, SearchEnd, Return
  <1> QED
    BY <1>1, <1>2, GraphCorrect, PTL DEF Spec

\* AffectedNodes returns just what leads to its argument (graph.go:251-278),
\* in every graph any sequence of AddNode, AddEdge and Clear can build.
THEOREM AffectedCorrectAlways == Spec => []AffectedCorrect
  <1>1. SpreadInv => AffectedCorrect
    BY DEF SpreadInv, AffectedCorrect, IsClosure, Closed
  <1> QED
    BY <1>1, SpreadCorrect, PTL

--------------------------------------------------------------------------------
(* TopologicalSort                                                           *)

\* The IDs inDegree has an entry for.
Known == nodes \cup Targets

\* A degree counts the edges from what is not sorted yet.
DegreesLeft ==
    \A t \in IDs : deg[t] = Cardinality(EdgesTo(IDs \ Range(sorted), t))

SourcesFirst ==
    \A i \in DOMAIN sorted, s \in IDs : Edge(s, sorted[i]) => \E j \in 1..(i - 1) : sorted[j] = s

\* The queue has what is not sorted and has no edge from what is not sorted.
SortInv ==
    op \in {"sorting", "order", "error"} =>
        /\ deg \in [IDs -> Nat] /\ sorted \in Seq(IDs)
        /\ DegreesLeft /\ SourcesFirst
        /\ IsInjective(sorted) /\ Range(sorted) \subseteq Known
        /\ ready = {t \in Known \ Range(sorted) : deg[t] = 0}
        /\ op # "sorting" => ready = {} /\ (op = "order" <=> Len(sorted) = Cardinality(nodes))

\* A non-empty set of IDs has a least element.
LEMMA LeastIn ==
    ASSUME NEW S \in SUBSET IDs, S # {}
    PROVE  Least(S) \in S
  <1> DEFINE below(x) == {y \in S : y < x}
             sets == {below(x) : x \in S}
  <1>1. IsFiniteSet(S) /\ S \subseteq Nat
    BY IDsAssumption, FS_Subset
  <1>2. \E B \in sets : \A C \in sets : ~ (<<C, B>> \in StrictSubsetOrdering(S))
    <2>1. sets \subseteq SUBSET S /\ sets # {}
      OBVIOUS
    <2> HIDE DEF sets
    <2> QED
      <3>1. IsWellFoundedOn(StrictSubsetOrdering(S), SUBSET S)
        BY <1>1, FS_StrictSubsetOrderingWellFounded, FS_FiniteSubsetsOfFinite
      <3> QED
        BY <2>1, <3>1, WFMin
  <1>3. PICK x \in S : \A C \in sets : ~ (<<C, below(x)>> \in StrictSubsetOrdering(S))
    BY <1>2
  <1>4. ASSUME NEW y \in S, y < x PROVE FALSE
    <2>1. below(y) \subseteq below(x) /\ y \in below(x) /\ y \notin below(y)
      <3>1. x \in Nat /\ y \in Nat
        BY <1>1
      <3>2. \A z \in S : z < y => z < x
        BY <1>1, <3>1, <1>4
      <3>3. ~ (y < y)
        BY <3>1
      <3> QED
        BY <3>2, <3>3, <1>4
    <2>2. <<below(y), below(x)>> \in StrictSubsetOrdering(S)
      <3> HIDE DEF below
      <3>1. below(y) \in SUBSET S /\ below(x) \in SUBSET S
        BY DEF below
      <3> QED
        BY <3>1, <2>1 DEF StrictSubsetOrdering
    <2> QED
      BY <2>2, <1>3
  <1>5. \A y \in S : x <= y
    BY <1>1, <1>4
  <1> QED
    BY <1>5 DEF Least

\* There are finitely many edges.
LEMMA EdgesFinite ==
    ASSUME GraphOK, NEW S \in SUBSET IDs, NEW t \in IDs
    PROVE  /\ IsFiniteSet(EdgesTo(S, t))
           /\ Cardinality(EdgesTo(S, t)) \in Nat
           /\ Cardinality(EdgesTo(S, t)) = 0 <=> EdgesTo(S, t) = {}
  <1> DEFINE slots == [s \in IDs |-> {s} \X DOMAIN edges[s]]
             sets == {{s} \X DOMAIN edges[s] : s \in IDs}
  <1>1. ASSUME NEW s \in IDs PROVE IsFiniteSet({s} \X DOMAIN edges[s])
    <2>1. edges[s] \in Seq(IDs)
      BY DEF GraphOK
    <2>2. DOMAIN edges[s] = 1..Len(edges[s]) /\ Len(edges[s]) \in Nat
      BY <2>1, LenProperties
    <2>3. IsFiniteSet(1..Len(edges[s]))
      BY <2>2, FS_Interval
    <2>4. IsFiniteSet({s})
      BY FS_Singleton
    <2> QED
      BY <2>2, <2>3, <2>4, FS_Product
  <1>2. slots \in Surjection(IDs, sets)
    BY DEF Surjection
  <1>3. IsFiniteSet(sets)
    BY <1>2, IDsAssumption, FS_Surjection
  <1>4. IsFiniteSet(EdgeSlots)
    BY <1>1, <1>3, FS_UNION DEF EdgeSlots
  <1>5. IsFiniteSet(EdgesTo(S, t))
    BY <1>4, FS_Subset DEF EdgesTo
  <1> QED
    BY <1>5, FS_CardinalityType, FS_EmptySet

\* Edges as pairs and as places in the lists.
LEMMA EdgesToAre ==
    ASSUME GraphOK, NEW S \in SUBSET IDs, NEW t \in IDs
    PROVE  /\ EdgesTo(S, t) # {} <=> \E s \in S : Edge(s, t)
           /\ EdgesTo(S, t) # {} => t \in Targets
  <1>1. ASSUME NEW e \in EdgesTo(S, t) PROVE e[1] \in S /\ Edge(e[1], t) /\ t \in Targets
    BY <1>1 DEF EdgesTo, EdgeSlots, Target, Edge, Range, Targets
  <1>2. ASSUME NEW s \in S, Edge(s, t) PROVE EdgesTo(S, t) # {}
    <2>1. PICK i \in DOMAIN edges[s] : edges[s][i] = t
      BY <1>2 DEF Edge, Range
    <2>2. <<s, i>> \in EdgeSlots /\ Target(<<s, i>>) = t
      BY <2>1 DEF EdgeSlots, Target
    <2>3. <<s, i>> \in EdgesTo(S, t)
      BY <2>2, <1>2 DEF EdgesTo
    <2> QED
      BY <2>3
  <1> QED
    BY <1>1, <1>2

LEMMA KnownAre ==
    ASSUME GraphOK
    PROVE  Known \subseteq IDs
  <1> SUFFICES ASSUME NEW e \in EdgeSlots PROVE Target(e) \in IDs
    BY DEF Targets, Known, GraphOK
  <1>1. PICK s \in IDs : e \in {s} \X DOMAIN edges[s]
    BY DEF EdgeSlots
  <1>2. edges[s] \in Seq(IDs) /\ e[1] = s /\ e[2] \in DOMAIN edges[s]
    BY <1>1 DEF GraphOK
  <1> QED
    BY <1>2, LenProperties, ElementOfSeq DEF Target

\* What is sorted has no edges left to it.
LEMMA SortedHasNone ==
    ASSUME GraphOK, sorted \in Seq(IDs), DegreesLeft, SourcesFirst, NEW t \in Range(sorted)
    PROVE  t \in IDs /\ deg[t] = 0
  <1>1. PICK i \in DOMAIN sorted : sorted[i] = t
    BY DEF Range
  <1>2. DOMAIN sorted = 1..Len(sorted) /\ Len(sorted) \in Nat /\ t \in IDs
    BY <1>1, LenProperties, ElementOfSeq
  <1>3. ASSUME NEW s \in IDs, Edge(s, t) PROVE s \in Range(sorted)
    BY <1>1, <1>2, <1>3 DEF SourcesFirst, Range
  <1>4. EdgesTo(IDs \ Range(sorted), t) = {}
    BY <1>2, <1>3, EdgesToAre
  <1> QED
    BY <1>2, <1>4, FS_EmptySet DEF DegreesLeft

\* The edges a sorted ID has are taken from the degrees.
LEMMA LoweredAre ==
    ASSUME GraphOK, NEW S \in SUBSET IDs, NEW n \in S, NEW t \in IDs
    PROVE  Cardinality(EdgesTo(S \ {n}, t)) = Cardinality(EdgesTo(S, t)) - Cardinality(EdgesTo({n}, t))
  <1>1. IsFiniteSet(EdgesTo(S, t))
    BY EdgesFinite
  <1>2. EdgesTo(S \ {n}, t) = EdgesTo(S, t) \ EdgesTo({n}, t)
    BY DEF EdgesTo
  <1>3. EdgesTo(S, t) \cap EdgesTo({n}, t) = EdgesTo({n}, t)
    BY DEF EdgesTo
  <1>4. \A B : Cardinality(EdgesTo(S, t) \ B) = Cardinality(EdgesTo(S, t)) - Cardinality(EdgesTo(S, t) \cap B)
    BY <1>1, FS_Difference
  <1> QED
    BY <1>2, <1>3, <1>4

LEMMA SortBeginGives ==
    ASSUME GraphInv, SortBegin
    PROVE  SortInv'
  <1>1. /\ op = "idle" /\ op' = "sorting" /\ sorted' = sorted /\ edges' = edges /\ nodes' = nodes
        /\ deg' = [t \in IDs |-> Cardinality(EdgesTo(IDs, t))]
        /\ ready' = {t \in Known : deg'[t] = 0}
    BY DEF SortBegin, Known, graphVars
  <1>2. sorted = <<>>
    BY <1>1 DEF GraphInv, Fresh
  <1>3. sorted \in Seq(IDs) /\ Range(sorted) = {} /\ DOMAIN sorted = {} /\ IsInjective(sorted)
    BY <1>2, Empty
  <1>4. \A t \in IDs : Cardinality(EdgesTo(IDs, t)) \in Nat
    BY EdgesFinite DEF GraphInv
  <1>5. Known' = Known /\ \A S, t : EdgesTo(S, t)' = EdgesTo(S, t)
    BY <1>1 DEF Known, Targets, EdgesTo, EdgeSlots, Target
  <1>6. DegreesLeft'
    BY <1>1, <1>3, <1>5 DEF DegreesLeft
  <1>7. SourcesFirst'
    BY <1>1, <1>3 DEF SourcesFirst
  <1> QED
    BY <1>1, <1>3, <1>4, <1>5, <1>6, <1>7 DEF SortInv

LEMMA SortNextKeeps ==
    ASSUME GraphInv, SortInv, SortNext
    PROVE  SortInv'
  <1> DEFINE n == Least(ready)
             left == IDs \ Range(sorted)
  <1>1. /\ op = "sorting" /\ op' = op /\ edges' = edges /\ nodes' = nodes
        /\ ready # {} /\ sorted' = Append(sorted, n) /\ deg' = Lowered(n)
        /\ ready' = (ready \ {n}) \cup {t \in IDs : deg[t] > 0 /\ deg'[t] = 0}
    BY DEF SortNext, graphVars
  <1>2. /\ deg \in [IDs -> Nat] /\ sorted \in Seq(IDs)
        /\ DegreesLeft /\ SourcesFirst
        /\ IsInjective(sorted) /\ Range(sorted) \subseteq Known
        /\ ready = {t \in Known \ Range(sorted) : deg[t] = 0}
    BY <1>1 DEF SortInv
  <1>3. GraphOK
    BY DEF GraphInv
  <1>4. Known \subseteq IDs
    BY <1>3, KnownAre
  <1>5. n \in ready
    BY <1>1, <1>2, <1>4, LeastIn
  <1> HIDE DEF n
  <1>6. /\ n \in IDs /\ n \in Known /\ n \notin Range(sorted) /\ deg[n] = 0
    BY <1>2, <1>4, <1>5
  <1>7. /\ sorted' \in Seq(IDs) /\ Len(sorted') = Len(sorted) + 1
        /\ \A i \in 1..Len(sorted) : sorted'[i] = sorted[i]
        /\ sorted'[Len(sorted) + 1] = n
        /\ Range(sorted') = Range(sorted) \cup {n} /\ IsInjective(sorted')
    BY <1>1, <1>2, <1>6, AppendElement
  <1>8. Known' = Known /\ \A S, t : EdgesTo(S, t)' = EdgesTo(S, t)
    BY <1>1 DEF Known, Targets, EdgesTo, EdgeSlots, Target
  <1>9. \A t \in IDs : /\ deg[t] = Cardinality(EdgesTo(left, t))
                       /\ deg'[t] = Cardinality(EdgesTo(left \ {n}, t))
                       /\ deg'[t] \in Nat /\ deg'[t] <= deg[t]
    <2> TAKE t \in IDs
    <2>1. deg[t] = Cardinality(EdgesTo(left, t))
      BY <1>2 DEF DegreesLeft
    <2>2. deg'[t] = deg[t] - Cardinality(EdgesTo({n}, t))
      BY <1>1 DEF Lowered
    <2>3. Cardinality(EdgesTo(left \ {n}, t)) = Cardinality(EdgesTo(left, t)) - Cardinality(EdgesTo({n}, t))
      BY <1>3, <1>6, LoweredAre
    <2>4. Cardinality(EdgesTo(left \ {n}, t)) \in Nat /\ Cardinality(EdgesTo({n}, t)) \in Nat /\ deg[t] \in Nat
      BY <1>2, <1>3, <1>6, EdgesFinite
    <2> QED
      BY <2>1, <2>2, <2>3, <2>4
  <1>10. DOMAIN deg' = IDs /\ deg' \in [IDs -> Nat]
    <2>1. deg' = [t \in IDs |-> deg'[t]]
      BY <1>1 DEF Lowered
    <2> QED
      BY <2>1, <1>9
  <1>11. IDs \ Range(sorted') = left \ {n}
    BY <1>7
  <1>12. DegreesLeft'
    BY <1>8, <1>9, <1>11 DEF DegreesLeft
  <1>13. \A s \in IDs : Edge(s, n) => s \in Range(sorted)
    <2>1. EdgesTo(left, n) = {}
      BY <1>3, <1>6, <1>9, EdgesFinite
    <2> QED
      BY <2>1, <1>3, <1>6, EdgesToAre
  <1>14. /\ Len(sorted) \in Nat /\ DOMAIN sorted = 1..Len(sorted) /\ DOMAIN sorted' = 1..(Len(sorted) + 1)
    BY <1>2, <1>7, LenProperties
  <1>15. SourcesFirst'
    <2>1. \A a, b : Edge(a, b)' <=> Edge(a, b)
      BY <1>1 DEF Edge
    <2> SUFFICES ASSUME NEW i \in DOMAIN sorted', NEW s \in IDs, Edge(s, sorted'[i])
                 PROVE  \E j \in 1..(i - 1) : sorted'[j] = s
      BY <2>1 DEF SourcesFirst
    <2>2. CASE i \in DOMAIN sorted
      <3>1. PICK j \in 1..(i - 1) : sorted[j] = s
        BY <2>2, <1>2, <1>7, <1>14 DEF SourcesFirst
      <3> QED
        BY <3>1, <2>2, <1>7, <1>14
    <2>3. CASE i = Len(sorted) + 1
      <3>1. s \in Range(sorted)
        BY <2>3, <1>7, <1>13
      <3>2. PICK j \in DOMAIN sorted : sorted[j] = s
        BY <3>1 DEF Range
      <3> QED
        BY <3>2, <2>3, <1>7, <1>14
    <2> QED
      BY <2>2, <2>3, <1>14
  <1>16. ready' = {t \in Known \ Range(sorted') : deg'[t] = 0}
    <2>1. ASSUME NEW t \in ready' PROVE t \in Known \ Range(sorted') /\ deg'[t] = 0
      <3>1. CASE t \in ready \ {n}
        <4>1. t \in IDs /\ t \in Known \ Range(sorted') /\ deg[t] = 0
          BY <3>1, <1>2, <1>4, <1>7
        <4> QED
          BY <4>1, <1>2, <1>9
      <3>2. CASE t \in IDs /\ deg[t] > 0 /\ deg'[t] = 0
        <4>1. t \notin Range(sorted)
          BY <3>2, <1>2, <1>3, SortedHasNone
        <4>2. EdgesTo(left, t) # {}
          <5>1. deg[t] = Cardinality(EdgesTo(left, t)) /\ deg[t] > 0
            BY <3>2, <1>9
          <5>2. Cardinality(EdgesTo(left, t)) = 0 <=> EdgesTo(left, t) = {}
            BY <3>2, <1>3, EdgesFinite
          <5> QED
            BY <5>1, <5>2
        <4>3. t \in Known
          BY <3>2, <4>2, <1>3, EdgesToAre DEF Known
        <4> QED
          BY <4>1, <4>3, <3>2, <1>6, <1>7
      <3> QED
        BY <2>1, <3>1, <3>2, <1>1
    <2>2. ASSUME NEW t \in Known \ Range(sorted'), deg'[t] = 0 PROVE t \in ready'
      <3>1. t \in IDs /\ t \notin Range(sorted) /\ t # n /\ deg[t] \in Nat
        BY <1>2, <1>4, <1>7
      <3>2. CASE deg[t] = 0
        BY <3>1, <3>2, <1>1, <1>2
      <3>3. CASE deg[t] > 0
        BY <3>1, <3>3, <2>2, <1>1
      <3> QED
        BY <3>1, <3>2, <3>3
    <2> QED
      BY <2>1, <2>2
  <1> QED
    <2>1. Range(sorted') \subseteq Known'
      BY <1>2, <1>6, <1>7, <1>8
    <2> QED
      BY <2>1, <1>1, <1>7, <1>8, <1>10, <1>12, <1>15, <1>16 DEF SortInv

\* The invariant of TopologicalSort.
THEOREM SortInvariant == Spec => []SortInv
  <1>1. Init => SortInv
    BY DEF Init, SortInv
  <1>2. GraphInv /\ SortInv /\ [Next]_vars => SortInv'
    <2> SUFFICES ASSUME GraphInv, SortInv, [Next]_vars PROVE SortInv'
      OBVIOUS
    <2>1. CASE SortBegin
      BY <2>1, SortBeginGives
    <2>2. CASE SortNext
      BY <2>2, SortNextKeeps
    <2>3. ASSUME SortEnd \/ UNCHANGED vars PROVE SortInv'
      <3>1. UNCHANGED <<graphVars, topoVars>>
        BY <2>3 DEF SortEnd, vars
      <3>2. Known' = Known /\ \A S, t : EdgesTo(S, t)' = EdgesTo(S, t)
        BY <3>1 DEF graphVars, Known, Targets, EdgesTo, EdgeSlots, Target
      <3>3. \A a, b : Edge(a, b)' <=> Edge(a, b)
        BY <3>1 DEF graphVars, Edge
      <3>4. DegreesLeft' <=> DegreesLeft
        BY <3>1, <3>2 DEF topoVars, DegreesLeft
      <3>5. SourcesFirst' <=> SourcesFirst
        BY <3>1, <3>3 DEF topoVars, SourcesFirst
      <3>6. /\ op' \in {"sorting", "order", "error"} => op \in {"sorting", "order", "error"}
            /\ op' \in {"order", "error"} /\ op = "sorting" =>
                  ready = {} /\ (op' = "order" <=> Len(sorted) = Cardinality(nodes))
            /\ op # "sorting" => op' = op
        BY <2>3 DEF SortEnd, vars
      <3> QED
        BY <3>1, <3>2, <3>4, <3>5, <3>6 DEF graphVars, topoVars, SortInv
    <2>4. ASSUME op' \notin {"sorting", "order", "error"} PROVE SortInv'
      BY <2>4 DEF SortInv
    <2> QED
      BY <2>1, <2>2, <2>3, <2>4, Steps
      DEF AddNode, AddEdge, Clear, Change, SpreadBegin, SpreadNext, SpreadEnd, SearchBegin, SearchRoot,
          SearchEdge, SearchLeave, SearchEnd, Return
  <1> QED
    BY <1>1, <1>2, GraphCorrect, PTL DEF Spec

\* In a graph whose edges are between nodes all that is known is a node.
LEMMA ProperKnown ==
    ASSUME GraphOK, Proper
    PROVE  Known = nodes
  <1>1. ASSUME NEW e \in EdgeSlots PROVE Target(e) \in nodes
    <2>1. PICK s \in IDs : e \in {s} \X DOMAIN edges[s]
      BY DEF EdgeSlots
    <2>2. edges[s] \in Seq(IDs) /\ e[1] = s /\ e[2] \in DOMAIN edges[s]
      BY <2>1 DEF GraphOK
    <2>3. Target(e) \in IDs /\ Edge(s, Target(e))
      BY <2>2, LenProperties, ElementOfSeq DEF Target, Edge, Range
    <2>4. <<s, Target(e)>> \in Edges
      BY <2>3 DEF Edges
    <2> QED
      BY <2>4 DEF Proper
  <1> QED
    BY <1>1 DEF Known, Targets

\* TopologicalSort (graph.go:163-206) sorts no edge backwards, and in a graph
\* whose edges are between nodes it orders all nodes, or there is a set of nodes
\* none of which can be ordered first.
THEOREM SortCorrectAlways == Spec => []SortCorrect
  <1>1. GraphInv /\ SortInv => SortCorrect
    <2> SUFFICES ASSUME GraphInv, SortInv, op \in {"order", "error"}, Proper
                 PROVE  IF op = "order" THEN Range(sorted) = nodes ELSE Entangled(nodes)
      BY DEF SortInv, SourcesFirst, SortCorrect
    <2>1. /\ sorted \in Seq(IDs) /\ IsInjective(sorted) /\ Range(sorted) \subseteq nodes
          /\ \A t \in nodes \ Range(sorted) : deg[t] # 0
          /\ op = "order" <=> Len(sorted) = Cardinality(nodes)
      BY ProperKnown DEF GraphInv, SortInv
    <2>2. GraphOK /\ nodes \subseteq IDs /\ IsFiniteSet(nodes)
      BY IDsAssumption, FS_Subset DEF GraphInv, GraphOK
    <2>3. Cardinality(Range(sorted)) = Len(sorted)
      BY <2>1, InjectiveLength
    <2>4. CASE op = "order"
      BY <2>1, <2>2, <2>3, <2>4, FS_Subset
    <2>5. CASE op = "error"
      <3> DEFINE rest == nodes \ Range(sorted)
      <3>1. rest # {}
        <4>1. Range(sorted) # nodes
          BY <2>1, <2>3, <2>5
        <4> QED
          BY <4>1, <2>1
      <3>2. ASSUME NEW t \in rest PROVE \E s \in rest : Edge(s, t)
        <4>1. t \in IDs /\ deg[t] # 0 /\ deg[t] = Cardinality(EdgesTo(IDs \ Range(sorted), t))
          BY <2>1, <2>2 DEF SortInv, DegreesLeft
        <4>2. PICK s \in IDs \ Range(sorted) : Edge(s, t)
          BY <4>1, <2>2, EdgesFinite, EdgesToAre
        <4>3. <<s, t>> \in Edges
          BY <4>1, <4>2 DEF Edges
        <4> QED
          BY <4>2, <4>3 DEF Proper
      <3> QED
        BY <3>1, <3>2, <2>5 DEF Entangled
    <2> QED
      BY <2>4, <2>5
  <1> QED
    BY <1>1, GraphCorrect, SortInvariant, PTL

--------------------------------------------------------------------------------
(* DetectCycles                                                              *)

\* What has been entered.
Entered == done \cup Range(stack)

\* The stack is a path without repetition, none of it done, and each of its
\* nodes but the last has just looked at the edge to the next one.
StackInv ==
    /\ stack \in Seq(IDs) /\ next \in Seq(Nat) /\ Len(next) = Len(stack) /\ done \subseteq IDs
    /\ IsInjective(stack) /\ Range(stack) \cap done = {}
    /\ \A k \in 1..Len(stack) : next[k] \in 1..(Len(edges[stack[k]]) + 1)
    /\ \A k \in 1..(Len(stack) - 1) :
           next[k] > 1 /\ edges[stack[k]][next[k] - 1] = stack[k + 1]

\* Where an edge leads that the node at place k has looked at: without a cycle,
\* to what is done or to the next node of the stack.
Seen(k, t) ==
    /\ t \in Entered
    /\ cycles = {} => t \in done \/ (k < Len(stack) /\ t = stack[k + 1])

LookedInv ==
    \A k \in 1..Len(stack) : \A i \in 1..(next[k] - 1) : Seen(k, edges[stack[k]][i])

\* The edges of what is done lead to what is entered, and without a cycle to
\* what is done.
DoneInv ==
    /\ \A s \in done, t \in IDs : Edge(s, t) => t \in Entered /\ (cycles = {} => t \in done)
    /\ cycles = {} => ~ Endless(done)
    /\ \A S \in SUBSET IDs : nodes \subseteq S /\ Closed(S, Edges) => Entered \subseteq S

CyclesInv == \A c \in cycles : c \in Seq(IDs) /\ IsCycle(c) /\ Range(c) \subseteq Entered

SearchInv ==
    op \in {"searching", "cycles"} =>
        /\ StackInv /\ LookedInv /\ DoneInv /\ CyclesInv
        /\ op = "cycles" => stack = <<>> /\ nodes \subseteq done

\* The edge of a place of a list.
LEMMA EdgeAt ==
    ASSUME GraphOK, NEW s \in IDs, NEW i \in DOMAIN edges[s]
    PROVE  edges[s][i] \in IDs /\ Edge(s, edges[s][i])
  <1>1. edges[s] \in Seq(IDs)
    BY DEF GraphOK
  <1> QED
    BY <1>1, LenProperties, ElementOfSeq DEF Edge, Range

\* What Enter does to the stack, and that what was seen stays seen.
LEMMA EnterKeeps ==
    ASSUME GraphOK, StackInv, LookedInv, NEW t \in IDs, Unvisited(t), NEW m, m \in Seq(Nat), Len(m) = Len(stack),
           stack' = Append(stack, t), next' = Append(m, 1), UNCHANGED <<edges, done, cycles>>,
           \A k \in 1..(Len(stack) - 1) : m[k] = next[k],
           Len(stack) # 0 => /\ m[Len(stack)] = next[Len(stack)] + 1
                             /\ next[Len(stack)] \in DOMAIN edges[stack[Len(stack)]]
                             /\ edges[stack[Len(stack)]][next[Len(stack)]] = t
    PROVE  StackInv' /\ LookedInv' /\ Entered' = Entered \cup {t}
  <1>1. /\ stack \in Seq(IDs) /\ next \in Seq(Nat) /\ Len(next) = Len(stack) /\ done \subseteq IDs
        /\ IsInjective(stack) /\ Range(stack) \cap done = {}
        /\ t \notin Range(stack) /\ t \notin done /\ Len(stack) \in Nat
    BY LenProperties DEF StackInv, Unvisited
  <1>2. /\ stack' \in Seq(IDs) /\ Len(stack') = Len(stack) + 1
        /\ \A k \in 1..Len(stack) : stack'[k] = stack[k]
        /\ stack'[Len(stack) + 1] = t
        /\ Range(stack') = Range(stack) \cup {t} /\ IsInjective(stack')
    BY <1>1, AppendElement
  <1>3. /\ next' \in Seq(Nat) /\ Len(next') = Len(stack) + 1
        /\ \A k \in 1..Len(stack) : next'[k] = m[k]
        /\ next'[Len(stack) + 1] = 1
    BY <1>1, AppendProperties
  <1>4. edges[t] \in Seq(IDs) /\ Len(edges[t]) \in Nat
    BY LenProperties DEF GraphOK
  <1>5. ASSUME NEW k \in 1..Len(stack)
        PROVE  /\ stack'[k] = stack[k] /\ stack[k] \in IDs
               /\ next[k] \in 1..(Len(edges[stack[k]]) + 1) /\ Len(edges[stack[k]]) \in Nat
               /\ next'[k] = IF k = Len(stack) THEN next[k] + 1 ELSE next[k]
               /\ next'[k] > 1 /\ edges[stack[k]][next'[k] - 1] = stack'[k + 1]
               /\ next'[k] \in 1..(Len(edges[stack[k]]) + 1)
    <2>1. stack'[k] = stack[k] /\ stack[k] \in IDs /\ next'[k] = m[k]
      BY <1>1, <1>2, <1>3, ElementOfSeq
    <2>2. edges[stack[k]] \in Seq(IDs) /\ next[k] \in 1..(Len(edges[stack[k]]) + 1)
      BY <2>1 DEF StackInv, GraphOK
    <2>3. Len(edges[stack[k]]) \in Nat /\ DOMAIN edges[stack[k]] = 1..Len(edges[stack[k]])
      BY <2>2, LenProperties
    <2>4. CASE k = Len(stack)
      <3>1. next'[k] = next[k] + 1 /\ next[k] \in 1..Len(edges[stack[k]]) /\ edges[stack[k]][next[k]] = t
        BY <2>1, <2>3, <2>4, <1>1
      <3>2. stack'[k + 1] = t
        BY <2>4, <1>2
      <3> QED
        BY <3>1, <3>2, <2>1, <2>2, <2>3, <2>4, SMTT(30)
    <2>5. CASE k < Len(stack)
      <3>1. k \in 1..(Len(stack) - 1) /\ k + 1 \in 1..Len(stack)
        BY <2>5, <1>1
      <3>2. next[k] > 1 /\ edges[stack[k]][next[k] - 1] = stack[k + 1] /\ next'[k] = next[k]
        BY <3>1, <2>1 DEF StackInv
      <3>3. stack'[k + 1] = stack[k + 1]
        BY <3>1, <1>2
      <3> QED
        BY <3>2, <3>3, <2>1, <2>2, <2>3, <2>5, SMTT(30)
    <2>6. k = Len(stack) \/ k < Len(stack)
      BY <1>1
    <2> QED
      BY <2>4, <2>5, <2>6
  <1>6. Len(stack') - 1 = Len(stack) /\ 1..Len(stack') = 1..Len(stack) \cup {Len(stack) + 1}
    BY <1>1, <1>2
  <1>7. Entered' = Entered \cup {t}
    BY <1>2 DEF Entered
  <1>8. StackInv'
    <2>1. \A k \in 1..Len(stack') : next'[k] \in 1..(Len(edges'[stack'[k]]) + 1)
      BY <1>2, <1>3, <1>4, <1>5, <1>6, SMTT(30)
    <2>2. \A k \in 1..(Len(stack') - 1) : next'[k] > 1 /\ edges'[stack'[k]][next'[k] - 1] = stack'[k + 1]
      BY <1>5, <1>6
    <2>3. Range(stack') \cap done' = {}
      BY <1>1, <1>2
    <2> QED
      BY <2>1, <2>2, <2>3, <1>1, <1>2, <1>3 DEF StackInv
  <1>9. LookedInv'
    <2> SUFFICES ASSUME NEW k \in 1..Len(stack'), NEW i \in 1..(next'[k] - 1)
                 PROVE  /\ edges[stack'[k]][i] \in Entered'
                        /\ cycles = {} => \/ edges[stack'[k]][i] \in done
                                          \/ k < Len(stack') /\ edges[stack'[k]][i] = stack'[k + 1]
      BY DEF LookedInv, Seen
    <2>1. k \in 1..Len(stack)
      BY <1>1, <1>3, <1>6
    <2>2. CASE i = next'[k] - 1
      <3>1. edges[stack'[k]][i] = stack'[k + 1]
        BY <2>1, <2>2, <1>5
      <3>2. stack'[k + 1] \in Range(stack') /\ k < Len(stack')
        <4>1. k + 1 \in DOMAIN stack' /\ k < Len(stack')
          BY <2>1, <1>2, <1>6, <1>1, LenProperties
        <4> QED
          BY <4>1 DEF Range
      <3> QED
        BY <3>1, <3>2 DEF Entered
    <2>3. CASE i # next'[k] - 1
      <3>1. i \in 1..(next[k] - 1)
        <4>1. next[k] \in Nat /\ (next'[k] = next[k] + 1 \/ next'[k] = next[k])
          BY <2>1, <1>5, SMTT(30)
        <4> QED
          BY <4>1, <2>3
      <3>2. Seen(k, edges[stack[k]][i]) /\ stack'[k] = stack[k]
        BY <3>1, <2>1, <1>5 DEF LookedInv
      <3>3. k < Len(stack) => k < Len(stack') /\ stack'[k + 1] = stack[k + 1]
        BY <2>1, <1>1, <1>2
      <3> QED
        BY <3>2, <3>3, <1>7 DEF Seen
    <2> QED
      BY <2>2, <2>3
  <1> QED
    BY <1>7, <1>8, <1>9

\* What the loop over the edges keeps when it goes on.
LEMMA AdvanceKeeps ==
    ASSUME GraphOK, StackInv, LookedInv, stack # <<>>,
           next[top] \in DOMAIN edges[stack[top]], next' = Advanced,
           UNCHANGED <<edges, stack, done>>, cycles \subseteq cycles',
           edges[stack[top]][next[top]] \in Entered,
           cycles' = {} => edges[stack[top]][next[top]] \in done
    PROVE  StackInv' /\ LookedInv' /\ Entered' = Entered
  <1>1. /\ stack \in Seq(IDs) /\ next \in Seq(Nat) /\ Len(next) = Len(stack) /\ Len(stack) \in Nat
        /\ Len(stack) # 0 /\ top = Len(stack) /\ DOMAIN next = 1..Len(stack)
    BY LenProperties, EmptySeq DEF StackInv, top
  <1>2. /\ next' \in Seq(Nat) /\ Len(next') = Len(stack)
        /\ \A k \in 1..Len(stack) : next'[k] = IF k = Len(stack) THEN next[k] + 1 ELSE next[k]
    <2>1. next' = [next EXCEPT ![Len(stack)] = next[Len(stack)] + 1]
      BY <1>1 DEF Advanced
    <2> DEFINE e == next[Len(stack)] + 1
               r == [next EXCEPT ![Len(stack)] = e]
    <2>2. e \in Nat
      BY <1>1, ElementOfSeq
    <2>3. \A k \in 1..Len(stack) : k # Len(stack) \/ e = next[k] + 1
      OBVIOUS
    <2> HIDE DEF e
    <2>4. r \in Seq(Nat) /\ Len(r) = Len(next) /\ \A k \in 1..Len(next) : r[k] = IF k = Len(stack) THEN e ELSE next[k]
      BY <1>1, <2>2, ExceptSeq
    <2>5. next' = r
      BY <2>1 DEF e
    <2> HIDE DEF r
    <2> QED
      BY <1>1, <2>1, <2>3, <2>4, <2>5 DEF e
  <1>3. \A k \in 1..Len(stack) : /\ edges[stack[k]] \in Seq(IDs) /\ Len(edges[stack[k]]) \in Nat
                                 /\ DOMAIN edges[stack[k]] = 1..Len(edges[stack[k]])
                                 /\ next[k] \in 1..(Len(edges[stack[k]]) + 1)
    BY <1>1, ElementOfSeq, LenProperties DEF StackInv, GraphOK
  <1>4. Entered' = Entered
    BY DEF Entered
  <1>5. StackInv'
    <2>1. \A k \in 1..Len(stack) : next'[k] \in 1..(Len(edges[stack[k]]) + 1)
      <3> TAKE k \in 1..Len(stack)
      <3>1. /\ next[k] \in 1..(Len(edges[stack[k]]) + 1) /\ Len(edges[stack[k]]) \in Nat
            /\ next'[k] = IF k = Len(stack) THEN next[k] + 1 ELSE next[k]
        BY <1>2, <1>3
      <3>2. k = Len(stack) => next[k] \in 1..Len(edges[stack[k]])
        BY <1>1, <1>3
      <3> QED
        BY <3>1, <3>2
    <2>2. ASSUME NEW k \in 1..(Len(stack) - 1)
          PROVE  next'[k] > 1 /\ edges[stack[k]][next'[k] - 1] = stack[k + 1]
      <3>1. next'[k] = next[k]
        <4>1. k \in 1..Len(stack) /\ k # Len(stack)
          <5>1. Len(stack) \in Nat
            BY <1>1
          <5> QED
            BY <5>1
        <4> QED
          BY <4>1, <1>2
      <3> QED
        BY <3>1 DEF StackInv
    <2> QED
      BY <1>2, <2>1, <2>2 DEF StackInv
  <1>6. LookedInv'
    <2> SUFFICES ASSUME NEW k \in 1..Len(stack), NEW i \in 1..(next'[k] - 1)
                 PROVE  /\ edges[stack[k]][i] \in Entered
                        /\ cycles' = {} => \/ edges[stack[k]][i] \in done
                                           \/ k < Len(stack) /\ edges[stack[k]][i] = stack[k + 1]
      BY <1>4 DEF LookedInv, Seen
    <2>1. CASE i \in 1..(next[k] - 1)
      BY <2>1 DEF LookedInv, Seen
    <2>2. CASE i \notin 1..(next[k] - 1)
      <3>1. next[k] \in Nat /\ next'[k] = IF k = Len(stack) THEN next[k] + 1 ELSE next[k]
        BY <1>2, <1>3
      <3>2. k = top /\ i = next[k]
        <4>1. i \in Nat /\ i > 0 /\ i <= next'[k] - 1 /\ ~ (i <= next[k] - 1)
          <5>1. next'[k] \in Nat
            BY <3>1
          <5> QED
            BY <5>1, <3>1, <2>2
        <4>2. k = Len(stack)
          BY <4>1, <3>1
        <4>3. i = next[k]
          BY <4>1, <4>2, <3>1
        <4> QED
          BY <4>2, <4>3, <1>1
      <3> QED
        BY <3>2
    <2> QED
      BY <2>1, <2>2
  <1> QED
    BY <1>4, <1>5, <1>6

\* The stack is a path of the graph.
LEMMA StackPath ==
    ASSUME GraphOK, StackInv, NEW k \in 1..(Len(stack) - 1)
    PROVE  Edge(stack[k], stack[k + 1])
  <1>1. Len(stack) \in Nat /\ k \in 1..Len(stack) /\ stack[k] \in IDs
    BY LenProperties, ElementOfSeq DEF StackInv
  <1>2. next[k] \in 1..(Len(edges[stack[k]]) + 1) /\ next[k] > 1
    BY <1>1 DEF StackInv
  <1>3. DOMAIN edges[stack[k]] = 1..Len(edges[stack[k]]) /\ Len(edges[stack[k]]) \in Nat
    BY <1>1, LenProperties DEF GraphOK
  <1>4. next[k] - 1 \in DOMAIN edges[stack[k]]
    BY <1>2, <1>3
  <1> QED
    BY <1>1, <1>4, EdgeAt DEF StackInv

\* An edge to a node of the stack closes a simple cycle.
LEMMA CycleCloses ==
    ASSUME GraphOK, StackInv, stack # <<>>, NEW t \in Range(stack), Edge(stack[top], t)
    PROVE  CycleTo(t) \in Seq(IDs) /\ IsCycle(CycleTo(t)) /\ Range(CycleTo(t)) \subseteq Range(stack)
  <1> DEFINE p == Place(t)
             path == SubSeq(stack, p, Len(stack))
             c == CycleTo(t)
             n == Len(stack) - p + 1
  <1>1. /\ stack \in Seq(IDs) /\ Len(stack) \in Nat /\ DOMAIN stack = 1..Len(stack) /\ top = Len(stack)
        /\ IsInjective(stack)
    BY LenProperties DEF StackInv, top
  <1>2. p \in 1..Len(stack) /\ stack[p] = t
    <2>1. \E k \in DOMAIN stack : stack[k] = t
      BY DEF Range
    <2> QED
      BY <2>1, <1>1 DEF Place
  <1>3. t \in IDs
    BY <1>1, <1>2, ElementOfSeq
  <1> HIDE DEF p
  <1>4. path \in Seq(IDs) /\ Len(path) = n /\ \A i \in 1..n : path[i] = stack[p + i - 1]
    <2>1. \A i \in p..Len(stack) : stack[i] \in IDs
      BY <1>1, <1>2, ElementOfSeq
    <2> QED
      BY <2>1, <1>1, <1>2, SubSeqProperties
  <1>5. c = Append(path, t)
    BY <1>1 DEF CycleTo, p
  <1> HIDE DEF path, c
  <1>6. /\ c \in Seq(IDs) /\ Len(c) = n + 1 /\ n \in Nat /\ n > 0
        /\ \A i \in 1..n : c[i] = stack[p + i - 1] /\ p + i - 1 \in 1..Len(stack)
        /\ c[n + 1] = t
    <2>1. n \in Nat /\ n > 0 /\ \A i \in 1..n : p + i - 1 \in 1..Len(stack)
      BY <1>1, <1>2
    <2>2. c \in Seq(IDs) /\ Len(c) = Len(path) + 1 /\ (\A i \in 1..Len(path) : c[i] = path[i]) /\ c[Len(path) + 1] = t
      BY <1>3, <1>4, <1>5, AppendProperties
    <2> HIDE DEF n
    <2> QED
      BY <2>1, <2>2, <1>4
  <1>7. c[1] = t
    BY <1>1, <1>2, <1>6
  <1>8. ASSUME NEW i \in 1..n PROVE Edge(c[i], c[i + 1])
    <2>1. CASE i = n
      <3>1. c[i] = stack[Len(stack)] /\ c[i + 1] = t
        BY <2>1, <1>1, <1>2, <1>6
      <3> QED
        BY <3>1, <1>1
    <2>2. CASE i # n
      <3>1. i + 1 \in 1..n /\ p + (i + 1) - 1 = (p + i - 1) + 1 /\ p + i - 1 \in 1..(Len(stack) - 1)
        <4>1. p \in Nat /\ p > 0 /\ p <= Len(stack) /\ Len(stack) \in Nat /\ n = Len(stack) - p + 1
          BY <1>1, <1>2
        <4>2. i \in Nat /\ i > 0 /\ i < n
          BY <2>2, <1>6
        <4> HIDE DEF n
        <4>3. i + 1 \in 1..n
          BY <4>1, <4>2
        <4> QED
          BY <4>1, <4>2, <4>3
      <3>2. c[i] = stack[p + i - 1] /\ c[i + 1] = stack[(p + i - 1) + 1]
        BY <3>1, <1>6
      <3> QED
        BY <3>1, <3>2, StackPath
    <2> QED
      BY <2>1, <2>2
  <1>9. ASSUME NEW i \in 1..n, NEW j \in 1..n, c[i] = c[j] PROVE i = j
    <2>1. stack[p + i - 1] = stack[p + j - 1] /\ p + i - 1 \in DOMAIN stack /\ p + j - 1 \in DOMAIN stack
      BY <1>1, <1>6, <1>9
    <2>2. p + i - 1 = p + j - 1
      BY <2>1, <1>1 DEF IsInjective
    <2> QED
      BY <2>2, <1>2, <1>6
  <1>10. Range(c) \subseteq Range(stack)
    <2> SUFFICES ASSUME NEW i \in DOMAIN c PROVE c[i] \in Range(stack)
      BY DEF Range
    <2>1. i \in 1..n \/ i = n + 1
      BY <1>6, LenProperties
    <2>2. CASE i \in 1..n
      BY <2>2, <1>1, <1>6 DEF Range
    <2> QED
      BY <2>1, <2>2, <1>6
  <1>11. IsCycle(c)
    <2>1. Len(c) - 1 = n /\ Len(c) > 1
      BY <1>6
    <2>2. c[1] = c[Len(c)]
      BY <1>6, <1>7
    <2> HIDE DEF n
    <2> QED
      BY <2>1, <2>2, <1>8, <1>9 DEF IsCycle
  <1> QED
    BY <1>6, <1>10, <1>11 DEF c

\* What is entered stays entered: the rest of the invariant after a step that
\* enters t and leaves none.
LEMMA EnteredMore ==
    ASSUME GraphOK, DoneInv, CyclesInv, NEW t \in IDs,
           UNCHANGED <<edges, nodes, done, cycles>>, Entered' = Entered \cup {t},
           \A S \in SUBSET IDs : nodes \subseteq S /\ Closed(S, Edges) => t \in S
    PROVE  DoneInv' /\ CyclesInv'
  <1>1. Edges' = Edges /\ \A a, b : Edge(a, b)' <=> Edge(a, b)
    BY DEF Edges, Edge
  <1>2. Endless(done)' <=> Endless(done)
    BY <1>1 DEF Endless
  <1>3. \A S : Closed(S, Edges)' <=> Closed(S, Edges)
    BY <1>1 DEF Closed
  <1>4. \A c : IsCycle(c)' <=> IsCycle(c)
    BY <1>1 DEF IsCycle
  <1>5. DoneInv'
    BY <1>1, <1>2, <1>3 DEF DoneInv
  <1>6. CyclesInv'
    BY <1>4 DEF CyclesInv
  <1> QED
    BY <1>5, <1>6

LEMMA SearchRootKeeps ==
    ASSUME GraphInv, SearchInv, NEW n \in IDs, SearchRoot(n)
    PROVE  SearchInv'
  <1>1. /\ op = "searching" /\ op' = op /\ stack = <<>> /\ n \in nodes /\ Unvisited(n)
        /\ stack' = Append(stack, n) /\ next' = <<1>>
        /\ UNCHANGED <<edges, nodes, done, cycles>>
    BY DEF SearchRoot, Enter, graphVars
  <1>2. GraphOK /\ StackInv /\ LookedInv /\ DoneInv /\ CyclesInv
    BY <1>1 DEF GraphInv, SearchInv
  <1>3. next \in Seq(Nat) /\ Len(next) = 0 /\ Len(stack) = 0
    BY <1>1, <1>2, EmptySeq DEF StackInv
  <1>4. next' = Append(next, 1)
    <2>1. next = <<>>
      BY <1>3, EmptySeq
    <2> QED
      BY <1>1, <2>1
  <1>5. StackInv' /\ LookedInv' /\ Entered' = Entered \cup {n}
    BY <1>1, <1>2, <1>3, <1>4, EnterKeeps
  <1>6. DoneInv' /\ CyclesInv'
    BY <1>1, <1>2, <1>5, EnteredMore
  <1> QED
    BY <1>1, <1>5, <1>6 DEF SearchInv

LEMMA SearchEdgeKeeps ==
    ASSUME GraphInv, SearchInv, SearchEdge
    PROVE  SearchInv'
  <1> DEFINE s == stack[top]
             t == edges[s][next[top]]
  <1>1. /\ op = "searching" /\ op' = op /\ stack # <<>>
        /\ next[top] \in DOMAIN edges[s]
        /\ UNCHANGED <<edges, nodes, done>>
        /\ \/ Unvisited(t) /\ Enter(t) /\ next' = Append(Advanced, 1) /\ UNCHANGED cycles
           \/ t \in Range(stack) /\ cycles' = cycles \cup {CycleTo(t)} /\ next' = Advanced /\ UNCHANGED stack
           \/ t \in done /\ next' = Advanced /\ UNCHANGED <<stack, cycles>>
    BY DEF SearchEdge, graphVars
  <1>2. GraphOK /\ StackInv /\ LookedInv /\ DoneInv /\ CyclesInv
    BY <1>1 DEF GraphInv, SearchInv
  <1>3. /\ stack \in Seq(IDs) /\ next \in Seq(Nat) /\ Len(next) = Len(stack) /\ Len(stack) \in Nat
        /\ top = Len(stack) /\ top \in 1..Len(stack)
    BY <1>1, <1>2, LenProperties, EmptySeq DEF StackInv, top
  <1>4. s \in IDs /\ s \in Range(stack) /\ t \in IDs /\ Edge(s, t)
    <2>1. s \in IDs /\ s \in Range(stack)
      BY <1>3, ElementOfSeq, LenProperties DEF Range
    <2> QED
      BY <2>1, <1>1, <1>2, EdgeAt
  <1>5. \A S \in SUBSET IDs : nodes \subseteq S /\ Closed(S, Edges) => t \in S
    <2> SUFFICES ASSUME NEW S \in SUBSET IDs, nodes \subseteq S, Closed(S, Edges)
                 PROVE  t \in S
      OBVIOUS
    <2>1. s \in S
      BY <1>2, <1>4 DEF DoneInv, Entered
    <2>2. <<s, t>> \in Edges
      BY <1>4 DEF Edges
    <2> QED
      BY <2>1, <2>2 DEF Closed
  <1>6. CASE Unvisited(t) /\ Enter(t) /\ next' = Append(Advanced, 1) /\ UNCHANGED cycles
    <2> DEFINE e == next[Len(stack)] + 1
               m == [next EXCEPT ![Len(stack)] = e]
    <2>1. e \in Nat /\ Len(stack) \in 1..Len(next)
      BY <1>3, ElementOfSeq
    <2>2. Advanced = m
      BY <1>3 DEF Advanced
    <2> HIDE DEF e
    <2>3. m \in Seq(Nat) /\ Len(m) = Len(next) /\ \A k \in 1..Len(next) : m[k] = IF k = Len(stack) THEN e ELSE next[k]
      BY <1>3, <2>1, ExceptSeq
    <2> HIDE DEF m
    <2>4. \A k \in 1..(Len(stack) - 1) : m[k] = next[k]
      <3>1. Len(stack) \in Nat
        BY <1>3
      <3>2. \A k \in 1..(Len(stack) - 1) : k \in 1..Len(stack) /\ k # Len(stack)
        BY <3>1
      <3> QED
        BY <3>2, <2>3, <1>3
    <2>5. m[Len(stack)] = next[Len(stack)] + 1
      BY <2>3, <1>3 DEF e
    <2>6. stack' = Append(stack, t) /\ next' = Append(m, 1)
      BY <1>6, <2>2 DEF Enter
    <2>7. StackInv' /\ LookedInv' /\ Entered' = Entered \cup {t}
      <3> HIDE DEF t
      <3>1. t = edges[stack[Len(stack)]][next[Len(stack)]]
        BY <1>3 DEF t
      <3> QED
        BY <3>1, <1>1, <1>2, <1>3, <1>4, <1>6, <2>3, <2>4, <2>5, <2>6, EnterKeeps
    <2>8. DoneInv' /\ CyclesInv'
      <3> HIDE DEF t
      <3> QED
        BY <2>7, <1>1, <1>2, <1>4, <1>5, <1>6, EnteredMore
    <2> QED
      BY <2>7, <2>8, <1>1 DEF SearchInv
  <1>7. CASE t \in Range(stack) /\ cycles' = cycles \cup {CycleTo(t)} /\ next' = Advanced /\ UNCHANGED stack
    <2>1. StackInv' /\ LookedInv' /\ Entered' = Entered
      BY <1>1, <1>2, <1>7, AdvanceKeeps DEF Entered
    <2>2. CycleTo(t) \in Seq(IDs) /\ IsCycle(CycleTo(t)) /\ Range(CycleTo(t)) \subseteq Entered
      BY <1>1, <1>2, <1>4, <1>7, CycleCloses DEF Entered
    <2>3. Edges' = Edges /\ \A a, b : Edge(a, b)' <=> Edge(a, b)
      BY <1>1 DEF Edges, Edge
    <2>4. \A S : Closed(S, Edges)' <=> Closed(S, Edges)
      BY <2>3 DEF Closed
    <2>5. \A c : IsCycle(c)' <=> IsCycle(c)
      BY <2>3 DEF IsCycle
    <2> HIDE DEF t
    <2>6. cycles' # {}
      BY <1>7
    <2>7. DoneInv'
      BY <1>1, <1>2, <2>1, <2>3, <2>4, <2>6 DEF DoneInv
    <2>8. CyclesInv'
      BY <1>2, <1>7, <2>1, <2>2, <2>5 DEF CyclesInv
    <2> QED
      BY <2>1, <2>7, <2>8, <1>1 DEF SearchInv
  <1>8. CASE t \in done /\ next' = Advanced /\ UNCHANGED <<stack, cycles>>
    <2>1. StackInv' /\ LookedInv' /\ Entered' = Entered
      BY <1>1, <1>2, <1>8, AdvanceKeeps DEF Entered
    <2>2. Entered' = Entered \cup {t}
      BY <2>1, <1>8 DEF Entered
    <2> HIDE DEF t
    <2>3. DoneInv' /\ CyclesInv'
      BY <2>2, <1>1, <1>2, <1>4, <1>5, <1>8, EnteredMore
    <2> QED
      BY <2>1, <2>3, <1>1 DEF SearchInv
  <1> QED
    BY <1>1, <1>6, <1>7, <1>8

\* A node is left when all its edges were looked at: what is entered stays the
\* same, and without a cycle none is added to what is done.
LEMMA SearchLeaveKeeps ==
    ASSUME GraphInv, SearchInv, SearchLeave
    PROVE  SearchInv'
  <1> DEFINE n == Len(stack)
             x == stack[n]
  <1>1. /\ op = "searching" /\ op' = op /\ stack # <<>> /\ top = n
        /\ next[n] \notin DOMAIN edges[x]
        /\ done' = done \cup {x}
        /\ stack' = SubSeq(stack, 1, n - 1) /\ next' = SubSeq(next, 1, n - 1)
        /\ UNCHANGED <<edges, nodes, cycles>>
    BY DEF SearchLeave, graphVars, top
  <1>2. GraphOK /\ StackInv /\ LookedInv /\ DoneInv /\ CyclesInv
    BY <1>1 DEF GraphInv, SearchInv
  <1>3. /\ stack \in Seq(IDs) /\ next \in Seq(Nat) /\ Len(next) = n /\ DOMAIN stack = 1..n
        /\ n \in Nat /\ n > 0 /\ n \in 1..n /\ IsInjective(stack) /\ Range(stack) \cap done = {}
    BY <1>1, <1>2, LenProperties, EmptySeq DEF StackInv
  <1>4. x \in IDs /\ x \in Range(stack) /\ x \notin done
    BY <1>3, ElementOfSeq DEF Range
  <1>5. /\ edges[x] \in Seq(IDs) /\ DOMAIN edges[x] = 1..Len(edges[x]) /\ Len(edges[x]) \in Nat
        /\ next[n] = Len(edges[x]) + 1
    <2>1. edges[x] \in Seq(IDs) /\ DOMAIN edges[x] = 1..Len(edges[x]) /\ Len(edges[x]) \in Nat
      BY <1>2, <1>4, LenProperties DEF GraphOK
    <2>2. next[n] \in 1..(Len(edges[x]) + 1)
      BY <1>2, <1>3 DEF StackInv
    <2> QED
      BY <2>1, <2>2, <1>1
  <1> HIDE DEF n
  <1>6. /\ stack' \in Seq(IDs) /\ Len(stack') = n - 1 /\ DOMAIN stack' = 1..(n - 1)
        /\ next' \in Seq(Nat) /\ Len(next') = n - 1
        /\ \A k \in 1..(n - 1) : stack'[k] = stack[k] /\ next'[k] = next[k] /\ k \in 1..n /\ k # n
    <2>1. \A k \in 1..(n - 1) : k \in 1..n /\ k # n /\ stack[k] \in IDs /\ next[k] \in Nat
      <3>1. \A k \in 1..(n - 1) : k \in 1..n /\ k # n
        BY <1>3
      <3> QED
        BY <3>1, <1>3, ElementOfSeq DEF n
    <2>2. n - 1 \in Int /\ n - 1 >= 0 /\ (n - 1) - 1 + 1 = n - 1
      BY <1>3
    <2>3. stack' \in Seq(IDs) /\ Len(stack') = n - 1 /\ \A k \in 1..(n - 1) : stack'[k] = stack[k]
      BY <1>1, <2>1, <2>2, SubSeqProperties
    <2>4. next' \in Seq(Nat) /\ Len(next') = n - 1 /\ \A k \in 1..(n - 1) : next'[k] = next[k]
      BY <1>1, <2>1, <2>2, SubSeqProperties
    <2> QED
      BY <2>1, <2>3, <2>4, LenProperties
  <1>7. Range(stack') = Range(stack) \ {x}
    <2>1. ASSUME NEW k \in DOMAIN stack' PROVE stack'[k] \in Range(stack) \ {x}
      BY <2>1, <1>3, <1>6 DEF Range, IsInjective
    <2>2. ASSUME NEW k \in 1..n, stack[k] # x PROVE stack[k] \in Range(stack')
      <3>1. k \in 1..(n - 1)
        BY <2>2, <1>3
      <3> QED
        BY <3>1, <1>6 DEF Range
    <2> QED
      BY <2>1, <2>2, <1>3 DEF Range
  <1>8. Entered' = Entered
    BY <1>1, <1>4, <1>7 DEF Entered
  <1>9. StackInv'
    <2>1. IsInjective(stack')
      BY <1>3, <1>6 DEF IsInjective
    <2>2. \A k \in 1..(n - 1) : next'[k] \in 1..(Len(edges[stack'[k]]) + 1)
      BY <1>2, <1>6 DEF StackInv, n
    <2>3. ASSUME NEW k \in 1..((n - 1) - 1)
          PROVE  next'[k] > 1 /\ edges[stack'[k]][next'[k] - 1] = stack'[k + 1]
      <3>1. k \in 1..(n - 1) /\ k + 1 \in 1..(n - 1)
        BY <1>3
      <3> QED
        BY <3>1, <1>2, <1>6 DEF StackInv, n
    <2>4. Range(stack') \cap done' = {} /\ done' \subseteq IDs
      BY <1>1, <1>2, <1>3, <1>4, <1>7 DEF StackInv
    <2> QED
      BY <2>1, <2>2, <2>3, <2>4, <1>1, <1>6 DEF StackInv
  \* What the node left has looked at.
  <1>10. \A i \in DOMAIN edges[x] : edges[x][i] \in Entered /\ (cycles = {} => edges[x][i] \in done)
    <2> TAKE i \in DOMAIN edges[x]
    <2>1. i \in 1..(next[n] - 1)
      BY <1>5
    <2>2. Seen(n, edges[x][i])
      BY <2>1, <1>2, <1>3 DEF LookedInv, n
    <2>3. ~ (n < Len(stack))
      BY <1>3 DEF n
    <2> QED
      BY <2>2, <2>3 DEF Seen
  <1>11. LookedInv'
    <2> SUFFICES ASSUME NEW k \in 1..(n - 1), NEW i \in 1..(next[k] - 1)
                 PROVE  /\ edges[stack[k]][i] \in Entered
                        /\ cycles = {} => \/ edges[stack[k]][i] \in done'
                                          \/ k < n - 1 /\ edges[stack[k]][i] = stack'[k + 1]
      BY <1>1, <1>6, <1>8 DEF LookedInv, Seen
    <2>1. Seen(k, edges[stack[k]][i])
      BY <1>2, <1>6 DEF LookedInv, n
    <2>2. CASE k < n - 1
      <3>1. k + 1 \in 1..(n - 1)
        BY <2>2, <1>3
      <3> QED
        BY <3>1, <2>1, <2>2, <1>1, <1>6 DEF Seen
    <2>3. CASE k = n - 1
      <3>1. stack[k + 1] = x
        BY <2>3, <1>3
      <3> QED
        BY <3>1, <2>1, <1>1 DEF Seen
    <2>4. k < n - 1 \/ k = n - 1
      BY <1>3
    <2> QED
      BY <2>2, <2>3, <2>4
  <1>12. Edges' = Edges /\ \A a, b : Edge(a, b)' <=> Edge(a, b)
    BY <1>1 DEF Edges, Edge
  <1>13. \A S : Closed(S, Edges)' <=> Closed(S, Edges)
    BY <1>12 DEF Closed
  <1>14. \A s \in done', t \in IDs : Edge(s, t) => t \in Entered /\ (cycles = {} => t \in done)
    <2> SUFFICES ASSUME NEW s \in done', NEW t \in IDs, Edge(s, t)
                 PROVE  t \in Entered /\ (cycles = {} => t \in done)
      OBVIOUS
    <2>1. CASE s \in done
      BY <2>1, <1>2 DEF DoneInv
    <2>2. CASE s = x
      <3>1. PICK i \in DOMAIN edges[x] : edges[x][i] = t
        BY <2>2 DEF Edge, Range
      <3> QED
        BY <3>1, <1>10
    <2> QED
      BY <2>1, <2>2, <1>1
  <1>15. cycles = {} => ~ Endless(done')
    <2> SUFFICES ASSUME cycles = {}, NEW S \in SUBSET done', S # {}, \A s \in S : \E t \in S : Edge(s, t)
                 PROVE  FALSE
      BY DEF Endless
    <2>1. \A s \in S : \E t \in S \cap done : Edge(s, t)
      <3> TAKE s \in S
      <3>1. PICK t \in S : Edge(s, t)
        OBVIOUS
      <3>2. s \in done' /\ t \in IDs
        BY <1>9 DEF StackInv
      <3> QED
        BY <3>1, <3>2, <1>14
    <2>2. S \cap done # {} /\ \A s \in S \cap done : \E t \in S \cap done : Edge(s, t)
      BY <2>1
    <2>3. Endless(done)
      BY <2>2 DEF Endless
    <2> QED
      BY <2>3, <1>2 DEF DoneInv
  <1>16. DoneInv'
    <2>1. \A s \in done', t \in IDs : Edge(s, t) => t \in Entered /\ (cycles = {} => t \in done')
      BY <1>1, <1>14
    <2>2. Endless(done)' <=> Endless(done')
      BY <1>12 DEF Endless
    <2> QED
      BY <2>1, <2>2, <1>1, <1>2, <1>8, <1>12, <1>13, <1>15 DEF DoneInv
  <1>17. CyclesInv'
    <2>1. \A c : IsCycle(c)' <=> IsCycle(c)
      BY <1>12 DEF IsCycle
    <2> QED
      BY <2>1, <1>1, <1>2, <1>8 DEF CyclesInv
  <1> QED
    BY <1>1, <1>9, <1>11, <1>16, <1>17 DEF SearchInv

\* The invariant of DetectCycles.
THEOREM SearchInvariant == Spec => []SearchInv
  <1>1. Init => SearchInv
    BY DEF Init, SearchInv
  <1>2. GraphInv /\ SearchInv /\ [Next]_vars => SearchInv'
    <2> SUFFICES ASSUME GraphInv, SearchInv, [Next]_vars PROVE SearchInv'
      OBVIOUS
    <2>1. CASE SearchBegin
      <3>1. /\ op = "idle" /\ op' = "searching" /\ UNCHANGED <<graphVars, dfsVars>>
            /\ stack = <<>> /\ next = <<>> /\ done = {} /\ cycles = {}
        BY <2>1 DEF SearchBegin, GraphInv, Fresh
      <3>2. Len(stack) = 0 /\ Range(stack) = {} /\ IsInjective(stack) /\ stack \in Seq(IDs)
        BY <3>1, Empty
      <3>3. next \in Seq(Nat) /\ Len(next) = 0
        BY <3>1, Empty
      <3>4. stack' = stack /\ next' = next /\ done' = {} /\ cycles' = {}
        BY <3>1 DEF dfsVars
      <3>5. StackInv'
        BY <3>2, <3>3, <3>4 DEF StackInv
      <3>6. LookedInv'
        BY <3>2, <3>4 DEF LookedInv
      <3>7. DoneInv'
        BY <3>2, <3>4 DEF DoneInv, Entered, Endless
      <3>8. CyclesInv'
        BY <3>4 DEF CyclesInv
      <3> QED
        BY <3>1, <3>5, <3>6, <3>7, <3>8 DEF SearchInv
    <2>2. ASSUME NEW n \in IDs, SearchRoot(n) PROVE SearchInv'
      BY <2>2, SearchRootKeeps
    <2>3. CASE SearchEdge
      BY <2>3, SearchEdgeKeeps
    <2>4. CASE SearchLeave
      BY <2>4, SearchLeaveKeeps
    <2>5. ASSUME SearchEnd \/ UNCHANGED vars PROVE SearchInv'
      <3>1. UNCHANGED <<graphVars, dfsVars>>
        BY <2>5 DEF SearchEnd, vars
      <3>2. Edges' = Edges /\ (\A a, b : Edge(a, b)' <=> Edge(a, b)) /\ Entered' = Entered
        BY <3>1 DEF graphVars, dfsVars, Edges, Edge, Entered
      <3>3. /\ \A S : Closed(S, Edges)' <=> Closed(S, Edges)
            /\ \A c : IsCycle(c)' <=> IsCycle(c)
            /\ Endless(done)' <=> Endless(done)
        BY <3>1, <3>2 DEF dfsVars, Closed, IsCycle, Endless
      <3>4. StackInv' <=> StackInv
        BY <3>1 DEF graphVars, dfsVars, StackInv
      <3>5. LookedInv' <=> LookedInv
        BY <3>1, <3>2 DEF graphVars, dfsVars, LookedInv, Seen
      <3>6. DoneInv' <=> DoneInv
        BY <3>1, <3>2, <3>3 DEF graphVars, dfsVars, DoneInv
      <3>7. CyclesInv' <=> CyclesInv
        BY <3>1, <3>2, <3>3 DEF dfsVars, CyclesInv
      <3>8. /\ op' \in {"searching", "cycles"} => op \in {"searching", "cycles"}
            /\ op' = "cycles" /\ op = "searching" => stack = <<>> /\ nodes \subseteq done
        BY <2>5 DEF SearchEnd, vars
      <3> QED
        BY <3>1, <3>4, <3>5, <3>6, <3>7, <3>8 DEF graphVars, dfsVars, SearchInv
    <2>6. ASSUME op' \notin {"searching", "cycles"} PROVE SearchInv'
      BY <2>6 DEF SearchInv
    <2> QED
      BY <2>1, <2>2, <2>3, <2>4, <2>5, <2>6, Steps
      DEF AddNode, AddEdge, Clear, Change, SortBegin, SortNext, SortEnd, SpreadBegin, SpreadNext, SpreadEnd, Return
  <1> QED
    BY <1>1, <1>2, GraphCorrect, PTL DEF Spec

\* DetectCycles (graph.go:209-248) goes just to what can be reached from the
\* nodes, reports simple cycles of the graph and nothing else, and reports one
\* if what it went to has any.
THEOREM CyclesCorrectAlways == Spec => []CyclesCorrect
  <1>1. GraphInv /\ SearchInv => CyclesCorrect
    <2> SUFFICES ASSUME GraphInv, SearchInv PROVE CyclesCorrect
      OBVIOUS
    <2>1. CASE op \notin {"searching", "cycles"}
      BY <2>1 DEF GraphInv, Fresh, CyclesCorrect
    <2>2. CASE op = "searching"
      BY <2>2 DEF SearchInv, CyclesInv, CyclesCorrect
    <2>3. CASE op = "cycles"
      <3>1. /\ StackInv /\ DoneInv /\ CyclesInv /\ stack = <<>> /\ nodes \subseteq done
        BY <2>3 DEF SearchInv
      <3>2. Entered = done /\ done \subseteq IDs
        BY <3>1, Empty DEF Entered, StackInv
      <3>3. Closed(done, Edges)
        <4> SUFFICES ASSUME NEW e \in Edges, e[1] \in done PROVE e[2] \in done
          BY DEF Closed
        <4>1. e[2] \in IDs /\ Edge(e[1], e[2])
          BY DEF Edges
        <4> QED
          BY <4>1, <3>1, <3>2 DEF DoneInv
      <3>4. IsClosure(done, nodes, Edges)
        BY <3>1, <3>2, <3>3 DEF IsClosure, DoneInv
      <3>5. ASSUME NEW c \in cycles PROVE Endless(done)
        <4>1. c \in Seq(IDs) /\ IsCycle(c) /\ Range(c) \subseteq done
          BY <3>1, <3>2 DEF CyclesInv
        <4>2. Len(c) \in Nat /\ DOMAIN c = 1..Len(c) /\ Len(c) > 1 /\ c[1] = c[Len(c)]
          BY <4>1, LenProperties DEF IsCycle
        <4>3. ASSUME NEW i \in 1..Len(c) PROVE \E j \in 1..Len(c) : Edge(c[i], c[j])
          <5>1. CASE i = Len(c)
            <6>1. 1 \in 1..(Len(c) - 1) /\ 2 \in 1..Len(c) /\ 1 + 1 = 2
              BY <4>2
            <6>2. Edge(c[1], c[2])
              BY <4>1, <6>1 DEF IsCycle
            <6> QED
              BY <5>1, <6>1, <6>2, <4>2
          <5>2. CASE i # Len(c)
            <6>1. i \in 1..(Len(c) - 1) /\ i + 1 \in 1..Len(c)
              <7>1. Len(c) \in Nat
                BY <4>2
              <7> QED
                BY <7>1, <5>2
            <6> QED
              BY <6>1, <4>1 DEF IsCycle
          <5> QED
            BY <5>1, <5>2
        <4>4. Range(c) # {} /\ \A s \in Range(c) : \E t \in Range(c) : Edge(s, t)
          <5>1. 1 \in DOMAIN c
            BY <4>2
          <5> QED
            BY <5>1, <4>2, <4>3 DEF Range
        <4> QED
          BY <4>1, <4>4 DEF Endless
      <3>6. cycles # {} <=> Endless(done)
        BY <3>1, <3>5 DEF DoneInv
      <3> QED
        BY <3>1, <3>4, <3>6 DEF CyclesCorrect, CyclesInv
    <2> QED
      BY <2>1, <2>2, <2>3
  <1> QED
    BY <1>1, GraphCorrect, SearchInvariant, PTL

\* The types of the graph and of all locals, from the four invariants.
THEOREM TypeCorrect == Spec => []TypeOK
  <1>1. GraphInv /\ SortInv /\ SearchInv /\ SpreadInv => TypeOK
    <2> SUFFICES ASSUME GraphInv, SortInv, SearchInv, SpreadInv PROVE TypeOK
      OBVIOUS
    <2>1. GraphOK /\ op \in {"idle"} \cup Running \cup Returned
      BY DEF GraphInv, OpOK
    <2>2. deg \in [IDs -> Nat] /\ ready \subseteq IDs /\ sorted \in Seq(IDs)
      <3>1. CASE op \in {"sorting", "order", "error"}
        BY <2>1, <3>1, KnownAre DEF SortInv
      <3>2. CASE op \notin {"sorting", "order", "error"}
        <4>1. deg = NoDegrees /\ ready = {} /\ sorted = <<>>
          BY <3>2 DEF GraphInv, Fresh
        <4> QED
          BY <4>1, Empty DEF NoDegrees
      <3> QED
        BY <3>1, <3>2
    <2>3. /\ stack \in Seq(IDs) /\ next \in Seq(Nat) /\ Len(next) = Len(stack)
          /\ done \subseteq IDs /\ cycles \subseteq Seq(IDs)
      <3>1. CASE op \in {"searching", "cycles"}
        BY <3>1 DEF SearchInv, StackInv, CyclesInv
      <3>2. CASE op \notin {"searching", "cycles"}
        <4>1. stack = <<>> /\ next = <<>> /\ done = {} /\ cycles = {}
          BY <3>2 DEF GraphInv, Fresh
        <4>2. <<>> \in Seq(IDs) /\ <<>> \in Seq(Nat)
          BY Empty
        <4> QED
          BY <4>1, <4>2
      <3> QED
        BY <3>1, <3>2
    <2>4. start \subseteq IDs /\ frontier \subseteq IDs /\ affected \subseteq IDs
      <3>1. CASE op \in {"spreading", "affected"}
        BY <3>1 DEF SpreadInv
      <3>2. CASE op \notin {"spreading", "affected"}
        BY <3>2 DEF GraphInv, Fresh
      <3> QED
        BY <3>1, <3>2
    <2> QED
      BY <2>1, <2>2, <2>3, <2>4 DEF GraphOK, TypeOK
  <1> QED
    BY <1>1, GraphCorrect, SortInvariant, SearchInvariant, SpreadCorrect, PTL
================================================================================
