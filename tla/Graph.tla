--------------------------------- MODULE Graph ---------------------------------
(*****************************************************************************)
(* pkg/graph/graph.go: the dependency graph and its three algorithms.  Each  *)
(* algorithm holds the read lock from its first step to its return, so the   *)
(* graph does not change meanwhile: one runs at a time here.                 *)
(*                                                                           *)
(* An ID stands for a string, in the order of the strings.  Edges may name   *)
(* IDs that are no nodes: runBuild adds the text of an import as a target.   *)
(* Types, hashes and the insertion order, which no algorithm reads, are left *)
(* out: an edge of a source is its target.                                   *)
(*****************************************************************************)
EXTENDS Integers, Sequences, FiniteSets, Functions

CONSTANTS IDs,     \* the IDs
          MaxEdges \* bound: edges in the graph

ASSUME IDsAssumption == IsFiniteSet(IDs) /\ IDs \subseteq Nat
ASSUME MaxEdgesAssumption == MaxEdges \in Nat

VARIABLES nodes,    \* the IDs that are nodes
          edges,    \* ID -> the targets of its edges
          reverse,  \* ID -> the sources of the edges to it
          op,       \* "idle", what is running, or what was returned
          deg,      \* TopologicalSort: inDegree
          ready,    \* its queue, which it keeps sorted
          sorted,   \* its result
          stack,    \* DetectCycles: the path to the node dfs is at
          next,     \* for each node of the stack, the edge to look at next
          done,     \* the nodes dfs has left
          cycles,   \* its result
          start,    \* AffectedNodes: its argument
          frontier, \* its queue
          affected  \* its result

graphVars == <<nodes, edges, reverse>>
topoVars == <<deg, ready, sorted>>
dfsVars == <<stack, next, done, cycles>>
bfsVars == <<start, frontier, affected>>
vars == <<graphVars, op, topoVars, dfsVars, bfsVars>>

Running == {"sorting", "searching", "spreading"}

Returned == {"order", "error", "cycles", "affected"}

NoEdges == [s \in IDs |-> <<>>]

NoDegrees == [t \in IDs |-> 0]

Init ==
    /\ nodes = {} /\ edges = NoEdges /\ reverse = NoEdges
    /\ op = "idle"
    /\ deg = NoDegrees /\ ready = {} /\ sorted = <<>>
    /\ stack = <<>> /\ next = <<>> /\ done = {} /\ cycles = {}
    /\ start = {} /\ frontier = {} /\ affected = {}

--------------------------------------------------------------------------------
(* Changing the graph                                                        *)

\* The edges: the source of each, and its place in the source's list.
EdgeSlots == UNION {{s} \X DOMAIN edges[s] : s \in IDs}

Target(e) == edges[e[1]][e[2]]

Change == op = "idle" /\ UNCHANGED <<op, topoVars, dfsVars, bfsVars>>

AddNode(id) ==
    /\ Change
    /\ nodes' = nodes \cup {id}
    /\ UNCHANGED <<edges, reverse>>

AddEdge(s, t) ==
    /\ Change /\ Cardinality(EdgeSlots) < MaxEdges
    /\ edges' = [edges EXCEPT ![s] = Append(@, t)]
    /\ reverse' = [reverse EXCEPT ![t] = Append(@, s)]
    /\ UNCHANGED nodes

Clear ==
    /\ Change
    /\ nodes' = {} /\ edges' = NoEdges /\ reverse' = NoEdges

\* The algorithm's locals are gone with its return.
Return ==
    /\ op \in Returned /\ op' = "idle"
    /\ deg' = NoDegrees /\ ready' = {} /\ sorted' = <<>>
    /\ stack' = <<>> /\ next' = <<>> /\ done' = {} /\ cycles' = {}
    /\ start' = {} /\ frontier' = {} /\ affected' = {}
    /\ UNCHANGED graphVars

--------------------------------------------------------------------------------
(* TopologicalSort                                                           *)

\* The edges to t from the sources in S.
EdgesTo(S, t) == {e \in EdgeSlots : e[1] \in S /\ Target(e) = t}

Targets == {Target(e) : e \in EdgeSlots}

\* inDegree has an entry for each node and for each target.
SortBegin ==
    /\ op = "idle" /\ op' = "sorting"
    /\ deg' = [t \in IDs |-> Cardinality(EdgesTo(IDs, t))]
    /\ ready' = {t \in nodes \cup Targets : deg'[t] = 0}
    /\ UNCHANGED <<graphVars, sorted, dfsVars, bfsVars>>

Least(S) == CHOOSE x \in S : \A y \in S : x <= y

\* Wrong on purpose: every degree is lowered.
LoweredAll(n) == [t \in IDs |-> deg[t] - 1]

\* Wrong on purpose: a repeated edge is one edge.
LoweredOnce(n) == [t \in IDs |-> IF EdgesTo({n}, t) = {} THEN deg[t] ELSE deg[t] - 1]

\* The degrees after the loop over the edges of n.
Lowered(n) == [t \in IDs |-> deg[t] - Cardinality(EdgesTo({n}, t))]

\* One turn of the loop: what comes to zero joins the queue.
SortNext ==
    /\ op = "sorting" /\ ready # {}
    /\ LET n == Least(ready)
       IN  /\ sorted' = Append(sorted, n)
           /\ deg' = Lowered(n)
           /\ ready' = (ready \ {n}) \cup {t \in IDs : deg[t] > 0 /\ deg'[t] = 0}
    /\ UNCHANGED <<graphVars, op, dfsVars, bfsVars>>

\* An order, if it is as long as there are nodes.
SortEnd ==
    /\ op = "sorting" /\ ready = {}
    /\ op' = IF Len(sorted) = Cardinality(nodes) THEN "order" ELSE "error"
    /\ UNCHANGED <<graphVars, topoVars, dfsVars, bfsVars>>

--------------------------------------------------------------------------------
(* DetectCycles                                                              *)

SearchBegin ==
    /\ op = "idle" /\ op' = "searching"
    /\ UNCHANGED <<graphVars, topoVars, dfsVars, bfsVars>>

top == Len(stack)

\* dfs is called for a node.
Enter(id) == stack' = Append(stack, id)

Unvisited(id) == id \notin done /\ id \notin Range(stack)

\* The outer loop takes the nodes in map order.
SearchRoot(n) ==
    /\ op = "searching" /\ stack = <<>>
    /\ n \in nodes /\ Unvisited(n)
    /\ Enter(n) /\ next' = <<1>>
    /\ UNCHANGED <<graphVars, op, topoVars, done, cycles, bfsVars>>

Place(id) == CHOOSE k \in DOMAIN stack : stack[k] = id

\* Wrong on purpose: the cycle begins behind its first node.
CycleBehind(t) == Append(SubSeq(stack, Place(t) + 1, top), t)

\* The cycle an edge to a node of the stack closes.
CycleTo(t) == Append(SubSeq(stack, Place(t), top), t)

\* The loop over the edges goes on to the next.
Advanced == [next EXCEPT ![top] = @ + 1]

\* dfs looks at one edge of the node it is at.
SearchEdge ==
    /\ op = "searching" /\ stack # <<>>
    /\ next[top] \in DOMAIN edges[stack[top]]
    /\ LET t == edges[stack[top]][next[top]]
       IN  \/ Unvisited(t) /\ Enter(t) /\ next' = Append(Advanced, 1) /\ UNCHANGED cycles
           \/ t \in Range(stack) /\ cycles' = cycles \cup {CycleTo(t)} /\ next' = Advanced /\ UNCHANGED stack
           \/ t \in done /\ next' = Advanced /\ UNCHANGED <<stack, cycles>>
    /\ UNCHANGED <<graphVars, op, topoVars, done, bfsVars>>

\* dfs returns.
SearchLeave ==
    /\ op = "searching" /\ stack # <<>>
    /\ next[top] \notin DOMAIN edges[stack[top]]
    /\ done' = done \cup {stack[top]}
    /\ stack' = SubSeq(stack, 1, top - 1) /\ next' = SubSeq(next, 1, top - 1)
    /\ UNCHANGED <<graphVars, op, topoVars, cycles, bfsVars>>

SearchEnd ==
    /\ op = "searching" /\ stack = <<>> /\ nodes \subseteq done
    /\ op' = "cycles"
    /\ UNCHANGED <<graphVars, topoVars, dfsVars, bfsVars>>

--------------------------------------------------------------------------------
(* AffectedNodes                                                             *)

SpreadBegin(id) ==
    /\ op = "idle" /\ op' = "spreading"
    /\ start' = {id} /\ frontier' = {id} /\ affected' = {id}
    /\ UNCHANGED <<graphVars, topoVars, dfsVars>>

\* Wrong on purpose: the edges are followed forwards.
Imported(n) == Range(edges[n])

\* Who has an edge to n.
Importers(n) == Range(reverse[n])

\* One turn of the loop; the result does not depend on the queue's order.
SpreadNext(n) ==
    /\ op = "spreading" /\ n \in frontier
    /\ affected' = affected \cup Importers(n)
    /\ frontier' = (frontier \ {n}) \cup (Importers(n) \ affected)
    /\ UNCHANGED <<graphVars, op, topoVars, dfsVars, start>>

SpreadEnd ==
    /\ op = "spreading" /\ frontier = {}
    /\ op' = "affected"
    /\ UNCHANGED <<graphVars, topoVars, dfsVars, bfsVars>>

--------------------------------------------------------------------------------
Sort == SortNext \/ SortEnd

Search == (\E n \in IDs : SearchRoot(n)) \/ SearchEdge \/ SearchLeave \/ SearchEnd

Spread == (\E n \in IDs : SpreadNext(n)) \/ SpreadEnd

Begin == SortBegin \/ SearchBegin \/ \E n \in IDs : SpreadBegin(n)

Next ==
    \/ \E s \in IDs : AddNode(s) \/ \E t \in IDs : AddEdge(s, t)
    \/ Clear \/ Begin \/ Sort \/ Search \/ Spread \/ Return

Spec == Init /\ [][Next]_vars

--------------------------------------------------------------------------------
(* References: what the algorithms are about, said without an algorithm.     *)

Edge(s, t) == t \in Range(edges[s])

Edges == {e \in IDs \X IDs : Edge(e[1], e[2])}

EdgesBack == {e \in IDs \X IDs : Edge(e[2], e[1])}

\* The smallest set that contains B and where R leads from it.
Closed(S, R) == \A e \in R : e[1] \in S => e[2] \in S

IsClosure(C, B, R) ==
    /\ B \subseteq C /\ Closed(C, R)
    /\ \A S \in SUBSET IDs : B \subseteq S /\ Closed(S, R) => C \subseteq S

\* Nodes that can be followed without end, and nodes none of which can come
\* first: in a finite graph there are such sets if and only if it has a cycle.
Endless(T) == \E S \in SUBSET T : S # {} /\ \A s \in S : \E t \in S : Edge(s, t)

Entangled(T) == \E S \in SUBSET T : S # {} /\ \A t \in S : \E s \in S : Edge(s, t)

\* A cycle that comes to no node twice.
IsCycle(c) ==
    /\ Len(c) > 1 /\ c[1] = c[Len(c)]
    /\ \A i \in 1..(Len(c) - 1) : Edge(c[i], c[i + 1])
    /\ \A i, j \in 1..(Len(c) - 1) : c[i] = c[j] => i = j

\* All edges are between nodes.
Proper == \A e \in Edges : e[1] \in nodes /\ e[2] \in nodes

\* The types of the graph and of the algorithms' locals.
TypeOK ==
    /\ nodes \subseteq IDs /\ edges \in [IDs -> Seq(IDs)] /\ reverse \in [IDs -> Seq(IDs)]
    /\ op \in {"idle"} \cup Running \cup Returned
    /\ deg \in [IDs -> Nat] /\ ready \subseteq IDs /\ sorted \in Seq(IDs)
    /\ stack \in Seq(IDs) /\ next \in Seq(Nat) /\ Len(next) = Len(stack)
    /\ done \subseteq IDs /\ cycles \subseteq Seq(IDs)
    /\ start \subseteq IDs /\ frontier \subseteq IDs /\ affected \subseteq IDs

\* TopologicalSort sorts nothing twice and nothing before a source of an edge to
\* it, whether the ends of the edges are nodes or not.  If they all are, it
\* returns all nodes or an error, and then some nodes cannot be ordered.
SortCorrect ==
    op \in {"order", "error"} =>
        /\ IsInjective(sorted)
        /\ \A i \in DOMAIN sorted, s \in IDs : Edge(s, sorted[i]) => \E j \in 1..(i - 1) : sorted[j] = s
        /\ Proper => IF op = "order" THEN Range(sorted) = nodes ELSE Entangled(nodes)

\* What DetectCycles reports are simple cycles of the graph, and it reports one
\* if there is any in what can be reached from the nodes.
CyclesCorrect ==
    /\ \A c \in cycles : IsCycle(c)
    /\ op = "cycles" => IsClosure(done, nodes, Edges) /\ (cycles # {} <=> Endless(done))

\* AffectedNodes returns its argument and all that lead to it, whether nodes
\* or not: the reverse index tells the same edges as the lists of the sources.
AffectedCorrect ==
    op = "affected" => IsClosure(affected, start, EdgesBack)
================================================================================
