----------------------------- MODULE GraphStore -----------------------------
(***************************************************************************)
(* The graph's SQLite store (store.go).  Save writes both tables in one    *)
(* transaction, Load reads them with two queries and Clear empties them    *)
(* with two statements, so that another client's call, an error or a crash *)
(* can come between.  A statement is one step.  What a transaction has     *)
(* written is seen by nobody before its commit, and only one client at a   *)
(* time has one (a second writer waits, or gives up and changes nothing).  *)
(***************************************************************************)
EXTENDS Naturals, Sequences, FiniteSets

CONSTANTS StoreClients,
          Graphs,           \* what is saved: rows of nodes, and edges in the order
                            \* in which their sources list them
          MaxStoreCalls     \* bound: calls of Save, Load and Clear

ASSUME GraphsAssumption ==
    \A g \in Graphs : Len(g.edges) \in Nat /\ DOMAIN g.edges = 1 .. Len(g.edges)
ASSUME StoreBoundAssumption == MaxStoreCalls \in Nat

VARIABLES
    nodeRows,       \* graph_nodes: id -> the node's row
    edgeRows,       \* graph_edges: <<source, target, type>> -> dynamic
    client,         \* the call each client is in
    storeCalls,
    nodesOf, edgesOf,   \* history: the graph each table's rows were saved from
    clearCut        \* history: a Clear ended between its statements, or another
                    \* client's Save came between them

storeVars == <<nodeRows, edgeRows, client, storeCalls, nodesOf, edgesOf, clearCut>>
storeTables == <<nodeRows, edgeRows, nodesOf, edgesOf, clearCut>>

EmptyMap == [x \in {} |-> x]
EmptyGraph == [nodes |-> EmptyMap, edges |-> <<>>]
NoCall == [at |-> "idle"]
EdgeKeys(g) == {g.edges[i].key : i \in DOMAIN g.edges}

\* The tables are created empty.
StoreInit ==
    /\ nodeRows = EmptyMap /\ edgeRows = EmptyMap
    /\ client = [c \in StoreClients |-> NoCall]
    /\ storeCalls = 0 /\ clearCut = FALSE
    /\ nodesOf = EmptyGraph /\ edgesOf = EmptyGraph

StoreTypeOK ==
    /\ \E g \in Graphs \cup {EmptyGraph} : nodeRows = g.nodes
    /\ \E g \in Graphs \cup {EmptyGraph} : DOMAIN edgeRows = EdgeKeys(g)
    /\ \A c \in StoreClients :
        client[c].at \in {"idle", "saving", "loading", "loaded", "clearing"}
    /\ storeCalls \in 0 .. MaxStoreCalls /\ clearCut \in BOOLEAN
    /\ {nodesOf, edgesOf} \subseteq Graphs \cup {EmptyGraph}

NobodyWrites == \A c \in StoreClients : client[c].at # "saving"

BeginCall(c) ==
    /\ client[c].at \in {"idle", "loaded"} /\ storeCalls < MaxStoreCalls
    /\ storeCalls' = storeCalls + 1

\* c is now in the call `next`; a Load that is between its queries notes that
\* the tables changed.
Enter(c, next) == client' = [client EXCEPT ![c] = next]
EnterAndChange(c, next) ==
    client' = [d \in StoreClients |->
        IF d = c THEN next
        ELSE IF client[d].at = "loading"
             THEN [at |-> "loading", nodes |-> client[d].nodes, crossed |-> TRUE]
        ELSE client[d]]

\* Save deletes all rows, then inserts the nodes in any order ...
SaveBegin(c, g) ==
    /\ BeginCall(c) /\ NobodyWrites
    /\ Enter(c, [at |-> "saving", graph |-> g, edges |-> EmptyMap, next |-> 1])
    /\ UNCHANGED storeTables

\* Wrong on purpose: a row that is there is replaced.
InsertOrReplace(rows, e) ==
    [k \in DOMAIN rows \cup {e.key} |-> IF k = e.key THEN e.dynamic ELSE rows[k]]

\* INSERT OR IGNORE: a row with the same key stays.
InsertOrIgnore(rows, e) ==
    [k \in DOMAIN rows \cup {e.key} |-> IF k \in DOMAIN rows THEN rows[k] ELSE e.dynamic]

\* ... and the edges, those of one source in their order.
SaveEdge(c) ==
    /\ client[c].at = "saving"
    /\ LET s == client[c] IN
        /\ s.next <= Len(s.graph.edges)
        /\ Enter(c, [at |-> "saving", graph |-> s.graph, next |-> s.next + 1,
                     edges |-> InsertOrIgnore(s.edges, s.graph.edges[s.next])])
    /\ UNCHANGED <<storeTables, storeCalls>>

SaveCommit(c) ==
    /\ client[c].at = "saving"
    /\ client[c].next > Len(client[c].graph.edges)
    /\ nodeRows' = client[c].graph.nodes
    /\ edgeRows' = client[c].edges
    /\ nodesOf' = client[c].graph /\ edgesOf' = client[c].graph
    /\ clearCut' = FALSE
    /\ EnterAndChange(c, NoCall)
    /\ UNCHANGED storeCalls

\* Load queries the nodes ...
LoadNodes(c) ==
    /\ BeginCall(c)
    /\ Enter(c, [at |-> "loading", nodes |-> nodeRows, crossed |-> FALSE])
    /\ UNCHANGED storeTables

\* ... and then the edges.
LoadEdges(c) ==
    /\ client[c].at = "loading"
    /\ Enter(c, [at |-> "loaded", nodes |-> client[c].nodes, edges |-> edgeRows,
                 whole |-> ~client[c].crossed /\ nodesOf = edgesOf, from |-> nodesOf])
    /\ UNCHANGED <<storeTables, storeCalls>>

\* Diff compares two graphs by the ids of their nodes and by the sources, targets
\* and types of their edges: a node's new hash or an edge that became dynamic is no
\* difference.
Diff(nodes, keys, otherNodes, otherKeys) ==
    [addedNodes |-> DOMAIN otherNodes \ DOMAIN nodes,
     removedNodes |-> DOMAIN nodes \ DOMAIN otherNodes,
     addedEdges |-> otherKeys \ keys, removedEdges |-> keys \ otherKeys]

\* NodeCount and EdgeCount are queries of their own.
StoredNodeCount == Cardinality(DOMAIN nodeRows)
StoredEdgeCount == Cardinality(DOMAIN edgeRows)

ClearNodes(c) ==
    /\ BeginCall(c) /\ NobodyWrites
    /\ nodeRows' = EmptyMap /\ nodesOf' = EmptyGraph
    /\ EnterAndChange(c, [at |-> "clearing"])
    /\ UNCHANGED <<edgeRows, edgesOf, clearCut>>

\* Another client may have saved a graph meanwhile: its nodes stay, its edges go.
ClearEdges(c) ==
    /\ client[c].at = "clearing" /\ NobodyWrites
    /\ edgeRows' = EmptyMap /\ edgesOf' = EmptyGraph
    /\ clearCut' = (clearCut \/ nodesOf # EmptyGraph)
    /\ EnterAndChange(c, NoCall)
    /\ UNCHANGED <<nodeRows, nodesOf, storeCalls>>

\* A statement fails, or the process goes away: a transaction is rolled back, the
\* rest of a Load or Clear is not done.
StoreFail(c) ==
    /\ client[c].at \in {"saving", "loading", "clearing"}
    /\ clearCut' = (clearCut \/ client[c].at = "clearing")
    /\ Enter(c, NoCall)
    /\ UNCHANGED <<nodeRows, edgeRows, nodesOf, edgesOf, storeCalls>>

StoreNext ==
    \E c \in StoreClients :
        \/ \E g \in Graphs : SaveBegin(c, g)
        \/ SaveEdge(c) \/ SaveCommit(c)
        \/ LoadNodes(c) \/ LoadEdges(c)
        \/ ClearNodes(c) \/ ClearEdges(c)
        \/ StoreFail(c)

StoreSpec == StoreInit /\ [][StoreNext]_storeVars

-----------------------------------------------------------------------------
(* Properties                                                              *)

\* One row for each source, target and type, and of several edges with them the
\* flag of the first.
FirstOf(g, key) == CHOOSE i \in DOMAIN g.edges :
    g.edges[i].key = key /\ \A j \in 1 .. i - 1 : g.edges[j].key # key
Stored(g) == [key \in EdgeKeys(g) |-> g.edges[FirstOf(g, key)].dynamic]

\* Whatever fails and in whatever order the clients call, the tables hold one
\* graph that was saved, whole, or nothing: only a Clear that is between its two
\* statements, was cut off there, or let a Save pass there leaves the edges
\* without the nodes they belong to, or the nodes without the edges.
StoreWhole ==
    /\ nodeRows = nodesOf.nodes /\ edgeRows = Stored(edgesOf)
    /\ nodesOf # edgesOf => clearCut \/ \E c \in StoreClients : client[c].at = "clearing"

\* A Load returns one saved graph, which Diff cannot tell from it, unless another
\* client wrote between its two queries or a Clear had left half of one.
LoadWhole ==
    \A c \in StoreClients : client[c].at = "loaded" /\ client[c].whole =>
        /\ client[c].nodes = client[c].from.nodes
        /\ client[c].edges = Stored(client[c].from)
        /\ LET d == Diff(client[c].from.nodes, EdgeKeys(client[c].from),
                         client[c].nodes, DOMAIN client[c].edges)
           IN  \A part \in DOMAIN d : d[part] = {}

GraphStoreSound == StoreWhole /\ LoadWhole

=============================================================================
