---------------------------- MODULE Project_proofs ----------------------------
(***************************************************************************)
(* For any clients, goroutines, graphs, keys and data: the components of   *)
(* Project, each alone and in the composition.                             *)
(***************************************************************************)
EXTENDS Project, Answers_proofs, FiniteSetTheorems, FunctionTheorems, SequenceTheorems, TLAPS

-----------------------------------------------------------------------------
(* The graph store                                                         *)

\* What a client in the middle of a call remembers.  A Save has inserted the
\* first edges of its graph, and of those with one key the first.
IsFirst(g, i, key) == g.edges[i].key = key /\ \A j \in 1 .. i - 1 : g.edges[j].key # key
InsertedUpTo(g, n, rows) ==
    /\ rows = [k \in DOMAIN rows |-> rows[k]]
    /\ DOMAIN rows = {g.edges[i].key : i \in 1 .. n}
    /\ \A k \in DOMAIN rows : \E i \in 1 .. n : IsFirst(g, i, k) /\ rows[k] = g.edges[i].dynamic
SavingOK(c) ==
    \E g \in Graphs, n \in Nat : \E rows :
        /\ client[c] = [at |-> "saving", graph |-> g, edges |-> rows, next |-> n + 1]
        /\ n <= Len(g.edges) /\ InsertedUpTo(g, n, rows)

\* A Load's nodes are those of the table until somebody writes.
LoadingOK(c) ==
    \E nodes : \E crossed \in BOOLEAN :
        /\ client[c] = [at |-> "loading", nodes |-> nodes, crossed |-> crossed]
        /\ ~crossed => nodes = nodeRows

ClientOK(c) ==
    /\ client[c].at \in {"idle", "saving", "loading", "loaded", "clearing"}
    /\ client[c].at = "saving" => SavingOK(c)
    /\ client[c].at = "loading" => LoadingOK(c)
    /\ client[c].at = "loaded" /\ client[c].whole =>
            client[c].nodes = client[c].from.nodes /\ client[c].edges = Stored(client[c].from)

StoreInv ==
    /\ client = [c \in StoreClients |-> client[c]]
    /\ storeCalls \in 0 .. MaxStoreCalls /\ clearCut \in BOOLEAN
    /\ {nodesOf, edgesOf} \subseteq Graphs \cup {EmptyGraph}
    /\ \A c \in StoreClients : ClientOK(c)
    /\ StoreWhole

\* Of an empty graph there are no rows.
LEMMA StoredEmpty == Stored(EmptyGraph) = EmptyMap /\ EmptyGraph.nodes = EmptyMap /\ EdgeKeys(EmptyGraph) = {}
<1>1. EdgeKeys(EmptyGraph) = {}
  BY DEF EdgeKeys, EmptyGraph
<1>2. Stored(EmptyGraph) = [key \in {} |-> EmptyGraph.edges[FirstOf(EmptyGraph, key)].dynamic]
  BY <1>1 DEF Stored
<1>3. EmptyMap = [key \in {} |-> key]
  BY DEF EmptyMap
<1> QED
  BY <1>1, <1>2, <1>3 DEF EmptyGraph

\* A key has one first edge.
LEMMA FirstIs ==
    ASSUME NEW g \in Graphs, NEW key, NEW i \in DOMAIN g.edges, IsFirst(g, i, key)
    PROVE  FirstOf(g, key) = i
<1> DEFINE n == Len(g.edges)
<1>1. DOMAIN g.edges = 1 .. n /\ n \in Nat
  BY GraphsAssumption
<1>2. \A j \in 1 .. n : IsFirst(g, j, key) => j = i
  BY <1>1 DEF IsFirst
<1>3. FirstOf(g, key) = CHOOSE j \in DOMAIN g.edges : IsFirst(g, j, key)
  BY DEF FirstOf, IsFirst
<1> QED
  BY <1>1, <1>2, <1>3

\* INSERT OR IGNORE of the next edge.
LEMMA OneMoreEdge ==
    ASSUME NEW g \in Graphs, NEW n \in Nat, n < Len(g.edges), NEW rows, InsertedUpTo(g, n, rows)
    PROVE  InsertedUpTo(g, n + 1, InsertOrIgnore(rows, g.edges[n + 1]))
<1> DEFINE e == g.edges[n + 1]
           more == InsertOrIgnore(rows, e)
<1>1. more = [k \in DOMAIN rows \cup {e.key} |-> IF k \in DOMAIN rows THEN rows[k] ELSE e.dynamic]
  BY DEF InsertOrIgnore
<1>2. DOMAIN more = {g.edges[i].key : i \in 1 .. n + 1}
  BY <1>1 DEF InsertedUpTo
<1>3. ASSUME NEW k \in DOMAIN more
      PROVE  \E i \in 1 .. n + 1 : IsFirst(g, i, k) /\ more[k] = g.edges[i].dynamic
  <2>1. CASE k \in DOMAIN rows
    <3>1. PICK i \in 1 .. n : IsFirst(g, i, k) /\ rows[k] = g.edges[i].dynamic
      BY <2>1 DEF InsertedUpTo
    <3>2. i \in 1 .. n + 1 /\ more[k] = rows[k]
      BY <1>1, <2>1
    <3> QED
      BY <3>1, <3>2
  <2>2. CASE k \notin DOMAIN rows
    <3>1. k = e.key /\ more[k] = e.dynamic /\ \A j \in 1 .. n : g.edges[j].key # k
      BY <1>1, <1>3, <2>2 DEF InsertedUpTo
    <3>2. n + 1 \in 1 .. n + 1 /\ (n + 1) - 1 = n
      OBVIOUS
    <3>3. IsFirst(g, n + 1, k)
      BY <3>1, <3>2 DEF IsFirst
    <3> QED
      BY <3>1, <3>2, <3>3
  <2> QED
    BY <2>1, <2>2
<1> QED
  BY <1>1, <1>2, <1>3 DEF InsertedUpTo

\* When all are inserted the rows are those of the graph.
LEMMA AllInserted ==
    ASSUME NEW g \in Graphs, NEW rows, InsertedUpTo(g, Len(g.edges), rows)
    PROVE  rows = Stored(g)
<1>1. DOMAIN g.edges = 1 .. Len(g.edges) /\ Len(g.edges) \in Nat
  BY GraphsAssumption
<1>2. DOMAIN rows = EdgeKeys(g)
  BY <1>1 DEF InsertedUpTo, EdgeKeys
<1>3. \A k \in DOMAIN rows : rows[k] = g.edges[FirstOf(g, k)].dynamic
  BY <1>1, FirstIs DEF InsertedUpTo
<1> QED
  BY <1>2, <1>3 DEF InsertedUpTo, Stored

LEMMA StoreInitHolds == StoreInit => StoreInv
<1> SUFFICES ASSUME StoreInit PROVE StoreInv
  OBVIOUS
<1>1. StoreWhole
  BY StoredEmpty DEF StoreInit, StoreWhole
<1>2. client = [c \in StoreClients |-> client[c]] /\ \A c \in StoreClients : client[c].at = "idle"
  BY DEF StoreInit, NoCall
<1>3. \A c \in StoreClients : ClientOK(c)
  BY <1>2 DEF ClientOK
<1>4. storeCalls \in 0 .. MaxStoreCalls
  BY StoreBoundAssumption DEF StoreInit
<1> QED
  BY <1>1, <1>2, <1>3, <1>4 DEF StoreInit, StoreInv

\* A step that enters the call `next` keeps what the others remember; if it changes
\* the tables, the Loads know.
LEMMA OthersKeep ==
    ASSUME StoreInv, NEW c \in StoreClients, NEW next,
           \/ Enter(c, next) /\ nodeRows' = nodeRows
           \/ EnterAndChange(c, next),
           ClientOK(c)'
    PROVE  \A d \in StoreClients : ClientOK(d)'
<1> SUFFICES ASSUME NEW d \in StoreClients, d # c
             PROVE  ClientOK(d)'
  OBVIOUS
<1>1. ClientOK(d)
  BY DEF StoreInv
<1>2. CASE client'[d] = client[d] /\ (nodeRows' = nodeRows \/ client[d].at # "loading")
  BY <1>1, <1>2 DEF ClientOK, SavingOK, LoadingOK
<1> DEFINE crossedNow == [at |-> "loading", nodes |-> client[d].nodes, crossed |-> TRUE]
<1>3. CASE client'[d] = crossedNow
  <2>1. LoadingOK(d)'
    <3>1. \E crossed \in BOOLEAN :
            /\ client'[d] = [at |-> "loading", nodes |-> client[d].nodes, crossed |-> crossed]
            /\ ~crossed => client[d].nodes = nodeRows'
      BY <1>3
    <3> QED
      BY <3>1 DEF LoadingOK
  <2> QED
    BY <1>3, <2>1 DEF ClientOK
<1>4. client'[d] = client[d] \/ (client[d].at = "loading" /\ client'[d] = crossedNow)
  BY DEF Enter, EnterAndChange, StoreInv
<1> QED
  BY <1>2, <1>3, <1>4 DEF Enter, EnterAndChange, StoreInv

LEMMA Entered ==
    ASSUME StoreInv, NEW c \in StoreClients, NEW next, Enter(c, next) \/ EnterAndChange(c, next)
    PROVE  /\ client'[c] = next /\ client' = [d \in StoreClients |-> client'[d]]
           /\ \A d \in StoreClients \ {c} : client'[d].at = client[d].at
<1>1. \A d \in StoreClients : client[d].at = "loading" => \E nodes : \E crossed \in BOOLEAN :
            client[d] = [at |-> "loading", nodes |-> nodes, crossed |-> crossed]
  BY DEF StoreInv, ClientOK, LoadingOK
<1> QED
  BY <1>1 DEF StoreInv, Enter, EnterAndChange

\* What a step has to show besides: the client that moves, and the tables.
LEMMA StoreMoves ==
    ASSUME StoreInv, NEW c \in StoreClients, NEW next,
           \/ Enter(c, next) /\ nodeRows' = nodeRows
           \/ EnterAndChange(c, next),
           ClientOK(c)', StoreWhole',
           storeCalls' \in 0 .. MaxStoreCalls, clearCut' \in BOOLEAN,
           {nodesOf', edgesOf'} \subseteq Graphs \cup {EmptyGraph}
    PROVE  StoreInv'
  BY OthersKeep, Entered DEF StoreInv

\* A call that leaves the tables alone, of a client that is not clearing them.
LEMMA TablesStay ==
    ASSUME StoreInv, NEW c \in StoreClients, NEW next, Enter(c, next), client[c].at # "clearing",
           UNCHANGED storeTables
    PROVE  StoreWhole'
<1>1. \A d \in StoreClients : client[d].at = "clearing" => client'[d].at = "clearing"
  BY Entered
<1> QED
  BY <1>1 DEF StoreInv, StoreWhole, storeTables

LEMMA CallsBounded ==
    ASSUME StoreInv, NEW c \in StoreClients, BeginCall(c)
    PROVE  storeCalls' \in 0 .. MaxStoreCalls
  BY StoreBoundAssumption DEF StoreInv, BeginCall

LEMMA SaveBeginStep ==
    ASSUME StoreInv, NEW c \in StoreClients, NEW g \in Graphs, SaveBegin(c, g)
    PROVE  StoreInv'
<1> DEFINE next == [at |-> "saving", graph |-> g, edges |-> EmptyMap, next |-> 1]
<1>1. Enter(c, next) /\ BeginCall(c) /\ UNCHANGED storeTables
  BY DEF SaveBegin
<1>2. InsertedUpTo(g, 0, EmptyMap)
  BY DEF InsertedUpTo, EmptyMap
<1>3. client'[c] = [at |-> "saving", graph |-> g, edges |-> EmptyMap, next |-> 0 + 1]
  BY <1>1, Entered
<1>4. SavingOK(c)'
  BY <1>2, <1>3, GraphsAssumption DEF SavingOK
<1>5. ClientOK(c)'
  BY <1>3, <1>4 DEF ClientOK
<1>6. StoreWhole'
  BY <1>1, TablesStay DEF BeginCall
<1> QED
  BY <1>1, <1>5, <1>6, StoreMoves, CallsBounded DEF storeTables, StoreInv

LEMMA SaveEdgeStep ==
    ASSUME StoreInv, NEW c \in StoreClients, SaveEdge(c)
    PROVE  StoreInv'
<1>1. PICK g \in Graphs, n \in Nat : \E rows :
        /\ client[c] = [at |-> "saving", graph |-> g, edges |-> rows, next |-> n + 1]
        /\ n <= Len(g.edges) /\ InsertedUpTo(g, n, rows)
  BY DEF SaveEdge, StoreInv, ClientOK, SavingOK
<1>2. PICK rows :
        /\ client[c] = [at |-> "saving", graph |-> g, edges |-> rows, next |-> n + 1]
        /\ n <= Len(g.edges) /\ InsertedUpTo(g, n, rows)
  BY <1>1
<1> DEFINE more == InsertOrIgnore(rows, g.edges[n + 1])
           next == [at |-> "saving", graph |-> g, edges |-> more, next |-> (n + 1) + 1]
<1>3. Enter(c, next) /\ n < Len(g.edges) /\ UNCHANGED <<storeTables, storeCalls>>
  BY <1>2, GraphsAssumption DEF SaveEdge
<1>4. InsertedUpTo(g, n + 1, more) /\ n + 1 <= Len(g.edges) /\ n + 1 \in Nat
  BY <1>2, <1>3, OneMoreEdge, GraphsAssumption
<1>5. client'[c] = next
  BY <1>3, Entered
<1>6. SavingOK(c)'
  BY <1>4, <1>5 DEF SavingOK
<1>7. ClientOK(c)'
  BY <1>5, <1>6 DEF ClientOK
<1>8. StoreWhole'
  BY <1>2, <1>3, TablesStay
<1> QED
  BY <1>3, <1>7, <1>8, StoreMoves DEF storeTables, StoreInv

LEMMA SaveCommitStep ==
    ASSUME StoreInv, NEW c \in StoreClients, SaveCommit(c)
    PROVE  StoreInv'
<1>1. PICK g \in Graphs, n \in Nat : \E rows :
        /\ client[c] = [at |-> "saving", graph |-> g, edges |-> rows, next |-> n + 1]
        /\ n <= Len(g.edges) /\ InsertedUpTo(g, n, rows)
  BY DEF SaveCommit, StoreInv, ClientOK, SavingOK
<1>2. PICK rows :
        /\ client[c] = [at |-> "saving", graph |-> g, edges |-> rows, next |-> n + 1]
        /\ n <= Len(g.edges) /\ InsertedUpTo(g, n, rows)
  BY <1>1
<1>3. /\ EnterAndChange(c, NoCall) /\ nodeRows' = g.nodes /\ edgeRows' = rows
      /\ nodesOf' = g /\ edgesOf' = g /\ clearCut' = FALSE /\ storeCalls' = storeCalls
      /\ n = Len(g.edges)
  BY <1>2, GraphsAssumption DEF SaveCommit
<1>4. rows = Stored(g)
  BY <1>2, <1>3, AllInserted
<1>5. StoreWhole'
  BY <1>3, <1>4 DEF StoreWhole
<1>6. ClientOK(c)'
  BY <1>3, Entered DEF ClientOK, NoCall
<1> QED
  BY <1>3, <1>5, <1>6, StoreMoves DEF StoreInv

LEMMA LoadNodesStep ==
    ASSUME StoreInv, NEW c \in StoreClients, LoadNodes(c)
    PROVE  StoreInv'
<1> DEFINE next == [at |-> "loading", nodes |-> nodeRows, crossed |-> FALSE]
<1>1. Enter(c, next) /\ BeginCall(c) /\ UNCHANGED storeTables
  BY DEF LoadNodes
<1>2. client'[c] = next
  BY <1>1, Entered
<1>3. LoadingOK(c)'
  <2>1. \E crossed \in BOOLEAN :
          /\ client'[c] = [at |-> "loading", nodes |-> nodeRows', crossed |-> crossed]
          /\ ~crossed => nodeRows' = nodeRows'
    BY <1>1, <1>2 DEF storeTables
  <2> QED
    BY <2>1 DEF LoadingOK
<1>4. ClientOK(c)'
  BY <1>2, <1>3 DEF ClientOK
<1>5. StoreWhole'
  BY <1>1, TablesStay DEF BeginCall
<1> QED
  BY <1>1, <1>4, <1>5, StoreMoves, CallsBounded DEF storeTables, StoreInv

LEMMA LoadEdgesStep ==
    ASSUME StoreInv, NEW c \in StoreClients, LoadEdges(c)
    PROVE  StoreInv'
<1> DEFINE next == [at |-> "loaded", nodes |-> client[c].nodes, edges |-> edgeRows,
                    whole |-> ~client[c].crossed /\ nodesOf = edgesOf, from |-> nodesOf]
<1>1. Enter(c, next) /\ client[c].at = "loading" /\ UNCHANGED <<storeTables, storeCalls>>
  BY DEF LoadEdges
<1>2. client'[c] = next
  BY <1>1, Entered
<1>3. ~client[c].crossed => client[c].nodes = nodeRows
  BY <1>1 DEF StoreInv, ClientOK, LoadingOK
<1>4. ClientOK(c)'
  <2>1. next.whole => next.nodes = next.from.nodes /\ next.edges = Stored(next.from)
    BY <1>3 DEF StoreInv, StoreWhole
  <2> HIDE DEF next
  <2>2. next.at = "loaded"
    BY DEF next
  <2> QED
    BY <1>2, <2>1, <2>2 DEF ClientOK
<1>5. StoreWhole'
  BY <1>1, TablesStay
<1> QED
  BY <1>1, <1>4, <1>5, StoreMoves DEF storeTables, StoreInv

LEMMA ClearNodesStep ==
    ASSUME StoreInv, NEW c \in StoreClients, ClearNodes(c)
    PROVE  StoreInv'
<1>1. /\ EnterAndChange(c, [at |-> "clearing"]) /\ BeginCall(c)
      /\ nodeRows' = EmptyMap /\ nodesOf' = EmptyGraph /\ UNCHANGED <<edgeRows, edgesOf, clearCut>>
  BY DEF ClearNodes
<1>2. client'[c] = [at |-> "clearing"]
  BY <1>1, Entered
<1>3. ClientOK(c)'
  BY <1>2 DEF ClientOK
<1>4. StoreWhole'
  BY <1>1, <1>2, StoredEmpty DEF StoreInv, StoreWhole
<1> QED
  BY <1>1, <1>3, <1>4, StoreMoves, CallsBounded DEF StoreInv

LEMMA ClearEdgesStep ==
    ASSUME StoreInv, NEW c \in StoreClients, ClearEdges(c)
    PROVE  StoreInv'
<1>1. /\ EnterAndChange(c, NoCall) /\ edgeRows' = EmptyMap /\ edgesOf' = EmptyGraph
      /\ clearCut' = (clearCut \/ nodesOf # EmptyGraph) /\ UNCHANGED <<nodeRows, nodesOf, storeCalls>>
  BY DEF ClearEdges
<1>2. ClientOK(c)'
  BY <1>1, Entered DEF ClientOK, NoCall
<1>3. StoreWhole'
  BY <1>1, StoredEmpty DEF StoreInv, StoreWhole
<1> QED
  BY <1>1, <1>2, <1>3, StoreMoves DEF StoreInv

LEMMA StoreFailStep ==
    ASSUME StoreInv, NEW c \in StoreClients, StoreFail(c)
    PROVE  StoreInv'
<1>1. /\ Enter(c, NoCall) /\ clearCut' = (clearCut \/ client[c].at = "clearing")
      /\ UNCHANGED <<nodeRows, edgeRows, nodesOf, edgesOf, storeCalls>>
  BY DEF StoreFail
<1>2. ClientOK(c)'
  BY <1>1, Entered DEF ClientOK, NoCall
<1>3. StoreWhole'
  <2>1. \A d \in StoreClients \ {c} : client'[d].at = client[d].at
    BY <1>1, Entered
  <2> QED
    BY <1>1, <2>1 DEF StoreInv, StoreWhole
<1> QED
  BY <1>1, <1>2, <1>3, StoreMoves DEF StoreInv

LEMMA StoreStep == StoreInv /\ [StoreNext]_storeVars => StoreInv'
<1> SUFFICES ASSUME StoreInv, [StoreNext]_storeVars
             PROVE  StoreInv'
  OBVIOUS
<1>1. CASE UNCHANGED storeVars
  BY <1>1 DEF StoreInv, storeVars, ClientOK, SavingOK, LoadingOK, StoreWhole
<1>2. ASSUME NEW c \in StoreClients,
             \/ \E g \in Graphs : SaveBegin(c, g)
             \/ SaveEdge(c) \/ SaveCommit(c)
             \/ LoadNodes(c) \/ LoadEdges(c)
             \/ ClearNodes(c) \/ ClearEdges(c)
             \/ StoreFail(c)
      PROVE  StoreInv'
  BY <1>2, SaveBeginStep, SaveEdgeStep, SaveCommitStep, LoadNodesStep, LoadEdgesStep,
     ClearNodesStep, ClearEdgesStep, StoreFailStep
<1> QED
  BY <1>1, <1>2 DEF StoreNext

\* What the tables hold has its type, and Diff finds no difference in a Load.
LEMMA StoreSound == StoreInv => StoreTypeOK /\ GraphStoreSound
<1> SUFFICES ASSUME StoreInv
             PROVE  StoreTypeOK /\ GraphStoreSound
  OBVIOUS
<1>1. StoreTypeOK
  <2>1. nodeRows = nodesOf.nodes /\ DOMAIN edgeRows = EdgeKeys(edgesOf)
    BY DEF StoreInv, StoreWhole, Stored
  <2> QED
    BY <2>1 DEF StoreInv, StoreTypeOK, ClientOK
<1>2. LoadWhole
  <2> SUFFICES ASSUME NEW c \in StoreClients, client[c].at = "loaded", client[c].whole
               PROVE  /\ client[c].nodes = client[c].from.nodes
                      /\ client[c].edges = Stored(client[c].from)
                      /\ LET d == Diff(client[c].from.nodes, EdgeKeys(client[c].from),
                                       client[c].nodes, DOMAIN client[c].edges)
                         IN  \A x \in DOMAIN d : d[x] = {}
    BY DEF LoadWhole
  <2>1. client[c].nodes = client[c].from.nodes /\ client[c].edges = Stored(client[c].from)
    BY DEF StoreInv, ClientOK
  <2>2. DOMAIN client[c].edges = EdgeKeys(client[c].from)
    BY <2>1 DEF Stored
  <2> QED
    BY <2>1, <2>2 DEF Diff
<1> QED
  BY <1>1, <1>2 DEF StoreInv, GraphStoreSound

\* Type correctness of the graph store.
THEOREM StoreTypesHold == StoreSpec => []StoreTypeOK
<1> QED
  BY StoreInitHolds, StoreStep, StoreSound, PTL DEF StoreSpec

\* Whatever fails and however the clients' statements interleave, the tables hold a
\* graph that was saved, and an undisturbed Load returns it.
THEOREM GraphStoreSoundCorrect == StoreSpec => []GraphStoreSound
<1> QED
  BY StoreInitHolds, StoreStep, StoreSound, PTL DEF StoreSpec

-----------------------------------------------------------------------------
(* The build command                                                       *)

Places == {"idle", "open", "scan", "create", "write", "schedule", "next"}
Statuses == {"running", "dry-run", "failed", "success"}
BuildRec == [id : Nat, found : 0 .. MaxFound, entries : 0 .. MaxFound + 1, db : Nat, file : Nat]
HistoryRow == [id : Nat, status : Statuses, finished : BOOLEAN, scanned : Nat]
StatRow == [of : Nat, key : {"files_scanned"}, value : Nat]

BuildTypes ==
    /\ at \in [Procs -> Places] /\ build \in [Procs -> BuildRec]
    /\ started \in 0 .. MaxBuilds /\ cleans \in 0 .. MaxCleans
    /\ exists \in BOOLEAN /\ torn \in BOOLEAN
    /\ history \in Seq(HistoryRow) /\ statRows \in Seq(StatRow)
    /\ manifest \in Seq([id : Nat, of : Nat])

\* Every id was drawn, and a process has one exactly between its BeginBuild and
\* its end; what a process has open it opened before.
IdsOK ==
    /\ \A p \in Procs : /\ build[p].id = 0 <=> at[p] \in {"idle", "open"}
                        /\ build[p].id <= started
                        /\ build[p].db <= cleans /\ build[p].file <= cleans
    /\ \A i \in DOMAIN history : history[i].id \in 1 .. started
    /\ \A n \in DOMAIN statRows : statRows[n].of \in 1 .. started
    /\ \A i \in DOMAIN manifest : manifest[i].id \in 1 .. started /\ manifest[i].of \in 1 .. MaxFound + 1
    /\ abandoned \subseteq 1 .. started /\ shared \subseteq 1 .. started

\* An id that is not shared is that of one process, and of none once it is
\* abandoned.
IdsUnique ==
    /\ \A p, q \in Procs : build[p].id = build[q].id /\ build[p].id \notin shared \cup {0} => p = q
    /\ \A p \in Procs : build[p].id \in abandoned => build[p].id \in shared

RowsOK ==
    \A i \in DOMAIN history :
        LET row == history[i] IN
        /\ ~row.finished =>
            \/ row.id \in abandoned
            \/ \E p \in Procs : build[p].id = row.id /\ OnThisDatabase(p)
        /\ row.finished =>
            [id |-> row.id, status |-> row.status, scanned |-> row.scanned] \in ended
        /\ row.finished /\ row.id \notin shared =>
            row.id \notin abandoned /\ \A p \in Procs : build[p].id # row.id

\* An id that is not shared has one row of statistics: its process, which has then
\* only to invoke next, and its finished row agree with it.
StatsOK ==
    \A n \in DOMAIN statRows :
        LET stat == statRows[n] IN
        stat.of \notin shared =>
            /\ \A m \in DOMAIN statRows : statRows[m].of = stat.of => m = n
            /\ \A p \in Procs : build[p].id = stat.of =>
                    at[p] = "next" /\ build[p].found = stat.value
            /\ \A i \in DOMAIN history :
                    /\ history[i].id = stat.of /\ history[i].finished
                    /\ history[i].status = "success"
                    => history[i].scanned = stat.value

\* Unless it is torn, the manifest is empty while its one writer has it open.
ManifestOK ==
    ~torn =>
        /\ \A p \in Procs : Writing(p) => manifest = <<>> /\ \A q \in Procs : Writing(q) => q = p
        /\ \A i \in DOMAIN manifest : manifest[i] = manifest[1] /\ Len(manifest) = manifest[1].of

BuildInv == BuildTypes /\ IdsOK /\ IdsUnique /\ RowsOK /\ StatsOK /\ ManifestOK

LEMMA BuildInitHolds == DbInit /\ BuildInit => BuildInv
<1> SUFFICES ASSUME DbInit, BuildInit PROVE BuildInv
  OBVIOUS
<1> USE DEF DbInit, EmptyTables, BuildInit, NoBuild, NoManifest
<1>1. BuildTypes
  <2>1. history \in Seq(HistoryRow) /\ statRows \in Seq(StatRow)
        /\ manifest \in Seq([id : Nat, of : Nat])
    OBVIOUS
  <2>2. NoBuild \in BuildRec
    BY BuildBounds DEF BuildRec
  <2>3. at \in [Procs -> Places] /\ build \in [Procs -> BuildRec]
    BY <2>2 DEF Places
  <2>4. started \in 0 .. MaxBuilds /\ cleans \in 0 .. MaxCleans
    BY BuildBounds
  <2> QED
    BY <2>1, <2>3, <2>4 DEF BuildTypes
<1>2. DOMAIN history = {} /\ DOMAIN statRows = {} /\ DOMAIN manifest = {}
  OBVIOUS
<1>3. IdsOK /\ IdsUnique /\ RowsOK /\ StatsOK /\ ManifestOK
  BY <1>2 DEF IdsOK, IdsUnique, RowsOK, StatsOK, ManifestOK, Writing
<1> QED
  BY <1>1, <1>3 DEF BuildInv

LEMMA BuildFields ==
    ASSUME BuildInv
    PROVE  /\ started \in Nat /\ started <= MaxBuilds /\ cleans \in Nat
           /\ \A q \in Procs : /\ build[q].id \in Nat /\ build[q].db \in Nat /\ build[q].file \in Nat
                               /\ build[q].found \in 0 .. MaxFound
                               /\ build[q].entries \in 0 .. MaxFound + 1
<1>1. \A q \in Procs : build[q] \in BuildRec
  BY DEF BuildInv, BuildTypes
<1>2. started \in 0 .. MaxBuilds /\ cleans \in 0 .. MaxCleans
  BY DEF BuildInv, BuildTypes
<1> QED
  BY <1>1, <1>2, BuildBounds DEF BuildRec

\* A step that neither starts nor ends a build nor writes a row keeps what rows and
\* ids tell.
LEMMA RowsStay ==
    ASSUME BuildInv, UNCHANGED <<history, statRows, started, cleans, abandoned, ended, shared>>,
           \A p \in Procs : /\ build'[p].id = build[p].id
                            /\ build[p].id # 0 => build'[p].db = build[p].db
                            /\ at[p] = "next" => at'[p] = "next" /\ build'[p].found = build[p].found
    PROVE  IdsUnique' /\ RowsOK' /\ StatsOK'
<1>1. \A i \in DOMAIN history : history[i].id # 0
  BY DEF BuildInv, BuildTypes, IdsOK
<1>2. IdsUnique'
  BY DEF BuildInv, IdsUnique
<1>3. RowsOK'
  BY <1>1 DEF BuildInv, RowsOK, OnThisDatabase
<1>4. StatsOK'
  BY DEF BuildInv, StatsOK
<1> QED
  BY <1>2, <1>3, <1>4

\* A step that leaves the manifest alone and opens it for nobody.
LEMMA ManifestStays ==
    ASSUME BuildInv, UNCHANGED <<manifest, torn>>, \A p \in Procs : Writing(p)' => Writing(p)
    PROVE  ManifestOK'
  BY DEF BuildInv, ManifestOK

LEMMA OpenDatabaseStep ==
    ASSUME BuildInv, NEW p \in Procs, OpenDatabase(p)
    PROVE  BuildInv'
<1>1. /\ at[p] = "idle" /\ at' = [at EXCEPT ![p] = "open"]
      /\ build' = [build EXCEPT ![p] = [NoBuild EXCEPT !.db = cleans]]
      /\ exists' = TRUE
      /\ UNCHANGED <<started, cleans, manifest, abandoned, ended, shared, torn, history, statRows>>
  BY DEF OpenDatabase, Goto
<1> DEFINE opened == [id |-> 0, found |-> 0, entries |-> 0, db |-> cleans, file |-> 0]
<1>2. /\ at' \in [Procs -> Places] /\ at'[p] = "open" /\ \A q \in Procs \ {p} : at'[q] = at[q]
      /\ build' \in [Procs -> BuildRec] /\ build'[p] = opened
      /\ \A q \in Procs \ {p} : build'[q] = build[q]
  <2>1. [NoBuild EXCEPT !.db = cleans] = opened
    BY DEF NoBuild
  <2>2. opened \in BuildRec
    BY BuildFields, BuildBounds DEF BuildRec
  <2>3. build' = [build EXCEPT ![p] = opened]
    BY <1>1, <2>1
  <2> HIDE DEF opened
  <2> QED
    BY <1>1, <2>2, <2>3 DEF BuildInv, BuildTypes, Places
<1>3. build[p].id = 0
  BY <1>1 DEF BuildInv, IdsOK
<1>4. BuildTypes'
  BY <1>1, <1>2 DEF BuildInv, BuildTypes
<1>5. IdsOK'
  <2>1. /\ build'[p].id = 0 /\ at'[p] = "open" /\ build'[p].id <= started
        /\ build'[p].db <= cleans /\ build'[p].file <= cleans
    BY <1>2, BuildBounds DEF BuildInv, BuildTypes
  <2>2. \A q \in Procs : /\ build'[q].id = 0 <=> at'[q] \in {"idle", "open"}
                         /\ build'[q].id <= started
                         /\ build'[q].db <= cleans /\ build'[q].file <= cleans
    <3> TAKE q \in Procs
    <3>1. CASE q = p
      BY <2>1, <3>1
    <3>2. CASE q # p
      BY <1>2, <3>2 DEF BuildInv, IdsOK
    <3> QED
      BY <3>1, <3>2
  <2> QED
    BY <1>1, <2>2 DEF BuildInv, IdsOK
<1>6. IdsUnique' /\ RowsOK' /\ StatsOK'
  <2>1. UNCHANGED <<history, statRows, started, cleans, abandoned, ended, shared>>
    BY <1>1
  <2>2. \A q \in Procs : /\ build'[q].id = build[q].id
                         /\ build[q].id # 0 => build'[q].db = build[q].db
                         /\ at[q] = "next" => at'[q] = "next" /\ build'[q].found = build[q].found
    <3> TAKE q \in Procs
    <3>1. CASE q = p
      BY <1>1, <1>2, <1>3, <3>1
    <3>2. CASE q # p
      BY <1>2, <3>2
    <3> QED
      BY <3>1, <3>2
  <2> QED
    BY <2>1, <2>2, RowsStay
<1>7. ManifestOK'
  BY <1>1, <1>2, ManifestStays DEF Writing
<1> QED
  BY <1>4, <1>5, <1>6, <1>7 DEF BuildInv

LEMMA BeginBuildStep ==
    ASSUME BuildInv, NEW p \in Procs, BeginBuild(p)
    PROVE  BuildInv'
<1>1. PICK id \in {started + 1} \cup {build[q].id : q \in {r \in Procs : at[r] = "scan"}} :
        /\ build' = [build EXCEPT ![p].id = id]
        /\ shared' = IF id > started THEN shared ELSE shared \cup {id}
        /\ IF OnThisDatabase(p) THEN StartBuild(id) ELSE UNCHANGED history
  BY DEF BeginBuild
<1>2. /\ at[p] = "open" /\ started < MaxBuilds /\ started' = started + 1
      /\ at' = [at EXCEPT ![p] = "scan"]
      /\ UNCHANGED <<exists, cleans, manifest, abandoned, ended, torn, statRows>>
  BY DEF BeginBuild, Goto
<1>3. /\ id \in 1 .. started + 1 /\ id \in Nat /\ started \in Nat
      /\ id > started => id = started + 1
  BY <1>1, <1>2, BuildFields DEF BuildInv, IdsOK
<1>4. /\ at' \in [Procs -> Places] /\ at'[p] = "scan" /\ \A q \in Procs \ {p} : at'[q] = at[q]
      /\ build' \in [Procs -> BuildRec] /\ build'[p].id = id /\ build'[p].db = build[p].db
      /\ build'[p].file = build[p].file /\ build'[p].found = build[p].found
      /\ \A q \in Procs \ {p} : build'[q] = build[q]
  BY <1>1, <1>2, <1>3 DEF BuildInv, BuildTypes, Places, BuildRec
<1> DEFINE row == [id |-> id, status |-> "running", finished |-> FALSE, scanned |-> 0]
<1>5. /\ history' \in Seq(HistoryRow)
      /\ \A i \in DOMAIN history' :
            \/ i \in DOMAIN history /\ history'[i] = history[i]
            \/ history'[i] = row /\ OnThisDatabase(p)
      /\ \A i \in DOMAIN history' : history'[i] \in HistoryRow
  <2>1. history \in Seq(HistoryRow) /\ row \in HistoryRow
    BY <1>3 DEF BuildInv, BuildTypes, HistoryRow, Statuses
  <2>2. CASE OnThisDatabase(p)
    <3>1. history' = Append(history, row)
      BY <1>1, <2>2 DEF StartBuild
    <3>2. history' \in Seq(HistoryRow) /\ Len(history') = Len(history) + 1
          /\ \A i \in 1 .. Len(history') : history'[i] = IF i <= Len(history) THEN history[i] ELSE row
      BY <2>1, <3>1, AppendProperties
    <3> QED
      BY <2>1, <2>2, <3>2, LenProperties
  <2>3. CASE ~OnThisDatabase(p)
    BY <1>1, <2>1, <2>3, LenProperties
  <2> QED
    BY <2>2, <2>3
<1>6. BuildTypes'
  BY <1>2, <1>4, <1>5, BuildBounds DEF BuildInv, BuildTypes
<1>7. IdsOK'
  <2>1. \A q \in Procs : /\ build'[q].id = 0 <=> at'[q] \in {"idle", "open"}
                         /\ build'[q].id <= started' /\ build'[q].db <= cleans' /\ build'[q].file <= cleans'
    BY <1>2, <1>3, <1>4, BuildFields DEF BuildInv, IdsOK
  <2>2. \A i \in DOMAIN history' : history'[i].id \in 1 .. started'
    BY <1>2, <1>3, <1>5 DEF BuildInv, IdsOK
  <2>3. shared' \subseteq 1 .. started'
    BY <1>1, <1>2, <1>3 DEF BuildInv, IdsOK
  <2> QED
    BY <1>2, <1>3, <2>1, <2>2, <2>3 DEF BuildInv, IdsOK
<1>8. /\ shared \subseteq shared'
      /\ id \notin shared' => /\ id \notin abandoned /\ \A q \in Procs : build[q].id # id
                              /\ \A n \in DOMAIN statRows : statRows[n].of # id
                              /\ \A i \in DOMAIN history : history[i].id # id
  BY <1>1, <1>3 DEF BuildInv, BuildTypes, BuildRec, IdsOK
<1>9. build[p].id = 0 /\ \A i \in DOMAIN history : history[i].id # 0
  BY <1>2 DEF BuildInv, IdsOK
<1>10. IdsUnique'
  BY <1>2, <1>4, <1>8 DEF BuildInv, IdsUnique
<1>11. RowsOK'
  BY <1>2, <1>4, <1>5, <1>8, <1>9 DEF BuildInv, RowsOK, OnThisDatabase
<1>12. StatsOK'
  <2>1. \A n \in DOMAIN statRows : statRows[n].of \notin shared' => statRows[n].of # id
    BY <1>8
  <2> QED
    BY <1>2, <1>4, <1>5, <1>8, <2>1 DEF BuildInv, StatsOK
<1>13. ManifestOK'
  BY <1>2, <1>4, ManifestStays DEF Writing
<1> QED
  BY <1>6, <1>7, <1>10, <1>11, <1>12, <1>13 DEF BuildInv

\* A build that ends without a FinishBuild abandons its id.
LEMMA GiveUpKeeps ==
    ASSUME BuildInv, NEW p \in Procs, GiveUp(p),
           UNCHANGED <<history, statRows, started, cleans, manifest, shared>>,
           ended \subseteq ended'
    PROVE  /\ at' \in [Procs -> Places] /\ build' \in [Procs -> BuildRec]
           /\ at'[p] = "idle" /\ \A q \in Procs \ {p} : at'[q] = at[q] /\ build'[q] = build[q]
           /\ IdsOK' /\ IdsUnique' /\ RowsOK' /\ StatsOK'
<1>1. /\ at' \in [Procs -> Places] /\ at'[p] = "idle"
      /\ build' \in [Procs -> BuildRec] /\ build'[p] = NoBuild
      /\ \A q \in Procs \ {p} : at'[q] = at[q] /\ build'[q] = build[q]
      /\ abandoned' = abandoned \cup ({build[p].id} \ {0})
  <2>1. NoBuild \in BuildRec
    BY BuildBounds DEF NoBuild, BuildRec
  <2> QED
    BY <2>1 DEF GiveUp, Goto, BuildInv, BuildTypes, Places
<1>2. NoBuild.id = 0 /\ NoBuild.db = 0 /\ NoBuild.file = 0
  BY DEF NoBuild
<1>3. IdsOK'
  <2>1. \A q \in Procs : /\ build'[q].id = 0 <=> at'[q] \in {"idle", "open"}
                         /\ build'[q].id <= started /\ build'[q].db <= cleans /\ build'[q].file <= cleans
    BY <1>1, <1>2, BuildFields DEF BuildInv, IdsOK
  <2>2. abandoned' \subseteq 1 .. started
    <3>1. build[p].id \in Nat /\ build[p].id <= started /\ started \in Nat
          /\ abandoned \subseteq 1 .. started
      BY BuildFields DEF BuildInv, IdsOK
    <3>2. build[p].id # 0 => build[p].id \in 1 .. started
      BY <3>1
    <3> QED
      BY <1>1, <3>1, <3>2
  <2> QED
    BY <1>1, <2>1, <2>2 DEF BuildInv, IdsOK
<1>4. IdsUnique'
  BY <1>1, <1>2, BuildFields DEF BuildInv, IdsUnique, IdsOK
<1>5. \A i \in DOMAIN history : history[i].id # 0
  BY DEF BuildInv, IdsOK
<1>6. RowsOK'
  <2> SUFFICES ASSUME NEW i \in DOMAIN history
               PROVE  /\ ~history[i].finished =>
                            \/ history[i].id \in abandoned'
                            \/ \E q \in Procs : build'[q].id = history[i].id /\ OnThisDatabase(q)'
                      /\ history[i].finished /\ history[i].id \notin shared =>
                            /\ history[i].id \notin abandoned'
                            /\ \A q \in Procs : build'[q].id # history[i].id
    BY DEF BuildInv, RowsOK
  <2>1. \A q \in Procs \ {p} : OnThisDatabase(q)' <=> OnThisDatabase(q)
    BY <1>1 DEF OnThisDatabase
  <2>2. ASSUME ~history[i].finished, history[i].id \notin abandoned'
        PROVE  \E q \in Procs : build'[q].id = history[i].id /\ OnThisDatabase(q)'
    <3>1. PICK q \in Procs : build[q].id = history[i].id /\ OnThisDatabase(q)
      BY <1>1, <2>2 DEF BuildInv, RowsOK
    <3>2. q # p
      BY <1>1, <1>5, <2>2, <3>1
    <3> QED
      BY <1>1, <2>1, <3>1, <3>2
  <2>3. ASSUME history[i].finished, history[i].id \notin shared
        PROVE  history[i].id \notin abandoned' /\ \A q \in Procs : build'[q].id # history[i].id
    <3>1. history[i].id \notin abandoned /\ \A q \in Procs : build[q].id # history[i].id
      BY <2>3 DEF BuildInv, RowsOK
    <3>2. history[i].id # 0
      BY <1>5
    <3> QED
      BY <1>1, <1>2, <3>1, <3>2
  <2> QED
    BY <2>2, <2>3
<1>7. StatsOK'
  <2>1. \A n \in DOMAIN statRows : statRows[n].of # 0
    BY DEF BuildInv, IdsOK
  <2> QED
    BY <1>1, <1>2, <2>1 DEF BuildInv, StatsOK
<1> QED
  BY <1>1, <1>3, <1>4, <1>6, <1>7

LEMMA ScanStep ==
    ASSUME BuildInv, NEW p \in Procs, ScanAndPrepare(p)
    PROVE  BuildInv'
<1>1. at[p] = "scan" /\ UNCHANGED <<started, exists, cleans, manifest, ended, shared, torn, history, statRows>>
  BY DEF ScanAndPrepare
<1>2. CASE GiveUp(p)
  <2>1. BuildTypes'
    BY <1>1, <1>2, GiveUpKeeps DEF BuildInv, BuildTypes
  <2>2. ManifestOK'
    <3>1. \A q \in Procs : Writing(q)' => Writing(q)
      BY <1>1, <1>2, GiveUpKeeps DEF Writing
    <3> QED
      BY <1>1, <3>1, ManifestStays
  <2> QED
    BY <1>1, <1>2, <2>1, <2>2, GiveUpKeeps DEF BuildInv
<1>3. ASSUME NEW n \in 1 .. MaxFound, NEW routes \in 0 .. 1,
             build' = [build EXCEPT ![p].found = n, ![p].entries = n + routes],
             Goto(p, "create"), UNCHANGED abandoned
      PROVE  BuildInv'
  <2>1. /\ at' \in [Procs -> Places] /\ at'[p] = "create" /\ \A q \in Procs \ {p} : at'[q] = at[q]
    BY <1>3 DEF Goto, BuildInv, BuildTypes, Places
  <2>2. /\ build' \in [Procs -> BuildRec] /\ \A q \in Procs \ {p} : build'[q] = build[q]
        /\ build'[p].id = build[p].id /\ build'[p].db = build[p].db /\ build'[p].file = build[p].file
    <3>1. n \in 0 .. MaxFound /\ n + routes \in 0 .. MaxFound + 1
      BY BuildBounds
    <3> QED
      BY <1>3, <3>1 DEF BuildInv, BuildTypes, BuildRec
  <2>3. BuildTypes'
    BY <1>1, <2>1, <2>2 DEF BuildInv, BuildTypes
  <2>4. IdsOK'
    BY <1>1, <1>3, <2>1, <2>2 DEF BuildInv, IdsOK
  <2>5. IdsUnique' /\ RowsOK' /\ StatsOK'
    BY <1>1, <1>3, <2>1, <2>2, RowsStay
  <2>6. ManifestOK'
    BY <1>1, <2>1, <2>2, ManifestStays DEF Writing
  <2> QED
    BY <2>3, <2>4, <2>5, <2>6 DEF BuildInv
<1> QED
  BY <1>2, <1>3 DEF ScanAndPrepare

LEMMA CreateManifestStep ==
    ASSUME BuildInv, NEW p \in Procs, CreateManifest(p)
    PROVE  BuildInv'
<1>1. /\ at[p] = "create"
      /\ UNCHANGED <<started, exists, cleans, abandoned, ended, shared, history, statRows>>
      /\ \/ /\ manifest' = <<>> /\ torn' = \E q \in Procs \ {p} : Writing(q)
            /\ build' = [build EXCEPT ![p].file = cleans] /\ at' = [at EXCEPT ![p] = "write"]
         \/ at' = [at EXCEPT ![p] = "schedule"] /\ UNCHANGED <<manifest, torn, build>>
  BY DEF CreateManifest, Goto
<1>2. /\ at' \in [Procs -> Places] /\ at'[p] \in {"write", "schedule"}
      /\ \A q \in Procs \ {p} : at'[q] = at[q] /\ build'[q] = build[q]
      /\ build' \in [Procs -> BuildRec]
      /\ build'[p].id = build[p].id /\ build'[p].db = build[p].db
      /\ build'[p].file \in {cleans, build[p].file} /\ torn' \in BOOLEAN
  <2>1. CASE torn' = (\E q \in Procs \ {p} : Writing(q)) /\ at' = [at EXCEPT ![p] = "write"]
             /\ build' = [build EXCEPT ![p].file = cleans]
    <3>1. build' \in [Procs -> BuildRec] /\ build'[p].file = cleans
          /\ build'[p].id = build[p].id /\ build'[p].db = build[p].db
          /\ \A q \in Procs \ {p} : build'[q] = build[q]
      BY <2>1, BuildFields DEF BuildInv, BuildTypes, BuildRec
    <3>2. torn' \in BOOLEAN
      BY <2>1
    <3> QED
      BY <2>1, <3>1, <3>2 DEF BuildInv, BuildTypes, Places
  <2>2. CASE at' = [at EXCEPT ![p] = "schedule"] /\ UNCHANGED <<torn, build>>
    BY <2>2 DEF BuildInv, BuildTypes, Places
  <2> QED
    BY <1>1, <2>1, <2>2
<1>3. BuildTypes'
  <2>1. manifest' = <<>> \/ manifest' = manifest
    BY <1>1
  <2>2. manifest' \in Seq([id : Nat, of : Nat])
    BY <2>1, EmptySeq DEF BuildInv, BuildTypes
  <2> QED
    BY <1>1, <1>2, <2>2 DEF BuildInv, BuildTypes
<1>4. IdsOK'
  <2>1. \A i \in DOMAIN manifest' : manifest'[i].id \in 1 .. started /\ manifest'[i].of \in 1 .. MaxFound + 1
    <3>1. CASE manifest' = <<>>
      BY <3>1
    <3>2. CASE manifest' = manifest
      BY <3>2 DEF BuildInv, IdsOK
    <3> QED
      BY <1>1, <3>1, <3>2
  <2> QED
    BY <1>1, <1>2, <2>1, BuildFields, SMTT(30) DEF BuildInv, IdsOK
<1>5. IdsUnique' /\ RowsOK' /\ StatsOK'
  BY <1>1, <1>2, RowsStay
<1>6. ManifestOK'
  <2>1. \A q \in Procs \ {p} : Writing(q)' <=> Writing(q)
    BY <1>1, <1>2 DEF Writing
  <2>2. CASE manifest' = <<>> /\ torn' = \E q \in Procs \ {p} : Writing(q)
    BY <2>1, <2>2 DEF ManifestOK
  <2>3. CASE at'[p] = "schedule" /\ UNCHANGED <<manifest, torn>>
    BY <2>1, <2>3, ManifestStays DEF Writing
  <2> QED
    BY <1>1, <1>2, <2>2, <2>3 DEF BuildInv, BuildTypes
<1> QED
  BY <1>3, <1>4, <1>5, <1>6 DEF BuildInv

\* What a process writes has its length in every byte; the bytes behind it stay.
WrittenOver(w, m, id, of, n) ==
    /\ w \in Seq([id : Nat, of : Nat])
    /\ \A i \in DOMAIN w :
            \/ i \in 1 .. n /\ w[i] = [id |-> id, of |-> of]
            \/ i \in DOMAIN m /\ w[i] = m[i]
    /\ m = <<>> => /\ Len(w) = n
                   /\ \A i \in DOMAIN w : i \in 1 .. n /\ w[i] = [id |-> id, of |-> of]

LEMMA OverIs ==
    ASSUME NEW m \in Seq([id : Nat, of : Nat]), NEW id \in Nat, NEW of \in Nat, NEW n \in Nat
    PROVE  WrittenOver(Over(m, id, of, n), m, id, of, n)
<1> DEFINE top == IF n > Len(m) THEN n ELSE Len(m)
           o == Over(m, id, of, n)
<1>1. Len(m) \in Nat /\ DOMAIN m = 1 .. Len(m) /\ top \in Nat
      /\ \A i \in DOMAIN m : m[i] \in [id : Nat, of : Nat]
  BY LenProperties, ElementOfSeq
<1>2. [id |-> id, of |-> of] \in [id : Nat, of : Nat]
  OBVIOUS
<1>3. o = [i \in 1 .. top |-> IF i <= n THEN [id |-> id, of |-> of] ELSE m[i]]
  BY DEF Over
<1> HIDE DEF o
<1>4. o \in [1 .. top -> [id : Nat, of : Nat]]
  BY <1>1, <1>2, <1>3
<1>5. o \in Seq([id : Nat, of : Nat]) /\ Len(o) = top /\ DOMAIN o = 1 .. top
  BY <1>1, <1>4, FunIsSeq
<1>6. \A i \in 1 .. top : IF i <= n THEN i \in 1 .. n /\ o[i] = [id |-> id, of |-> of]
                                    ELSE i \in DOMAIN m /\ o[i] = m[i]
  BY <1>1, <1>3
<1>7. m = <<>> => top = n
  BY <1>1
<1>8. \A i \in DOMAIN o :
            \/ i \in 1 .. n /\ o[i] = [id |-> id, of |-> of]
            \/ i \in DOMAIN m /\ o[i] = m[i]
  BY <1>5, <1>6
<1>9. ASSUME m = <<>>
      PROVE  Len(o) = n /\ \A i \in DOMAIN o : i \in 1 .. n /\ o[i] = [id |-> id, of |-> of]
  BY <1>5, <1>6, <1>7, <1>9
<1> HIDE DEF top
<1>10. WrittenOver(o, m, id, of, n)
  BY <1>5, <1>8, <1>9 DEF WrittenOver
<1> QED
  BY <1>10 DEF o

LEMMA WriteManifestStep ==
    ASSUME BuildInv, NEW p \in Procs, WriteManifest(p)
    PROVE  BuildInv'
<1> DEFINE id == build[p].id
           of == build[p].entries
<1>0. id \in 1 .. started /\ id \in Nat /\ of \in 0 .. MaxFound + 1 /\ of \in Nat
  BY BuildFields, BuildBounds DEF BuildInv, IdsOK, WriteManifest
<1>1. PICK n \in 0 .. of :
        /\ at[p] = "write" /\ at' = [at EXCEPT ![p] = "schedule"]
        /\ UNCHANGED <<build, started, exists, cleans, abandoned, ended, shared, history, statRows>>
        /\ \/ /\ Writing(p) /\ manifest' = Over(manifest, id, of, n)
              /\ torn' = (torn \/ n < of \/ \E q \in Procs \ {p} : Writing(q))
           \/ ~Writing(p) /\ UNCHANGED <<manifest, torn>>
  BY <1>0 DEF WriteManifest, Goto
<1>2. at' \in [Procs -> Places] /\ at'[p] = "schedule" /\ \A q \in Procs \ {p} : at'[q] = at[q]
  BY <1>1 DEF BuildInv, BuildTypes, Places
<1>3. id \in 1 .. started /\ id \in Nat /\ of \in 0 .. MaxFound + 1 /\ of \in Nat /\ n \in Nat
  BY <1>0
<1>4. manifest \in Seq([id : Nat, of : Nat])
  BY DEF BuildInv, BuildTypes
<1> HIDE DEF id, of
<1>5. WrittenOver(Over(manifest, id, of, n), manifest, id, of, n)
  BY <1>3, <1>4, OverIs
<1>6. BuildTypes'
  BY <1>1, <1>2, <1>5 DEF BuildInv, BuildTypes, WrittenOver
<1>7. IdsOK'
  <2>1. \A i \in DOMAIN manifest' : manifest'[i].id \in 1 .. started /\ manifest'[i].of \in 1 .. MaxFound + 1
    <3>1. CASE manifest' = manifest
      BY <3>1 DEF BuildInv, IdsOK
    <3>2. CASE manifest' = Over(manifest, id, of, n)
      <4> SUFFICES ASSUME NEW i \in DOMAIN Over(manifest, id, of, n)
                   PROVE  /\ Over(manifest, id, of, n)[i].id \in 1 .. started
                          /\ Over(manifest, id, of, n)[i].of \in 1 .. MaxFound + 1
        BY <3>2
      <4>1. CASE i \in 1 .. n /\ Over(manifest, id, of, n)[i] = [id |-> id, of |-> of]
        BY <1>3, <4>1, BuildBounds
      <4>2. CASE i \in DOMAIN manifest /\ Over(manifest, id, of, n)[i] = manifest[i]
        BY <4>2 DEF BuildInv, IdsOK
      <4> QED
        BY <1>5, <4>1, <4>2 DEF WrittenOver
    <3> QED
      BY <1>1, <3>1, <3>2
  <2> QED
    BY <1>1, <1>2, <2>1 DEF BuildInv, IdsOK
<1>8. IdsUnique' /\ RowsOK' /\ StatsOK'
  BY <1>1, <1>2, RowsStay
<1>9. ManifestOK'
  <2>1. \A q \in Procs : Writing(q)' => q # p /\ Writing(q)
    BY <1>1, <1>2 DEF Writing
  <2>2. CASE Writing(p) /\ manifest' = Over(manifest, id, of, n)
             /\ torn' = (torn \/ n < of \/ \E q \in Procs \ {p} : Writing(q))
    <3> SUFFICES ASSUME ~torn'
                 PROVE  /\ \A q \in Procs : ~Writing(q)'
                        /\ \A i \in DOMAIN manifest' : manifest'[i] = manifest'[1] /\ Len(manifest') = manifest'[1].of
      BY DEF ManifestOK
    <3>0. of = n
      <4>1. ~(n < of)
        BY <2>2
      <4>2. n <= of
        BY <1>3
      <4> QED
        BY <1>3, <4>1, <4>2
    <3>1. manifest = <<>> /\ \A q \in Procs : ~Writing(q)'
      BY <2>1, <2>2 DEF BuildInv, ManifestOK
    <3>2. \A i \in DOMAIN manifest' : i \in 1 .. n /\ manifest'[i] = [id |-> id, of |-> of]
      BY <1>5, <2>2, <3>1 DEF WrittenOver
    <3>3. Len(manifest') = n /\ DOMAIN manifest' = 1 .. n
      BY <1>5, <2>2, <3>1, LenProperties DEF WrittenOver
    <3>4. ASSUME NEW i \in DOMAIN manifest'
          PROVE  manifest'[i] = manifest'[1] /\ Len(manifest') = manifest'[1].of
      <4>1. 1 \in DOMAIN manifest'
        BY <1>3, <3>3, <3>4
      <4> QED
        BY <3>0, <3>2, <3>3, <3>4, <4>1
    <3> QED
      BY <3>1, <3>4
  <2>3. CASE UNCHANGED <<manifest, torn>>
    BY <2>1, <2>3, ManifestStays
  <2> QED
    BY <1>1, <2>2, <2>3
<1> QED
  BY <1>6, <1>7, <1>8, <1>9 DEF BuildInv

LEMMA RunTasksStep ==
    ASSUME BuildInv, NEW p \in Procs, RunTasksAndRecord(p)
    PROVE  BuildInv'
<1> DEFINE row == [of |-> build[p].id, key |-> "files_scanned", value |-> build[p].found]
<1>1. /\ at[p] = "schedule" /\ at' = [at EXCEPT ![p] = "next"]
      /\ UNCHANGED <<build, started, exists, cleans, manifest, abandoned, ended, shared, torn, history>>
      /\ statRows' = Append(statRows, row) \/ statRows' = statRows
  BY DEF RunTasksAndRecord, Goto, RecordStat
<1>2. at' \in [Procs -> Places] /\ at'[p] = "next" /\ \A q \in Procs \ {p} : at'[q] = at[q]
  BY <1>1 DEF BuildInv, BuildTypes, Places
<1>3. row \in StatRow /\ row.of \in 1 .. started /\ row.of = build[p].id /\ row.value = build[p].found
  BY <1>1, BuildFields, BuildBounds DEF BuildInv, IdsOK, StatRow
<1> HIDE DEF row
<1>4. /\ statRows' \in Seq(StatRow)
      /\ \A n \in DOMAIN statRows' :
            \/ n \in DOMAIN statRows /\ statRows'[n] = statRows[n]
            \/ n = Len(statRows) + 1 /\ statRows'[n] = row
  <2>1. statRows \in Seq(StatRow) /\ Len(statRows) \in Nat /\ DOMAIN statRows = 1 .. Len(statRows)
    BY LenProperties DEF BuildInv, BuildTypes
  <2>2. CASE statRows' = Append(statRows, row)
    <3>1. statRows' \in Seq(StatRow) /\ Len(statRows') = Len(statRows) + 1
          /\ \A i \in 1 .. Len(statRows') : statRows'[i] = IF i <= Len(statRows) THEN statRows[i] ELSE row
      BY <1>3, <2>1, <2>2, AppendProperties
    <3>2. DOMAIN statRows' = 1 .. Len(statRows) + 1
      BY <3>1, LenProperties
    <3> QED
      BY <2>1, <3>1, <3>2
  <2>3. CASE statRows' = statRows
    BY <2>1, <2>3
  <2> QED
    BY <1>1, <2>2, <2>3
<1>5. BuildTypes'
  BY <1>1, <1>2, <1>4 DEF BuildInv, BuildTypes
<1>6. IdsOK'
  <2>1. \A n \in DOMAIN statRows' : statRows'[n].of \in 1 .. started
    BY <1>3, <1>4 DEF BuildInv, IdsOK
  <2> QED
    BY <1>1, <1>2, <2>1 DEF BuildInv, IdsOK
<1>7. IdsUnique' /\ RowsOK'
  BY <1>1 DEF BuildInv, IdsUnique, RowsOK, OnThisDatabase
<1>8. ASSUME row.of \notin shared
      PROVE  /\ \A n \in DOMAIN statRows : statRows[n].of # row.of
             /\ \A i \in DOMAIN history : ~(history[i].id = row.of /\ history[i].finished)
             /\ \A q \in Procs : build[q].id = row.of => q = p
  <2>1. \A n \in DOMAIN statRows : statRows[n].of # row.of
    BY <1>1, <1>3, <1>8 DEF BuildInv, StatsOK
  <2>2. \A i \in DOMAIN history : ~(history[i].id = row.of /\ history[i].finished)
    BY <1>3, <1>8 DEF BuildInv, RowsOK
  <2>3. \A q \in Procs : build[q].id = row.of => q = p
    BY <1>3, <1>8 DEF BuildInv, IdsUnique
  <2> QED
    BY <2>1, <2>2, <2>3
<1>9. StatsOK'
  <2> SUFFICES ASSUME NEW n \in DOMAIN statRows', statRows'[n].of \notin shared
               PROVE  /\ \A m \in DOMAIN statRows' : statRows'[m].of = statRows'[n].of => m = n
                      /\ \A q \in Procs : build[q].id = statRows'[n].of =>
                              at'[q] = "next" /\ build[q].found = statRows'[n].value
                      /\ \A i \in DOMAIN history :
                              /\ history[i].id = statRows'[n].of /\ history[i].finished
                              /\ history[i].status = "success"
                              => history[i].scanned = statRows'[n].value
    BY <1>1 DEF StatsOK
  <2>1. CASE n \in DOMAIN statRows /\ statRows'[n] = statRows[n]
    <3>1. statRows[n].of # row.of
      BY <1>8, <2>1
    <3>2. \A m \in DOMAIN statRows' : statRows'[m].of = statRows'[n].of => m = n
      BY <1>4, <2>1, <3>1 DEF BuildInv, StatsOK
    <3> QED
      BY <1>2, <1>3, <2>1, <3>1, <3>2 DEF BuildInv, StatsOK
  <2>2. CASE n = Len(statRows) + 1 /\ statRows'[n] = row
    BY <1>2, <1>3, <1>4, <1>8, <2>2
  <2> QED
    BY <1>4, <2>1, <2>2
<1>10. ManifestOK'
  BY <1>1, <1>2, ManifestStays DEF Writing
<1> QED
  BY <1>5, <1>6, <1>7, <1>9, <1>10 DEF BuildInv

LEMMA KillStep ==
    ASSUME BuildInv, NEW p \in Procs, Kill(p)
    PROVE  BuildInv'
<1>1. /\ GiveUp(p) /\ torn' = (torn \/ Writing(p))
      /\ UNCHANGED <<started, exists, cleans, manifest, ended, shared, history, statRows>>
  BY DEF Kill
<1>2. /\ at' \in [Procs -> Places] /\ build' \in [Procs -> BuildRec]
      /\ at'[p] = "idle" /\ \A q \in Procs \ {p} : at'[q] = at[q] /\ build'[q] = build[q]
      /\ IdsOK' /\ IdsUnique' /\ RowsOK' /\ StatsOK'
  BY <1>1, GiveUpKeeps
<1>3. torn' \in BOOLEAN
  BY <1>1
<1>4. BuildTypes'
  BY <1>1, <1>2, <1>3 DEF BuildInv, BuildTypes
<1>5. ManifestOK'
  <2>1. \A q \in Procs : Writing(q)' => Writing(q)
    BY <1>1, <1>2 DEF Writing
  <2> QED
    BY <1>1, <2>1 DEF BuildInv, ManifestOK
<1> QED
  BY <1>2, <1>4, <1>5 DEF BuildInv

LEMMA CleanStep ==
    ASSUME BuildInv, Clean
    PROVE  BuildInv'
<1>1. /\ exists' = FALSE /\ cleans < MaxCleans /\ cleans' = cleans + 1 /\ torn' = FALSE
      /\ manifest' = <<>> /\ history' = <<>> /\ statRows' = <<>>
      /\ UNCHANGED <<at, build, started, abandoned, ended, shared>>
  BY DEF Clean, NoManifest
<1>2. BuildTypes'
  <2>1. cleans' \in 0 .. MaxCleans
    BY <1>1, BuildFields, BuildBounds
  <2> QED
    BY <1>1, <2>1, EmptySeq DEF BuildInv, BuildTypes
<1>3. DOMAIN history' = {} /\ DOMAIN statRows' = {} /\ DOMAIN manifest' = {}
  BY <1>1
<1>4. \A q \in Procs : /\ build'[q].db <= cleans' /\ build'[q].file <= cleans'
                       /\ build'[q].file # cleans'
  BY <1>1, BuildFields DEF BuildInv, IdsOK
<1>5. IdsOK'
  BY <1>1, <1>3, <1>4 DEF BuildInv, IdsOK
<1>6. IdsUnique' /\ RowsOK' /\ StatsOK' /\ ManifestOK'
  BY <1>1, <1>3, <1>4 DEF BuildInv, IdsUnique, RowsOK, StatsOK, ManifestOK, Writing
<1> QED
  BY <1>2, <1>5, <1>6 DEF BuildInv

\* FinishBuild finishes the rows of its id.
LEMMA InvokeNextStep ==
    ASSUME BuildInv, NEW p \in Procs, InvokeNextAndFinish(p)
    PROVE  BuildInv'
<1>1. /\ at[p] = "next" /\ at' = [at EXCEPT ![p] = "idle"]
      /\ build' = [build EXCEPT ![p] = NoBuild]
      /\ UNCHANGED <<started, exists, cleans, manifest, shared, torn, statRows>>
  BY DEF InvokeNextAndFinish, Goto
<1> DEFINE id == build[p].id
<1>2. PICK status \in Statuses :
        \E scanned \in {0, build[p].found} :
           /\ status = "success" => scanned = build[p].found
           /\ \/ FinishBuild(id, status, scanned) /\ UNCHANGED abandoned
              \/ UNCHANGED history /\ abandoned' = abandoned \cup {id}
           /\ ended' = ended \cup {[id |-> id, status |-> status, scanned |-> scanned]}
  <2>1. PICK dry, found, skip \in BOOLEAN :
          \E status \in IF dry THEN {"dry-run"} ELSE NextBuildResults(found, skip) :
             LET scanned == IF status = "success" THEN build[p].found ELSE 0 IN
             /\ \/ /\ OnThisDatabase(p) /\ FinishBuild(build[p].id, status, scanned)
                   /\ UNCHANGED abandoned
                \/ UNCHANGED history /\ abandoned' = abandoned \cup {build[p].id}
             /\ ended' = ended \cup {[id |-> build[p].id, status |-> status, scanned |-> scanned]}
    BY DEF InvokeNextAndFinish
  <2>2. (IF dry THEN {"dry-run"} ELSE NextBuildResults(found, skip)) \subseteq Statuses
    BY DEF NextBuildResults, Statuses
  <2> QED
    BY <2>1, <2>2
<1>3. PICK scanned \in {0, build[p].found} :
           /\ status = "success" => scanned = build[p].found
           /\ \/ FinishBuild(id, status, scanned) /\ UNCHANGED abandoned
              \/ UNCHANGED history /\ abandoned' = abandoned \cup {id}
           /\ ended' = ended \cup {[id |-> id, status |-> status, scanned |-> scanned]}
  BY <1>2
<1>4. /\ id \in 1 .. started /\ id \in Nat /\ scanned \in Nat /\ id = build[p].id
      /\ NoBuild.id = 0 /\ NoBuild.db = 0 /\ NoBuild.file = 0
  BY <1>1, BuildFields, BuildBounds DEF BuildInv, IdsOK, NoBuild
<1> HIDE DEF id
<1>5. /\ at' \in [Procs -> Places] /\ at'[p] = "idle"
      /\ build' \in [Procs -> BuildRec] /\ build'[p] = NoBuild
      /\ \A q \in Procs \ {p} : at'[q] = at[q] /\ build'[q] = build[q]
  <2>1. NoBuild \in BuildRec
    BY BuildBounds DEF NoBuild, BuildRec
  <2> QED
    BY <1>1, <2>1 DEF BuildInv, BuildTypes, Places
<1>6. ManifestOK'
  BY <1>1, <1>5, ManifestStays DEF Writing
<1>7. CASE UNCHANGED history /\ abandoned' = abandoned \cup {id}
  <2>1. GiveUp(p)
    BY <1>1, <1>4, <1>7 DEF GiveUp, Goto
  <2>2. ended \subseteq ended'
    BY <1>3
  <2>3. IdsOK' /\ IdsUnique' /\ RowsOK' /\ StatsOK'
    BY <1>1, <1>7, <2>1, <2>2, GiveUpKeeps
  <2>4. BuildTypes'
    BY <1>1, <1>5, <1>7 DEF BuildInv, BuildTypes
  <2> QED
    BY <1>6, <2>3, <2>4 DEF BuildInv
<1>8. CASE FinishBuild(id, status, scanned) /\ UNCHANGED abandoned
  <2> DEFINE done == [id |-> id, status |-> status, finished |-> TRUE, scanned |-> scanned]
  <2>1. history' = [i \in DOMAIN history |-> IF history[i].id = id THEN done ELSE history[i]]
    BY <1>8 DEF FinishBuild
  <2>2. done \in HistoryRow /\ done.id = id /\ done.finished /\ done.status = status /\ done.scanned = scanned
    BY <1>4 DEF HistoryRow
  <2> HIDE DEF done
  <2>3. /\ Len(history) \in Nat /\ DOMAIN history = 1 .. Len(history)
        /\ \A i \in DOMAIN history : history[i] \in HistoryRow
    BY LenProperties, ElementOfSeq DEF BuildInv, BuildTypes
  <2>4. /\ DOMAIN history' = DOMAIN history
        /\ \A i \in DOMAIN history : history'[i] = IF history[i].id = id THEN done ELSE history[i]
    BY <2>1
  <2>5. history' \in Seq(HistoryRow)
    <3>1. history' \in [1 .. Len(history) -> HistoryRow]
      BY <2>1, <2>2, <2>3
    <3> QED
      BY <2>3, <3>1, FunIsSeq
  <2>6. BuildTypes'
    BY <1>1, <1>5, <1>8, <2>5 DEF BuildInv, BuildTypes
  <2>7. IdsOK'
    <3>1. \A q \in Procs : /\ build'[q].id = 0 <=> at'[q] \in {"idle", "open"}
                           /\ build'[q].id <= started /\ build'[q].db <= cleans /\ build'[q].file <= cleans
      BY <1>4, <1>5, BuildFields DEF BuildInv, IdsOK
    <3>2. \A i \in DOMAIN history' : history'[i].id \in 1 .. started
      BY <1>4, <2>2, <2>4 DEF BuildInv, IdsOK
    <3> QED
      BY <1>1, <1>8, <3>1, <3>2 DEF BuildInv, IdsOK
  <2>8. IdsUnique'
    BY <1>1, <1>4, <1>5, <1>8, BuildFields DEF BuildInv, IdsUnique, IdsOK
  <2>9. ASSUME id \notin shared
        PROVE  id \notin abandoned /\ \A q \in Procs : build[q].id = id => q = p
    BY <1>4, <2>9 DEF BuildInv, IdsUnique
  <2>10. RowsOK'
    <3> SUFFICES ASSUME NEW i \in DOMAIN history
                 PROVE  LET row == history'[i] IN
                        /\ ~row.finished =>
                            \/ row.id \in abandoned
                            \/ \E q \in Procs : build'[q].id = row.id /\ OnThisDatabase(q)'
                        /\ row.finished =>
                            [id |-> row.id, status |-> row.status, scanned |-> row.scanned] \in ended'
                        /\ row.finished /\ row.id \notin shared =>
                            row.id \notin abandoned /\ \A q \in Procs : build'[q].id # row.id
      BY <1>1, <1>8, <2>4 DEF RowsOK
    <3>1. CASE history[i].id = id
      <4>1. history'[i] = done
        BY <2>4, <3>1
      <4>2. [id |-> done.id, status |-> done.status, scanned |-> done.scanned] \in ended'
        BY <1>3, <2>2
      <4>3. id \notin shared => id \notin abandoned /\ \A q \in Procs : build'[q].id # id
        BY <1>4, <1>5, <2>9
      <4> QED
        BY <2>2, <4>1, <4>2, <4>3
    <3>2. CASE history[i].id # id
      <4>1. history'[i] = history[i] /\ history[i].id # 0
        BY <2>4, <3>2 DEF BuildInv, IdsOK
      <4>2. \A q \in Procs \ {p} : OnThisDatabase(q)' <=> OnThisDatabase(q)
        BY <1>1, <1>5 DEF OnThisDatabase
      <4>3. ASSUME ~history[i].finished, history[i].id \notin abandoned
            PROVE  \E q \in Procs : build'[q].id = history[i].id /\ OnThisDatabase(q)'
        <5>1. PICK q \in Procs : build[q].id = history[i].id /\ OnThisDatabase(q)
          BY <4>3 DEF BuildInv, RowsOK
        <5>2. q # p
          BY <1>4, <3>2, <5>1
        <5> QED
          BY <1>5, <4>2, <5>1, <5>2
      <4>4. ASSUME history[i].finished
            PROVE  [id |-> history[i].id, status |-> history[i].status, scanned |-> history[i].scanned] \in ended'
        BY <1>3, <4>4 DEF BuildInv, RowsOK
      <4>5. ASSUME history[i].finished, history[i].id \notin shared
            PROVE  history[i].id \notin abandoned /\ \A q \in Procs : build'[q].id # history[i].id
        BY <1>4, <1>5, <4>1, <4>5, ZenonT(60) DEF BuildInv, RowsOK
      <4> QED
        BY <4>1, <4>3, <4>4, <4>5
    <3> QED
      BY <3>1, <3>2
  <2>11. StatsOK'
    <3> SUFFICES ASSUME NEW n \in DOMAIN statRows, statRows[n].of \notin shared
                 PROVE  /\ \A m \in DOMAIN statRows : statRows[m].of = statRows[n].of => m = n
                        /\ \A q \in Procs : build'[q].id = statRows[n].of =>
                                at'[q] = "next" /\ build'[q].found = statRows[n].value
                        /\ \A i \in DOMAIN history' :
                                /\ history'[i].id = statRows[n].of /\ history'[i].finished
                                /\ history'[i].status = "success"
                                => history'[i].scanned = statRows[n].value
      BY <1>1 DEF StatsOK
    <3>1. /\ \A m \in DOMAIN statRows : statRows[m].of = statRows[n].of => m = n
          /\ \A q \in Procs : build[q].id = statRows[n].of =>
                  at[q] = "next" /\ build[q].found = statRows[n].value
          /\ \A i \in DOMAIN history :
                  /\ history[i].id = statRows[n].of /\ history[i].finished
                  /\ history[i].status = "success"
                  => history[i].scanned = statRows[n].value
      BY DEF BuildInv, StatsOK
    <3>2. statRows[n].of # 0
      BY DEF BuildInv, IdsOK
    <3>3. \A q \in Procs : build'[q].id = statRows[n].of =>
                                at'[q] = "next" /\ build'[q].found = statRows[n].value
      BY <1>4, <1>5, <3>1, <3>2
    <3>4. ASSUME NEW i \in DOMAIN history, history'[i].id = statRows[n].of, history'[i].finished,
                 history'[i].status = "success"
          PROVE  history'[i].scanned = statRows[n].value
      <4>1. CASE history[i].id = id
        <5>1. history'[i] = done
          BY <2>4, <4>1
        <5>2. statRows[n].of = id /\ scanned = build[p].found
          BY <1>3, <2>2, <3>4, <5>1
        <5> QED
          BY <1>4, <2>2, <3>1, <5>1, <5>2
      <4>2. CASE history[i].id # id
        BY <2>4, <3>1, <3>4, <4>2
      <4> QED
        BY <4>1, <4>2
    <3> QED
      BY <2>4, <3>1, <3>3, <3>4
  <2> QED
    BY <1>6, <2>6, <2>7, <2>8, <2>10, <2>11 DEF BuildInv
<1> QED
  BY <1>3, <1>7, <1>8

LEMMA BuildStep == BuildInv /\ [BuildNext]_<<dbVars, buildVars>> => BuildInv'
<1> SUFFICES ASSUME BuildInv, [BuildNext]_<<dbVars, buildVars>>
             PROVE  BuildInv'
  OBVIOUS
<1>1. CASE UNCHANGED <<dbVars, buildVars>>
  BY <1>1 DEF dbVars, tables, buildVars, BuildInv, BuildTypes, IdsOK, IdsUnique, RowsOK, StatsOK,
              ManifestOK, OnThisDatabase, Writing
<1>2. ASSUME NEW p \in Procs,
             \/ OpenDatabase(p) \/ BeginBuild(p) \/ ScanAndPrepare(p)
             \/ CreateManifest(p) \/ WriteManifest(p) \/ RunTasksAndRecord(p)
             \/ InvokeNextAndFinish(p) \/ Kill(p)
      PROVE  BuildInv'
  BY <1>2, OpenDatabaseStep, BeginBuildStep, ScanStep, CreateManifestStep, WriteManifestStep,
     RunTasksStep, InvokeNextStep, KillStep
<1>3. CASE Clean
  BY <1>3, CleanStep
<1> QED
  BY <1>1, <1>2, <1>3 DEF BuildNext

\* The statistics of an id that is not shared are its one row.
LEMMA StatsOfOne ==
    ASSUME BuildInv, NEW i \in DOMAIN history, history[i].id \notin shared,
           history[i].finished, history[i].status = "success", GetStats(history[i].id) # NoRows
    PROVE  GetStats(history[i].id)["files_scanned"] = history[i].scanned
<1> DEFINE id == history[i].id
           mine == {n \in DOMAIN statRows : statRows[n].of = id}
           last(k) == CHOOSE n \in mine : /\ statRows[n].key = k
                                          /\ \A m \in mine : statRows[m].key = k => m <= n
<1>1. GetStats(id) = [k \in {statRows[n].key : n \in mine} |-> statRows[last(k)].value]
  BY DEF GetStats, LastOf
<1>2. PICK n \in mine : TRUE
  <2>1. CASE mine = {}
    <3>1. {statRows[n].key : n \in mine} = {}
      BY <2>1
    <3>2. GetStats(id) = [k \in {} |-> statRows[last(k)].value]
      BY <1>1, <3>1
    <3>3. [k \in {} |-> statRows[last(k)].value] = NoRows
      BY DEF NoRows
    <3> QED
      BY <3>2, <3>3
  <2> QED
    BY <2>1
<1>3. /\ n \in DOMAIN statRows /\ statRows[n].of = id
      /\ statRows[n] \in StatRow /\ n \in Nat
  BY LenProperties, ElementOfSeq DEF BuildInv, BuildTypes
<1>4. mine = {n}
  BY <1>3 DEF BuildInv, StatsOK
<1>5. statRows[n].key = "files_scanned"
  BY <1>3 DEF StatRow
<1>6. last("files_scanned") = n
  BY <1>3, <1>4, <1>5
<1>7. GetStats(id)["files_scanned"] = statRows[n].value
  <2>1. "files_scanned" \in {statRows[m].key : m \in mine}
    BY <1>2, <1>5
  <2> HIDE DEF mine, last
  <2>2. GetStats(id)["files_scanned"] = statRows[last("files_scanned")].value
    BY <1>1, <2>1
  <2> QED
    BY <1>6, <2>2
<1>8. history[i].scanned = statRows[n].value
  BY <1>3 DEF BuildInv, StatsOK
<1> QED
  BY <1>7, <1>8

\* What the build command keeps has its type, and the rows and the manifest tell
\* what its builds did.
LEMMA BuildSound == BuildInv => BuildTypeOK /\ BuildsAccounted
<1> SUFFICES ASSUME BuildInv
             PROVE  BuildTypeOK /\ BuildsAccounted
  OBVIOUS
<1>1. BuildTypeOK
  <2>1. \A p \in Procs : /\ build[p].id \in 0 .. started /\ build[p].found \in 0 .. MaxFound
                         /\ build[p].entries \in 0 .. MaxFound + 1
                         /\ build[p].db \in 0 .. cleans /\ build[p].file \in 0 .. cleans
    BY BuildFields DEF BuildInv, IdsOK
  <2>2. \A i \in DOMAIN manifest : manifest[i] \in [id : 1 .. started, of : 1 .. MaxFound + 1]
    <3>1. \A i \in DOMAIN manifest : manifest[i] \in [id : Nat, of : Nat]
      BY LenProperties, ElementOfSeq DEF BuildInv, BuildTypes
    <3> QED
      BY <3>1 DEF BuildInv, IdsOK
  <2>3. \A i \in DOMAIN history : history[i].status \in Statuses
    <3>1. \A i \in DOMAIN history : history[i] \in HistoryRow
      BY LenProperties, ElementOfSeq DEF BuildInv, BuildTypes
    <3> QED
      BY <3>1 DEF HistoryRow
  <2> QED
    BY <2>1, <2>2, <2>3 DEF BuildInv, BuildTypes, IdsOK, BuildTypeOK, Places, Statuses
<1>2. RowsTellTheirBuilds
  <2>1. \A i \in DOMAIN history :
            history[i].finished /\ history[i].id \notin shared
            /\ history[i].status = "success" /\ GetStats(history[i].id) # NoRows
            => GetStats(history[i].id)["files_scanned"] = history[i].scanned
    BY StatsOfOne
  <2> QED
    BY <2>1 DEF BuildInv, RowsOK, RowsTellTheirBuilds
<1>3. ManifestWhole
  BY DEF BuildInv, ManifestOK, ManifestWhole
<1> QED
  BY <1>1, <1>2, <1>3 DEF BuildsAccounted

\* Type correctness of the build command.
THEOREM BuildTypesHold == BuildSpec => []BuildTypeOK
<1> QED
  BY BuildInitHolds, BuildStep, BuildSound, PTL DEF BuildSpec

\* Wherever builds are killed or a clean comes between, a row tells what its build
\* did, the statistics agree with it, and an untorn manifest is one build's.
THEOREM BuildsAccountedCorrect == BuildSpec => []BuildsAccounted
<1> QED
  BY BuildInitHolds, BuildStep, BuildSound, PTL DEF BuildSpec

-----------------------------------------------------------------------------
(* The binary cache                                                        *)

Blob == [data : CacheData \cup {"none", "empty"}, packed : BOOLEAN]
OneKeyKinds == {"create", "write", "upsert", "lookup", "read", "unlink", "delete"}

CacheTypes ==
    /\ DOMAIN op = Caches /\ DOMAIN cacheEntries \subseteq CacheKey
    /\ blobs \in [CacheKey -> Blob] /\ latest \in [CacheKey -> CacheData \cup {"none"}]
    /\ unsure \subseteq CacheKey /\ halfGone \subseteq CacheKey /\ met \subseteq Caches
    /\ ops \in 0 .. MaxOps

OpTyped(c) ==
    /\ op[c].kind \in OneKeyKinds \cup {"none", "got", "sweep"}
    /\ op[c].kind \in OneKeyKinds => op[c].key \in CacheKey
    /\ op[c].kind \in {"create", "write", "upsert"} => op[c].data \in CacheData
    /\ op[c].kind = "sweep" => op[c].left \subseteq CacheKey

HitOK(c) ==
    op[c].kind = "got" /\ op[c].sure =>
        LET result == op[c].result
            stored == op[c].expected
        IN IF ~result.hit THEN stored = "none"
           ELSE /\ result.bytes.data = stored
                /\ result.bytes.packed => c \notin Compressing

\* What a client that met no other knows of its key; that of one that did is unsure.
OpKnows(c) ==
    /\ c \in met /\ op[c].kind \in OneKeyKinds => op[c].key \in unsure
    /\ c \notin met /\ op[c].kind = "upsert" =>
            blobs[op[c].key] = [data |-> op[c].data, packed |-> Packs(c, op[c].data)]
    /\ c \notin met /\ op[c].kind = "read" =>
            /\ op[c].key \in DOMAIN cacheEntries
            /\ op[c].compressed = cacheEntries[op[c].key].compressed

OpOK(c) == OpTyped(c) /\ OpKnows(c) /\ HitOK(c)

\* Two clients on one key have met, and the key is unsure.
MeetOK ==
    \A c, d \in Caches : \A k \in Handles(c) \cap Handles(d) :
        c # d => c \in met /\ d \in met /\ k \in unsure

\* Between file and row.
Midway(c) == op[c].kind \in {"write", "upsert", "delete", "sweep"}

\* There is a row exactly if something is put; unless the key is unsure or a client
\* is between its file and its row, both are of what was put last.
KeyOK(k) ==
    /\ k \in DOMAIN cacheEntries <=> latest[k] # "none"
    /\ /\ k \in DOMAIN cacheEntries /\ k \notin unsure
       /\ \A c \in Caches : Midway(c) => k \notin Handles(c)
       => blobs[k] = [data |-> latest[k], packed |-> cacheEntries[k].compressed]
    /\ k \in DOMAIN cacheEntries /\ blobs[k] = NoBlob => k \in halfGone \cup unsure

CacheInv ==
    /\ CacheTypes /\ MeetOK
    /\ \A c \in Caches : OpOK(c)
    /\ \A k \in CacheKey : KeyOK(k)

LEMMA CacheInitHolds == DbInit /\ CacheInit => CacheInv
<1> SUFFICES ASSUME DbInit, CacheInit PROVE CacheInv
  OBVIOUS
<1> USE DEF DbInit, EmptyTables, CacheInit, NoOp, NoRows
<1>1. CacheTypes
  <2>1. NoBlob \in Blob
    BY DEF NoBlob, Blob
  <2> QED
    BY <2>1, CacheAssumption DEF CacheTypes
<1>2. \A c \in Caches : Handles(c) = {}
  BY DEF Handles
<1>3. MeetOK
  BY <1>2 DEF MeetOK
<1>4. \A c \in Caches : OpOK(c)
  BY DEF OpOK, OpTyped, OpKnows, HitOK, OneKeyKinds
<1>5. \A k \in CacheKey : KeyOK(k)
  BY DEF KeyOK
<1> QED
  BY <1>1, <1>3, <1>4, <1>5 DEF CacheInv

LEMMA HandlesOf ==
    ASSUME NEW c \in Caches, OpTyped(c)
    PROVE  /\ op[c].kind \in OneKeyKinds => Handles(c) = {op[c].key}
           /\ op[c].kind = "sweep" => Handles(c) = CacheKey
           /\ op[c].kind \in {"none", "got"} => Handles(c) = {}
           /\ Handles(c) \subseteq CacheKey
  BY DEF OpTyped, Handles, OneKeyKinds

LEMMA HandlesNow ==
    ASSUME NEW c \in Caches, OpTyped(c)'
    PROVE  /\ op'[c].kind \in OneKeyKinds => Handles(c)' = {op'[c].key}
           /\ op'[c].kind = "sweep" => Handles(c)' = CacheKey
           /\ op'[c].kind \in {"none", "got"} => Handles(c)' = {}
           /\ Handles(c)' \subseteq CacheKey
  BY DEF OpTyped, Handles, OneKeyKinds

LEMMA SetIs ==
    ASSUME CacheTypes, NEW c \in Caches, NEW o, Set(c, o)
    PROVE  /\ DOMAIN op' = Caches /\ op'[c] = o
           /\ \A d \in Caches \ {c} : op'[d] = op[d]
  BY DEF CacheTypes, Set

LEMMA OpSame ==
    ASSUME CacheInv, NEW d \in Caches, op'[d] = op[d]
    PROVE  /\ OpTyped(d)' /\ HitOK(d)' /\ Handles(d)' = Handles(d)
           /\ Midway(d)' <=> Midway(d)
<1>1. OpTyped(d)'
  BY DEF CacheInv, OpOK, OpTyped
<1>2. HitOK(d)'
  BY DEF CacheInv, OpOK, HitOK
<1>3. Handles(d)' = Handles(d)
  BY DEF Handles
<1>4. Midway(d)' <=> Midway(d)
  BY DEF Midway
<1> QED
  BY <1>1, <1>2, <1>3, <1>4

\* Nothing of a key changes.
Untouched(k) ==
    /\ blobs'[k] = blobs[k] /\ latest'[k] = latest[k]
    /\ k \in DOMAIN cacheEntries' <=> k \in DOMAIN cacheEntries
    /\ k \in DOMAIN cacheEntries => cacheEntries'[k] = cacheEntries[k]
    /\ k \in unsure' <=> k \in unsure
    /\ k \in halfGone' <=> k \in halfGone

\* A call under way that touches its own keys only, and makes none of them sure if
\* it met another, leaves what the others know.
LEMMA CallMoves ==
    ASSUME CacheInv, NEW c \in Caches, OpTyped(c)',
           \A d \in Caches \ {c} : op'[d] = op[d] /\ (d \in met' <=> d \in met),
           Handles(c)' \subseteq Handles(c),
           Handles(c)' # {} => met' = met,
           c \in met => unsure \subseteq unsure',
           \A k \in CacheKey \ Handles(c) : Untouched(k)
    PROVE  /\ MeetOK'
           /\ \A d \in Caches \ {c} : OpOK(d)'
           /\ \A k \in CacheKey \ Handles(c) : KeyOK(k)'
<1>1. \A d \in Caches \ {c} : /\ OpTyped(d)' /\ HitOK(d)' /\ Handles(d)' = Handles(d)
                              /\ Midway(d)' <=> Midway(d)
  BY OpSame
<1>2. \A d \in Caches : Handles(d) \subseteq CacheKey
  BY HandlesOf DEF CacheInv, OpOK
<1>3. ASSUME NEW k \in CacheKey, k \in unsure, NEW d \in Caches \ {c}, k \in Handles(d)
      PROVE  k \in unsure'
  <2>1. CASE k \in Handles(c)
    BY <1>3, <2>1 DEF CacheInv, MeetOK
  <2>2. CASE k \notin Handles(c)
    BY <1>3, <2>2 DEF Untouched
  <2> QED
    BY <2>1, <2>2
<1>4. MeetOK'
  <2> SUFFICES ASSUME NEW d \in Caches, NEW e \in Caches, d # e,
                      NEW k \in Handles(d)' \cap Handles(e)'
               PROVE  d \in met' /\ e \in met' /\ k \in unsure'
    BY DEF MeetOK
  <2>1. k \in Handles(d) \cap Handles(e) /\ k \in CacheKey
    BY <1>1, <1>2
  <2>2. d \in met /\ e \in met /\ k \in unsure
    BY <2>1 DEF CacheInv, MeetOK
  <2>3. d \in met' /\ e \in met'
    BY <2>2
  <2>4. k \in unsure'
    BY <1>3, <2>1, <2>2
  <2> QED
    BY <2>3, <2>4
<1>5. ASSUME NEW d \in Caches \ {c}
      PROVE  OpOK(d)'
  <2>1. OpOK(d) /\ op'[d] = op[d] /\ (d \in met' <=> d \in met)
    BY DEF CacheInv
  <2>2. op[d].kind \in OneKeyKinds => Handles(d) = {op[d].key} /\ op[d].key \in CacheKey
    BY <2>1, HandlesOf DEF OpOK, OpTyped
  <2>3. ASSUME d \in met, op[d].kind \in OneKeyKinds
        PROVE  op[d].key \in unsure'
    BY <1>3, <2>1, <2>2, <2>3 DEF OpOK, OpKnows
  <2>4. ASSUME d \notin met, op[d].kind \in OneKeyKinds
        PROVE  Untouched(op[d].key)
    BY <2>2, <2>4 DEF CacheInv, MeetOK
  <2>5. OpKnows(d)'
    <3>1. d \in met' /\ op'[d].kind \in OneKeyKinds => op'[d].key \in unsure'
      BY <2>1, <2>3
    <3>2. ASSUME d \notin met', op'[d].kind = "upsert"
          PROVE  blobs'[op'[d].key] = [data |-> op'[d].data, packed |-> Packs(d, op'[d].data)]
      BY <2>1, <2>4, <3>2 DEF OpOK, OpKnows, OneKeyKinds, Untouched
    <3>3. ASSUME d \notin met', op'[d].kind = "read"
          PROVE  /\ op'[d].key \in DOMAIN cacheEntries'
                 /\ op'[d].compressed = cacheEntries'[op'[d].key].compressed
      BY <2>1, <2>4, <3>3 DEF OpOK, OpKnows, OneKeyKinds, Untouched
    <3> QED
      BY <3>1, <3>2, <3>3 DEF OpKnows, Packs
  <2> QED
    BY <1>1, <2>5 DEF OpOK
<1>6. ASSUME NEW k \in CacheKey \ Handles(c)
      PROVE  KeyOK(k)'
  <2>1. KeyOK(k) /\ Untouched(k)
    BY DEF CacheInv
  <2>2. (\A d \in Caches : Midway(d)' => k \notin Handles(d)')
        => \A d \in Caches : Midway(d) => k \notin Handles(d)
    BY <1>1, <1>6
  <2> QED
    BY <2>1, <2>2 DEF KeyOK, Untouched
<1> QED
  BY <1>4, <1>5, <1>6

\* A call begins; those it meets on its keys have met, and the keys are unsure.
LEMMA BeginStep ==
    ASSUME CacheInv, NEW c \in Caches, NEW o, NEW keys, Begin(c, o, keys),
           keys \subseteq CacheKey, OpTyped(c)', Handles(c)' = keys,
           o.kind \in {"create", "lookup", "unlink", "sweep"}
    PROVE  CacheInv'
<1>1. /\ op[c].kind \in {"none", "got"} /\ ops < MaxOps /\ ops' = ops + 1
      /\ DOMAIN op' = Caches /\ op'[c] = o /\ \A d \in Caches \ {c} : op'[d] = op[d]
      /\ unsure' = unsure \cup (keys \cap UNION {Handles(d) : d \in Others(c, keys)})
      /\ met' = (met \ {c}) \cup Others(c, keys) \cup (IF Others(c, keys) = {} THEN {} ELSE {c})
      /\ UNCHANGED <<blobs, latest, halfGone, cacheEntries>>
  BY SetIs DEF Begin, CacheInv
<1>2. Handles(c) = {} /\ ~Midway(c)
  BY <1>1, HandlesOf DEF CacheInv, OpOK, Midway
<1>3. Others(c, keys) = {d \in Caches \ {c} : Handles(d) \cap keys # {}}
  BY DEF Others
<1>4. \A d \in Caches \ {c} : /\ OpTyped(d)' /\ HitOK(d)' /\ Handles(d)' = Handles(d)
                              /\ Midway(d)' <=> Midway(d)
  BY <1>1, OpSame
<1>5. \A d \in Caches \ {c} : d \in met \/ Handles(d) \cap keys # {} <=> d \in met'
  BY <1>1, <1>3
<1>6. \A d \in Caches \ {c} : \A k \in Handles(d) \cap keys : c \in met' /\ k \in unsure'
  BY <1>1, <1>3
<1>7. CacheTypes'
  <2>1. ops' \in 0 .. MaxOps
    BY <1>1, CacheAssumption DEF CacheInv, CacheTypes
  <2>2. unsure' \subseteq CacheKey /\ met' \subseteq Caches
    BY <1>1, <1>3 DEF CacheInv, CacheTypes
  <2> QED
    BY <1>1, <2>1, <2>2 DEF CacheInv, CacheTypes
<1>8. MeetOK'
  <2> SUFFICES ASSUME NEW d \in Caches, NEW e \in Caches, d # e,
                      NEW k \in Handles(d)' \cap Handles(e)'
               PROVE  d \in met' /\ e \in met' /\ k \in unsure'
    BY DEF MeetOK
  <2>1. CASE d = c
    BY <1>4, <1>5, <1>6, <2>1
  <2>2. CASE e = c
    BY <1>4, <1>5, <1>6, <2>2
  <2>3. CASE d # c /\ e # c
    <3>1. d \in met /\ e \in met /\ k \in unsure
      BY <1>4, <2>3 DEF CacheInv, MeetOK
    <3> QED
      BY <1>1, <1>5, <2>3, <3>1
  <2> QED
    BY <2>1, <2>2, <2>3
<1>9. ASSUME NEW d \in Caches \ {c}
      PROVE  OpOK(d)'
  <2>1. OpOK(d) /\ op'[d] = op[d]
    BY <1>1 DEF CacheInv
  <2>2. op[d].kind \in OneKeyKinds => Handles(d) = {op[d].key}
    BY <2>1, HandlesOf DEF OpOK
  <2>3. d \in met' /\ op'[d].kind \in OneKeyKinds => op'[d].key \in unsure'
    BY <1>1, <1>5, <1>6, <2>1, <2>2 DEF OpOK, OpKnows
  <2>4. d \notin met' => d \notin met
    BY <1>5
  <2>5. OpKnows(d)'
    BY <1>1, <2>1, <2>3, <2>4 DEF OpOK, OpKnows, Packs
  <2> QED
    BY <1>4, <2>5 DEF OpOK
<1>10. OpOK(c)'
  <2>1. ASSUME c \in met', op'[c].kind \in OneKeyKinds
        PROVE  op'[c].key \in unsure'
    <3>1. PICK d \in Caches \ {c} : Handles(d) \cap keys # {}
      BY <1>1, <1>3, <2>1
    <3>2. keys = {op'[c].key}
      BY <2>1, HandlesNow
    <3> QED
      BY <1>6, <3>1, <3>2
  <2> QED
    BY <1>1, <2>1 DEF OpOK, OpKnows, HitOK
<1>11. ASSUME NEW k \in CacheKey
       PROVE  KeyOK(k)'
  <2>1. KeyOK(k)
    BY DEF CacheInv
  <2>2. (\A d \in Caches : Midway(d)' => k \notin Handles(d)')
        => \A d \in Caches : Midway(d) => k \notin Handles(d)
    BY <1>2, <1>4
  <2>3. k \in unsure => k \in unsure'
    BY <1>1
  <2> QED
    BY <1>1, <2>1, <2>2, <2>3 DEF KeyOK
<1> QED
  BY <1>7, <1>8, <1>9, <1>10, <1>11 DEF CacheInv

LEMMA CallsBegin ==
    ASSUME CacheInv, NEW c \in Caches,
           PutBegin(c) \/ GetBegin(c) \/ RemoveBegin(c) \/ PurgeBegin(c)
    PROVE  CacheInv'
<1>1. ASSUME NEW k \in CacheKey, NEW o, Begin(c, o, {k}), o.key = k,
             o.kind \in {"create", "lookup", "unlink"},
             o.kind = "create" => o.data \in CacheData
      PROVE  CacheInv'
  <2>1. op'[c] = o
    BY <1>1, SetIs DEF Begin, CacheInv
  <2>2. OpTyped(c)'
    BY <1>1, <2>1 DEF OpTyped, OneKeyKinds
  <2>3. Handles(c)' = {k}
    BY <1>1, <2>1, <2>2, HandlesNow DEF OneKeyKinds
  <2> QED
    BY <1>1, <2>2, <2>3, BeginStep
<1>2. CASE PutBegin(c)
  <2>1. PICK k \in CacheKey, d \in CacheData : Begin(c, [kind |-> "create", key |-> k, data |-> d], {k})
    BY <1>2 DEF PutBegin
  <2> QED
    BY <1>1, <2>1
<1>3. CASE GetBegin(c)
  <2>1. PICK k \in CacheKey : Begin(c, [kind |-> "lookup", key |-> k], {k})
    BY <1>3 DEF GetBegin
  <2> QED
    BY <1>1, <2>1
<1>4. CASE RemoveBegin(c)
  <2>1. PICK k \in CacheKey : Begin(c, [kind |-> "unlink", key |-> k], {k})
    BY <1>4 DEF RemoveBegin
  <2> QED
    BY <1>1, <2>1
<1>5. CASE PurgeBegin(c)
  <2> DEFINE o == [kind |-> "sweep", left |-> {k \in CacheKey : blobs[k] # NoBlob}]
  <2>1. Begin(c, o, CacheKey) /\ o.kind = "sweep" /\ o.left \subseteq CacheKey
    BY <1>5 DEF PurgeBegin
  <2> HIDE DEF o
  <2>2. op'[c] = o
    BY <2>1, SetIs DEF Begin, CacheInv
  <2>3. OpTyped(c)'
    BY <2>1, <2>2 DEF OpTyped, OneKeyKinds
  <2>4. Handles(c)' = CacheKey
    BY <2>1, <2>2, <2>3, HandlesNow
  <2> QED
    BY <2>1, <2>3, <2>4, BeginStep
<1> QED
  BY <1>2, <1>3, <1>4, <1>5

LEMMA PutCreateStep ==
    ASSUME CacheInv, NEW c \in Caches, PutCreate(c)
    PROVE  CacheInv'
<1>0. PICK k : k = op[c].key
  OBVIOUS
<1>1. /\ op[c].kind = "create" /\ blobs' = [blobs EXCEPT ![k] = EmptyBlob]
      /\ DOMAIN op' = Caches /\ op'[c] = [kind |-> "write", key |-> k, data |-> op[c].data]
      /\ \A d \in Caches \ {c} : op'[d] = op[d]
      /\ UNCHANGED <<ops, latest, unsure, met, halfGone, cacheEntries>>
  BY <1>0, SetIs DEF PutCreate, CacheInv
<1>2. OpTyped(c) /\ OpKnows(c) /\ k \in CacheKey /\ op[c].data \in CacheData /\ Handles(c) = {k}
  BY <1>0, <1>1, HandlesOf DEF CacheInv, OpOK, OpTyped, OneKeyKinds
<1>3. OpTyped(c)'
  BY <1>1, <1>2 DEF OpTyped, OneKeyKinds
<1>4. Handles(c)' = {k} /\ Midway(c)'
  BY <1>1, <1>3, HandlesNow DEF OneKeyKinds, Midway
<1>5. EmptyBlob \in Blob /\ EmptyBlob # NoBlob
  <2>1. EmptyBlob.data # NoBlob.data
    BY DEF EmptyBlob, NoBlob
  <2> QED
    BY <2>1 DEF EmptyBlob, Blob
<1>6. CacheTypes'
  BY <1>1, <1>5 DEF CacheInv, CacheTypes
<1>7. \A j \in CacheKey \ {k} : Untouched(j)
  BY <1>1 DEF CacheInv, CacheTypes, Untouched
<1>8. /\ MeetOK' /\ \A d \in Caches \ {c} : OpOK(d)'
      /\ \A j \in CacheKey \ {k} : KeyOK(j)'
  BY <1>1, <1>2, <1>3, <1>4, <1>7, CallMoves
<1>9. OpOK(c)'
  BY <1>0, <1>1, <1>2, <1>3 DEF OpOK, OpKnows, HitOK, OneKeyKinds
<1>10. KeyOK(k)'
  <2>1. KeyOK(k) /\ blobs'[k] = EmptyBlob
    BY <1>1, <1>2 DEF CacheInv, CacheTypes
  <2>2. ~ \A d \in Caches : Midway(d)' => k \notin Handles(d)'
    BY <1>4
  <2> QED
    BY <1>1, <1>5, <2>1, <2>2 DEF KeyOK
<1> QED
  BY <1>6, <1>8, <1>9, <1>10 DEF CacheInv

LEMMA PutWriteStep ==
    ASSUME CacheInv, NEW c \in Caches, PutWrite(c)
    PROVE  CacheInv'
<1>0. PICK k : k = op[c].key
  OBVIOUS
<1> DEFINE blob == [data |-> op[c].data, packed |-> Packs(c, op[c].data)]
<1>1. /\ op[c].kind = "write" /\ blobs' = [blobs EXCEPT ![k] = blob]
      /\ DOMAIN op' = Caches /\ op'[c] = [kind |-> "upsert", key |-> k, data |-> op[c].data]
      /\ \A d \in Caches \ {c} : op'[d] = op[d]
      /\ UNCHANGED <<ops, latest, unsure, met, halfGone, cacheEntries>>
  BY <1>0, SetIs DEF PutWrite, CacheInv
<1>2. OpTyped(c) /\ OpKnows(c) /\ k \in CacheKey /\ op[c].data \in CacheData /\ Handles(c) = {k}
  BY <1>0, <1>1, HandlesOf DEF CacheInv, OpOK, OpTyped, OneKeyKinds
<1>3. blob \in Blob /\ blob # NoBlob
  <2>1. Packs(c, op[c].data) \in BOOLEAN
    BY DEF Packs
  <2>2. blob \in Blob
    BY <1>2, <2>1 DEF Blob
  <2>3. blob.data # NoBlob.data
    BY <1>2, CacheAssumption DEF NoBlob
  <2> QED
    BY <2>2, <2>3
<1>4. OpTyped(c)'
  BY <1>1, <1>2 DEF OpTyped, OneKeyKinds
<1>5. Handles(c)' = {k} /\ Midway(c)'
  BY <1>1, <1>4, HandlesNow DEF OneKeyKinds, Midway
<1>6. op'[c].data = op[c].data /\ op'[c].key = k /\ op'[c].kind = "upsert" /\ blobs'[k] = blob
  BY <1>1, <1>2 DEF CacheInv, CacheTypes
<1>7. OpOK(c)'
  <2>2. c \in met' => k \in unsure'
    BY <1>0, <1>1, <1>2 DEF OpKnows, OneKeyKinds
  <2>3. OpKnows(c)'
    BY <1>6, <2>2 DEF OpKnows, Packs
  <2> QED
    BY <1>4, <1>6, <2>3 DEF OpOK, HitOK
<1> HIDE DEF blob
<1>8. CacheTypes'
  BY <1>1, <1>3 DEF CacheInv, CacheTypes
<1>9. \A j \in CacheKey \ {k} : Untouched(j)
  BY <1>1 DEF CacheInv, CacheTypes, Untouched
<1>10. /\ MeetOK' /\ \A d \in Caches \ {c} : OpOK(d)'
       /\ \A j \in CacheKey \ {k} : KeyOK(j)'
  BY <1>1, <1>2, <1>4, <1>5, <1>9, CallMoves
<1>11. KeyOK(k)'
  <2>1. KeyOK(k)
    BY <1>2 DEF CacheInv
  <2>2. ~ \A d \in Caches : Midway(d)' => k \notin Handles(d)'
    BY <1>5
  <2> QED
    BY <1>1, <1>3, <1>6, <2>1, <2>2 DEF KeyOK
<1> QED
  BY <1>7, <1>8, <1>10, <1>11 DEF CacheInv

LEMMA PutUpsertStep ==
    ASSUME CacheInv, NEW c \in Caches, PutUpsert(c)
    PROVE  CacheInv'
<1>0. PICK k : k = op[c].key
  OBVIOUS
<1> DEFINE row == [size |-> 1, compressed |-> Packs(c, op[c].data)]
<1>1. /\ op[c].kind = "upsert" /\ latest' = [latest EXCEPT ![k] = op[c].data]
      /\ cacheEntries' = [j \in DOMAIN cacheEntries \cup {k} |-> IF j = k THEN row ELSE cacheEntries[j]]
      /\ DOMAIN op' = Caches /\ op'[c] = NoOp /\ \A d \in Caches \ {c} : op'[d] = op[d]
      /\ unsure' = IF c \in met THEN unsure ELSE unsure \ {k}
      /\ met' = met \ {c} /\ halfGone' = halfGone \ {k}
      /\ UNCHANGED <<blobs, ops>>
  BY <1>0, SetIs DEF PutUpsert, CacheInv, Settle, UpsertCacheEntry, Replace
<1>2. OpTyped(c) /\ OpKnows(c) /\ k \in CacheKey /\ op[c].data \in CacheData /\ Handles(c) = {k}
  BY <1>0, <1>1, HandlesOf DEF CacheInv, OpOK, OpTyped, OneKeyKinds
<1>3. op'[c].kind = "none" /\ OpTyped(c)'
  BY <1>1 DEF NoOp, OpTyped, OneKeyKinds
<1>4. Handles(c)' = {}
  BY <1>3, HandlesNow
<1>5. OpOK(c)'
  BY <1>3 DEF OpOK, OpKnows, HitOK, OneKeyKinds
<1>6. /\ DOMAIN cacheEntries' = DOMAIN cacheEntries \cup {k} /\ cacheEntries'[k] = row
      /\ \A j \in DOMAIN cacheEntries \ {k} : cacheEntries'[j] = cacheEntries[j]
      /\ latest'[k] = op[c].data
  BY <1>1, <1>2 DEF CacheInv, CacheTypes
<1>7. CacheTypes'
  BY <1>1, <1>2, <1>6 DEF CacheInv, CacheTypes
<1>8. \A j \in CacheKey \ {k} : Untouched(j)
  BY <1>1, <1>6 DEF CacheInv, CacheTypes, Untouched
<1>9. /\ MeetOK' /\ \A d \in Caches \ {c} : OpOK(d)'
      /\ \A j \in CacheKey \ {k} : KeyOK(j)'
  BY <1>1, <1>2, <1>3, <1>4, <1>8, CallMoves
<1>10. KeyOK(k)'
  <2>1. ASSUME k \notin unsure'
        PROVE  blobs[k] = [data |-> op[c].data, packed |-> Packs(c, op[c].data)]
    BY <1>0, <1>1, <1>2, <2>1 DEF OpKnows, OneKeyKinds
  <2>2. op[c].data # "none" /\ row.compressed = Packs(c, op[c].data)
    BY <1>2, CacheAssumption
  <2>3. k \notin unsure' => blobs[k] # NoBlob
    <3>1. [data |-> op[c].data, packed |-> Packs(c, op[c].data)].data # NoBlob.data
      BY <2>2 DEF NoBlob
    <3> QED
      BY <2>1, <3>1
  <2>4. k \in DOMAIN cacheEntries' <=> latest'[k] # "none"
    BY <1>6, <2>2
  <2> HIDE DEF row
  <2> QED
    BY <1>1, <1>6, <2>1, <2>2, <2>3, <2>4 DEF KeyOK
<1> QED
  BY <1>5, <1>7, <1>9, <1>10 DEF CacheInv

LEMMA RemoveFileStep ==
    ASSUME CacheInv, NEW c \in Caches, RemoveFile(c)
    PROVE  CacheInv'
<1>0. PICK k : k = op[c].key
  OBVIOUS
<1>1. /\ op[c].kind = "unlink"
      /\ \/ blobs' = [blobs EXCEPT ![k] = NoBlob] /\ halfGone' = halfGone \cup {k}
         \/ UNCHANGED <<blobs, halfGone>>
      /\ DOMAIN op' = Caches /\ op'[c] = [kind |-> "delete", key |-> k]
      /\ \A d \in Caches \ {c} : op'[d] = op[d]
      /\ UNCHANGED <<ops, latest, unsure, met, cacheEntries>>
  BY <1>0, SetIs DEF RemoveFile, CacheInv
<1>2. OpTyped(c) /\ OpKnows(c) /\ k \in CacheKey /\ Handles(c) = {k}
  BY <1>0, <1>1, HandlesOf DEF CacheInv, OpOK, OpTyped, OneKeyKinds
<1>3. OpTyped(c)'
  BY <1>1, <1>2 DEF OpTyped, OneKeyKinds
<1>4. Handles(c)' = {k} /\ Midway(c)'
  BY <1>1, <1>3, HandlesNow DEF OneKeyKinds, Midway
<1>5. OpOK(c)'
  BY <1>0, <1>1, <1>2, <1>3 DEF OpOK, OpKnows, HitOK, OneKeyKinds
<1>6. CacheTypes'
  <2>1. NoBlob \in Blob
    BY DEF NoBlob, Blob
  <2>2. CASE blobs' = [blobs EXCEPT ![k] = NoBlob] /\ halfGone' = halfGone \cup {k}
    BY <1>1, <1>2, <2>1, <2>2 DEF CacheInv, CacheTypes
  <2>3. CASE UNCHANGED <<blobs, halfGone>>
    BY <1>1, <2>3 DEF CacheInv, CacheTypes
  <2> QED
    BY <1>1, <2>2, <2>3
<1>7. \A j \in CacheKey \ {k} : Untouched(j)
  BY <1>1 DEF CacheInv, CacheTypes, Untouched
<1>8. /\ MeetOK' /\ \A d \in Caches \ {c} : OpOK(d)'
      /\ \A j \in CacheKey \ {k} : KeyOK(j)'
  BY <1>1, <1>2, <1>3, <1>4, <1>7, CallMoves
<1>9. KeyOK(k)'
  <2>1. KeyOK(k)
    BY <1>2 DEF CacheInv
  <2>2. ~ \A d \in Caches : Midway(d)' => k \notin Handles(d)'
    BY <1>4
  <2> QED
    BY <1>1, <2>1, <2>2 DEF KeyOK
<1> QED
  BY <1>5, <1>6, <1>8, <1>9 DEF CacheInv

LEMMA RemoveRowStep ==
    ASSUME CacheInv, NEW c \in Caches, RemoveRow(c)
    PROVE  CacheInv'
<1>0. PICK k : k = op[c].key
  OBVIOUS
<1>1. /\ op[c].kind = "delete" /\ latest' = [latest EXCEPT ![k] = "none"]
      /\ cacheEntries' = [j \in DOMAIN cacheEntries \ {k} |-> cacheEntries[j]]
      /\ DOMAIN op' = Caches /\ op'[c] = NoOp /\ \A d \in Caches \ {c} : op'[d] = op[d]
      /\ unsure' = IF c \in met THEN unsure ELSE unsure \ {k}
      /\ met' = met \ {c} /\ halfGone' = halfGone \ {k}
      /\ UNCHANGED <<blobs, ops>>
  BY <1>0, SetIs DEF RemoveRow, CacheInv, Settle, DeleteCacheEntry, Without
<1>2. OpTyped(c) /\ k \in CacheKey /\ Handles(c) = {k}
  BY <1>0, <1>1, HandlesOf DEF CacheInv, OpOK, OpTyped, OneKeyKinds
<1>3. op'[c].kind = "none" /\ OpTyped(c)'
  BY <1>1 DEF NoOp, OpTyped, OneKeyKinds
<1>4. Handles(c)' = {}
  BY <1>3, HandlesNow
<1>5. OpOK(c)'
  BY <1>3 DEF OpOK, OpKnows, HitOK, OneKeyKinds
<1>6. /\ DOMAIN cacheEntries' = DOMAIN cacheEntries \ {k}
      /\ \A j \in DOMAIN cacheEntries \ {k} : cacheEntries'[j] = cacheEntries[j]
      /\ latest'[k] = "none"
  BY <1>1, <1>2 DEF CacheInv, CacheTypes
<1>7. CacheTypes'
  BY <1>1, <1>2, <1>6 DEF CacheInv, CacheTypes
<1>8. \A j \in CacheKey \ {k} : Untouched(j)
  BY <1>1, <1>6 DEF CacheInv, CacheTypes, Untouched
<1>9. /\ MeetOK' /\ \A d \in Caches \ {c} : OpOK(d)'
      /\ \A j \in CacheKey \ {k} : KeyOK(j)'
  BY <1>1, <1>2, <1>3, <1>4, <1>8, CallMoves
<1>10. KeyOK(k)'
  BY <1>6 DEF KeyOK
<1> QED
  BY <1>5, <1>7, <1>9, <1>10 DEF CacheInv

\* Reading changes nothing but what the client knows.
LEMMA ReadsStay ==
    ASSUME CacheInv, NEW c \in Caches, op[c].kind \in {"lookup", "read"},
           DOMAIN op' = Caches, \A d \in Caches \ {c} : op'[d] = op[d],
           UNCHANGED <<blobs, ops, latest, unsure, met, halfGone, cacheEntries>>,
           op'[c].kind \in {"read", "got"}, Handles(c)' \subseteq Handles(c), OpOK(c)'
    PROVE  CacheInv'
<1>1. CacheTypes' /\ \A k \in CacheKey : Untouched(k)
  BY DEF CacheInv, CacheTypes, Untouched
<1>2. MeetOK' /\ \A d \in Caches \ {c} : OpOK(d)'
  BY <1>1, CallMoves DEF OpOK
<1>3. ASSUME NEW k \in CacheKey
      PROVE  KeyOK(k)'
  <2>1. KeyOK(k)
    BY DEF CacheInv
  <2>2. \A d \in Caches \ {c} : Handles(d)' = Handles(d) /\ (Midway(d)' <=> Midway(d))
    BY OpSame
  <2>3. ~Midway(c)
    BY DEF Midway
  <2>4. (\A d \in Caches : Midway(d)' => k \notin Handles(d)')
        => \A d \in Caches : Midway(d) => k \notin Handles(d)
    BY <2>2, <2>3
  <2> QED
    BY <2>1, <2>4 DEF KeyOK
<1> QED
  BY <1>1, <1>2, <1>3 DEF CacheInv

LEMMA GetLookupStep ==
    ASSUME CacheInv, NEW c \in Caches, GetLookup(c)
    PROVE  CacheInv'
<1>0. PICK k : k = op[c].key
  OBVIOUS
<1>1. op[c].kind = "lookup" /\ UNCHANGED <<blobs, ops, latest, unsure, met, halfGone, cacheEntries>>
  BY DEF GetLookup
<1>2. OpTyped(c) /\ OpKnows(c) /\ k \in CacheKey /\ Handles(c) = {k} /\ KeyOK(k)
  BY <1>0, <1>1, HandlesOf DEF CacheInv, OpOK, OpTyped, OneKeyKinds
<1>3. GetCacheEntry(k) = {} <=> k \notin DOMAIN cacheEntries
  BY DEF GetCacheEntry
<1>4. CASE k \notin DOMAIN cacheEntries
  <2> DEFINE o == [kind |-> "got", key |-> k, result |-> Miss, expected |-> latest[k],
                   sure |-> k \notin unsure /\ c \notin met]
  <2>1. DOMAIN op' = Caches /\ op'[c] = o /\ \A d \in Caches \ {c} : op'[d] = op[d]
    BY <1>0, <1>3, <1>4, SetIs DEF GetLookup, Answer, CacheInv
  <2>2. OpTyped(c)' /\ op'[c].kind = "got"
    BY <2>1 DEF OpTyped, OneKeyKinds
  <2>3. Handles(c)' = {}
    BY <2>2, HandlesNow
  <2>4. HitOK(c)'
    <3>1. latest[k] = "none" /\ ~Miss.hit
      BY <1>2, <1>4 DEF KeyOK, Miss
    <3> QED
      BY <2>1, <3>1 DEF HitOK
  <2>5. OpOK(c)'
    BY <2>2, <2>4 DEF OpOK, OpKnows, OneKeyKinds
  <2> QED
    BY <1>1, <2>1, <2>2, <2>3, <2>5, ReadsStay
<1>5. CASE k \in DOMAIN cacheEntries
  <2>1. /\ DOMAIN op' = Caches /\ \A d \in Caches \ {c} : op'[d] = op[d]
        /\ op'[c] = [kind |-> "read", key |-> k, compressed |-> cacheEntries[k].compressed]
    BY <1>0, <1>3, <1>5, SetIs DEF GetLookup, CacheInv
  <2>2. OpTyped(c)' /\ op'[c].kind = "read" /\ op'[c].key = k
    BY <1>2, <2>1 DEF OpTyped, OneKeyKinds
  <2>3. Handles(c)' = {k}
    BY <2>2, HandlesNow DEF OneKeyKinds
  <2>4. c \in met' => k \in unsure'
    BY <1>0, <1>1, <1>2 DEF OpKnows, OneKeyKinds
  <2>5. OpKnows(c)'
    BY <1>1, <1>5, <2>1, <2>2, <2>4 DEF OpKnows
  <2>6. OpOK(c)'
    BY <2>2, <2>5 DEF OpOK, HitOK
  <2> QED
    BY <1>1, <1>2, <2>1, <2>2, <2>3, <2>6, ReadsStay
<1> QED
  BY <1>4, <1>5

\* What a client without compression gets, and what one with compression does.
LEMMA DecodedIs ==
    ASSUME NEW c \in Caches, NEW d, NEW z
    PROVE  LET r == Decoded(c, [data |-> d, packed |-> z], z)
           IN  r.hit /\ r.bytes.data = d /\ (r.bytes.packed => c \notin Compressing)
<1> DEFINE blob == [data |-> d, packed |-> z]
           r == Decoded(c, blob, z)
<1>1. CASE z /\ c \in Compressing
  <2>1. r = [hit |-> TRUE, bytes |-> [data |-> d, packed |-> FALSE]]
    BY <1>1 DEF Decoded
  <2> QED
    BY <2>1
<1>2. CASE ~(z /\ c \in Compressing)
  <2>1. r = [hit |-> TRUE, bytes |-> blob]
    BY <1>2 DEF Decoded
  <2> QED
    BY <1>2, <2>1
<1> QED
  BY <1>1, <1>2

LEMMA GetReadStep ==
    ASSUME CacheInv, NEW c \in Caches, GetRead(c)
    PROVE  CacheInv'
<1>0. PICK k : k = op[c].key
  OBVIOUS
<1>1. op[c].kind = "read" /\ UNCHANGED <<blobs, ops, latest, unsure, met, halfGone, cacheEntries>>
  BY DEF GetRead
<1>2. OpTyped(c) /\ OpKnows(c) /\ k \in CacheKey /\ Handles(c) = {k} /\ KeyOK(k)
  BY <1>0, <1>1, HandlesOf DEF CacheInv, OpOK, OpTyped, OneKeyKinds
<1> DEFINE result == IF blobs[k] = NoBlob THEN Miss ELSE Decoded(c, blobs[k], op[c].compressed)
<1>3. PICK r : r = result
  OBVIOUS
<1> DEFINE sure == k \notin unsure /\ c \notin met
           o == [kind |-> "got", key |-> k, result |-> r, expected |-> latest[k], sure |-> sure]
<1>4. DOMAIN op' = Caches /\ op'[c] = o /\ \A d \in Caches \ {c} : op'[d] = op[d]
  BY <1>0, <1>3, SetIs DEF GetRead, Answer, CacheInv
<1>5. /\ op'[c].kind = "got" /\ op'[c].result = r /\ op'[c].expected = latest[k]
      /\ op'[c].sure = sure
  <2> HIDE DEF sure
  <2> QED
    BY <1>4
<1>6. OpTyped(c)'
  BY <1>5 DEF OpTyped, OneKeyKinds
<1>7. Handles(c)' = {}
  BY <1>5, <1>6, HandlesNow
<1>8. ASSUME sure
      PROVE  r.hit /\ r.bytes.data = latest[k] /\ (r.bytes.packed => c \notin Compressing)
  <2>1. k \in DOMAIN cacheEntries /\ op[c].compressed = cacheEntries[k].compressed
    BY <1>0, <1>1, <1>2, <1>8 DEF OpKnows
  <2>2. \A d \in Caches : Midway(d) => k \notin Handles(d)
    BY <1>1, <1>2, <1>8 DEF CacheInv, MeetOK, Midway
  <2>3. blobs[k] = [data |-> latest[k], packed |-> op[c].compressed] /\ latest[k] # "none"
    BY <1>2, <1>8, <2>1, <2>2 DEF KeyOK
  <2>4. blobs[k] # NoBlob
    <3>1. blobs[k].data # NoBlob.data
      BY <2>3 DEF NoBlob
    <3> QED
      BY <3>1
  <2>5. r = Decoded(c, [data |-> latest[k], packed |-> op[c].compressed], op[c].compressed)
    BY <1>3, <2>3, <2>4
  <2> QED
    BY <2>5, DecodedIs
<1>9. HitOK(c)'
  <2> HIDE DEF sure
  <2> QED
    BY <1>5, <1>8 DEF HitOK
<1>10. OpOK(c)'
  BY <1>5, <1>6, <1>9 DEF OpOK, OpKnows, OneKeyKinds
<1> QED
  BY <1>1, <1>4, <1>5, <1>7, <1>10, ReadsStay

LEMMA PurgeFileStep ==
    ASSUME CacheInv, NEW c \in Caches, PurgeFile(c)
    PROVE  CacheInv'
<1>1. op[c].kind = "sweep" /\ UNCHANGED <<ops, latest, unsure, met, cacheEntries>>
  BY DEF PurgeFile
<1>2. OpTyped(c) /\ OpKnows(c) /\ op[c].left \subseteq CacheKey /\ Handles(c) = CacheKey
  BY <1>1, HandlesOf DEF CacheInv, OpOK, OpTyped
<1>3. PICK k \in op[c].left :
        /\ \/ blobs' = [blobs EXCEPT ![k] = NoBlob] /\ halfGone' = halfGone \cup {k}
           \/ UNCHANGED <<blobs, halfGone>>
        /\ Set(c, [kind |-> "sweep", left |-> op[c].left \ {k}])
  BY DEF PurgeFile
<1>4. /\ DOMAIN op' = Caches /\ op'[c] = [kind |-> "sweep", left |-> op[c].left \ {k}]
      /\ \A d \in Caches \ {c} : op'[d] = op[d]
  BY <1>3, SetIs DEF CacheInv
<1>5. op'[c].kind = "sweep" /\ op'[c].left \subseteq CacheKey
  BY <1>2, <1>4
<1>6. OpTyped(c)'
  BY <1>5 DEF OpTyped, OneKeyKinds
<1>7. Handles(c)' = CacheKey /\ Midway(c)'
  BY <1>5, <1>6, HandlesNow DEF Midway
<1>8. OpOK(c)'
  BY <1>5, <1>6 DEF OpOK, OpKnows, HitOK, OneKeyKinds
<1>9. CacheTypes'
  <2>1. NoBlob \in Blob
    BY DEF NoBlob, Blob
  <2>2. CASE blobs' = [blobs EXCEPT ![k] = NoBlob] /\ halfGone' = halfGone \cup {k}
    BY <1>1, <1>2, <1>4, <2>1, <2>2 DEF CacheInv, CacheTypes
  <2>3. CASE UNCHANGED <<blobs, halfGone>>
    BY <1>1, <1>4, <2>3 DEF CacheInv, CacheTypes
  <2> QED
    BY <1>3, <2>2, <2>3
<1>10. MeetOK' /\ \A d \in Caches \ {c} : OpOK(d)'
  BY <1>1, <1>2, <1>4, <1>6, <1>7, CallMoves
<1>11. ASSUME NEW j \in CacheKey
       PROVE  KeyOK(j)'
  <2>1. KeyOK(j)
    BY DEF CacheInv
  <2>2. ~ \A d \in Caches : Midway(d)' => j \notin Handles(d)'
    BY <1>7
  <2>3. blobs'[j] = NoBlob => blobs[j] = NoBlob \/ j \in halfGone'
    BY <1>3 DEF CacheInv, CacheTypes
  <2>4. halfGone \subseteq halfGone'
    BY <1>3
  <2> QED
    BY <1>1, <2>1, <2>2, <2>3, <2>4 DEF KeyOK
<1> QED
  BY <1>8, <1>9, <1>10, <1>11 DEF CacheInv

\* Without rows, a key has nothing to agree with.
LEMMA NothingLeft ==
    ASSUME NEW k \in CacheKey, PurgeCache, NothingCached
    PROVE  KeyOK(k)'
<1>1. DOMAIN cacheEntries' = {} /\ latest'[k] = "none"
  BY DEF PurgeCache, NoRows, NothingCached
<1> QED
  BY <1>1 DEF KeyOK

LEMMA PurgeRowsStep ==
    ASSUME CacheInv, NEW c \in Caches, PurgeRows(c)
    PROVE  CacheInv'
<1>1. /\ op[c].kind = "sweep" /\ PurgeCache /\ NothingCached
      /\ DOMAIN op' = Caches /\ op'[c] = NoOp /\ \A d \in Caches \ {c} : op'[d] = op[d]
      /\ unsure' = IF c \in met THEN unsure ELSE unsure \ CacheKey
      /\ met' = met \ {c} /\ UNCHANGED <<blobs, ops>>
  BY SetIs DEF PurgeRows, CacheInv, Settle
<1>2. OpTyped(c) /\ Handles(c) = CacheKey
  BY <1>1, HandlesOf DEF CacheInv, OpOK
<1>3. op'[c].kind = "none" /\ OpTyped(c)'
  BY <1>1 DEF NoOp, OpTyped, OneKeyKinds
<1>4. Handles(c)' = {}
  BY <1>3, HandlesNow
<1>5. OpOK(c)'
  BY <1>3 DEF OpOK, OpKnows, HitOK, OneKeyKinds
<1>6. CacheTypes'
  BY <1>1 DEF CacheInv, CacheTypes, PurgeCache, NoRows, NothingCached
<1>7. MeetOK' /\ \A d \in Caches \ {c} : OpOK(d)'
  BY <1>1, <1>2, <1>3, <1>4, CallMoves
<1> QED
  BY <1>1, <1>5, <1>6, <1>7, NothingLeft DEF CacheInv

LEMMA CliPurgeStep ==
    ASSUME CacheInv, CliPurge
    PROVE  CacheInv'
<1>1. /\ ops < MaxOps /\ ops' = ops + 1 /\ PurgeCache /\ NothingCached
      /\ unsure' = unsure \cup UNION {Handles(d) : d \in Caches}
      /\ met' = met \cup {d \in Caches : Handles(d) # {}}
      /\ UNCHANGED <<blobs, op>>
  BY DEF CliPurge
<1>2. \A d \in Caches : /\ OpTyped(d)' /\ HitOK(d)' /\ Handles(d)' = Handles(d)
                        /\ Handles(d) \subseteq CacheKey
  BY <1>1, OpSame, HandlesOf DEF CacheInv, OpOK
<1>3. \A d \in Caches : Handles(d) \subseteq unsure' /\ (Handles(d) # {} => d \in met')
  BY <1>1
<1>4. CacheTypes'
  <2>1. ops' \in 0 .. MaxOps
    BY <1>1, CacheAssumption DEF CacheInv, CacheTypes
  <2>2. unsure' \subseteq CacheKey /\ met' \subseteq Caches
    BY <1>1, <1>2 DEF CacheInv, CacheTypes
  <2> QED
    BY <1>1, <2>1, <2>2 DEF CacheInv, CacheTypes, PurgeCache, NoRows, NothingCached
<1>5. MeetOK'
  BY <1>2, <1>3 DEF MeetOK
<1>6. ASSUME NEW d \in Caches
      PROVE  OpOK(d)'
  <2>1. op'[d].kind \in OneKeyKinds => Handles(d) = {op'[d].key}
    BY <1>1, <1>2, HandlesOf DEF CacheInv, OpOK
  <2>2. op'[d].kind \in OneKeyKinds => d \in met' /\ op'[d].key \in unsure'
    BY <1>3, <2>1
  <2>3. OpKnows(d)'
    BY <2>2 DEF OpKnows, OneKeyKinds
  <2> QED
    BY <1>2, <2>3 DEF OpOK
<1> QED
  BY <1>1, <1>4, <1>5, <1>6, NothingLeft DEF CacheInv

LEMMA CacheKillStep ==
    ASSUME CacheInv, NEW c \in Caches, CacheKill(c)
    PROVE  CacheInv'
<1>1. /\ DOMAIN op' = Caches /\ op'[c] = NoOp /\ \A d \in Caches \ {c} : op'[d] = op[d]
      /\ unsure' = unsure \cup (IF op[c].kind \in {"lookup", "read", "create", "unlink"}
                                THEN {} ELSE Handles(c))
      /\ met' = met \ {c}
      /\ UNCHANGED <<blobs, ops, latest, halfGone, cacheEntries>>
  BY SetIs DEF CacheKill, CacheInv
<1>2. OpTyped(c) /\ Handles(c) \subseteq CacheKey
  BY HandlesOf DEF CacheInv, OpOK
<1>3. op'[c].kind = "none" /\ OpTyped(c)'
  BY <1>1 DEF NoOp, OpTyped, OneKeyKinds
<1>4. Handles(c)' = {}
  BY <1>3, HandlesNow
<1>5. OpOK(c)'
  BY <1>3 DEF OpOK, OpKnows, HitOK, OneKeyKinds
<1>6. CacheTypes'
  BY <1>1, <1>2 DEF CacheInv, CacheTypes
<1>7. \A j \in CacheKey \ Handles(c) : Untouched(j)
  BY <1>1 DEF Untouched
<1>8. /\ MeetOK' /\ \A d \in Caches \ {c} : OpOK(d)'
      /\ \A j \in CacheKey \ Handles(c) : KeyOK(j)'
  BY <1>1, <1>3, <1>4, <1>7, CallMoves
<1>9. ASSUME NEW k \in Handles(c)
      PROVE  KeyOK(k)'
  <2>1. KeyOK(k)
    BY <1>2 DEF CacheInv
  <2>2. ASSUME k \notin unsure', \A d \in Caches : Midway(d)' => k \notin Handles(d)'
        PROVE  k \notin unsure /\ \A d \in Caches : Midway(d) => k \notin Handles(d)
    <3>1. op[c].kind \in {"lookup", "read", "create", "unlink"}
      BY <1>1, <1>9, <2>2
    <3>2. ~Midway(c)
      BY <3>1 DEF Midway
    <3>3. \A d \in Caches \ {c} : Handles(d)' = Handles(d) /\ (Midway(d)' <=> Midway(d))
      BY <1>1, OpSame
    <3> QED
      BY <1>1, <2>2, <3>2, <3>3
  <2>3. unsure \subseteq unsure'
    BY <1>1
  <2> QED
    BY <1>1, <2>1, <2>2, <2>3 DEF KeyOK
<1> QED
  BY <1>2, <1>5, <1>6, <1>8, <1>9 DEF CacheInv

LEMMA CacheStep == CacheInv /\ [CacheNext]_<<dbVars, cacheVars>> => CacheInv'
<1> SUFFICES ASSUME CacheInv, [CacheNext]_<<dbVars, cacheVars>>
             PROVE  CacheInv'
  OBVIOUS
<1>1. CASE UNCHANGED <<dbVars, cacheVars>>
  <2>1. UNCHANGED <<cacheEntries, blobs, op, ops, latest, unsure, met, halfGone>>
    BY <1>1 DEF dbVars, tables, cacheVars
  <2>2. CacheTypes'
    BY <2>1 DEF CacheInv, CacheTypes
  <2>3. \A c \in Caches : Handles(c)' = Handles(c) /\ (Midway(c)' <=> Midway(c))
    BY <2>1, OpSame
  <2>4. MeetOK'
    BY <2>1, <2>3 DEF CacheInv, MeetOK
  <2>5. ASSUME NEW c \in Caches PROVE OpOK(c)'
    BY <2>1, <2>5, OpSame DEF CacheInv, OpOK, OpKnows, Packs
  <2>6. ASSUME NEW k \in CacheKey PROVE KeyOK(k)'
    BY <2>1, <2>3, <2>6 DEF CacheInv, KeyOK
  <2> QED
    BY <2>2, <2>4, <2>5, <2>6 DEF CacheInv
<1>2. ASSUME NEW c \in Caches,
             \/ PutBegin(c) \/ PutCreate(c) \/ PutWrite(c) \/ PutUpsert(c)
             \/ GetBegin(c) \/ GetLookup(c) \/ GetRead(c)
             \/ RemoveBegin(c) \/ RemoveFile(c) \/ RemoveRow(c)
             \/ PurgeBegin(c) \/ PurgeFile(c) \/ PurgeRows(c)
             \/ CacheKill(c)
      PROVE  CacheInv'
  BY <1>2, CallsBegin, PutCreateStep, PutWriteStep, PutUpsertStep, GetLookupStep, GetReadStep,
     RemoveFileStep, RemoveRowStep, PurgeFileStep, PurgeRowsStep, CacheKillStep
<1>3. CASE CliPurge
  BY <1>3, CliPurgeStep
<1> QED
  BY <1>1, <1>2, <1>3 DEF CacheNext

LEMMA CacheInvSound == CacheInv => CacheTypeOK /\ CacheSound
<1> SUFFICES ASSUME CacheInv
             PROVE  CacheTypeOK /\ CacheSound
  OBVIOUS
<1>1. CacheTypeOK
  BY DEF CacheInv, CacheTypes, OpOK, OpTyped, OneKeyKinds, Blob, CacheTypeOK
<1>2. HitIsLastPut
  BY DEF CacheInv, OpOK, HitOK, HitIsLastPut
<1>3. RowHasFile
  BY DEF CacheInv, CacheTypes, KeyOK, RowHasFile
<1> QED
  BY <1>1, <1>2, <1>3 DEF CacheSound

\* Type correctness of the binary cache.
THEOREM CacheTypesHold == CacheSpec => []CacheTypeOK
<1> QED
  BY CacheInitHolds, CacheStep, CacheInvSound, PTL DEF CacheSpec

\* However the clients' calls, their deaths and `cache purge` interleave, a Get that
\* nothing disturbed returns what was put last, and a row has its file.
THEOREM CacheSoundCorrect == CacheSpec => []CacheSound
<1> QED
  BY CacheInitHolds, CacheStep, CacheInvSound, PTL DEF CacheSpec

-----------------------------------------------------------------------------
(* The plugin manager                                                      *)

Cells == PluginNames \cup {NoPlugin}
SliceRec == [arr : Nat, len : Nat]
ExecRec == [at : {"running", "done", "failed"}, slice : SliceRec, ran : Seq(Cells),
            had : Seq(Cells), known : SUBSET PluginNames, moved : BOOLEAN]

SliceOK(s) == s.arr <= Len(arrays) /\ s.len <= (IF s.arr = 0 THEN 0 ELSE Len(arrays[s.arr]))

PluginTypes ==
    /\ registered \subseteq PluginNames
    /\ arrays \in Seq(Seq(Cells)) /\ slices \in [Hooks -> SliceRec]
    /\ DOMAIN exec = Callers /\ \A c \in Callers : exec[c].at = "idle" \/ exec[c] \in ExecRec
    /\ regs \in 0 .. MaxRegs /\ execs \in 0 .. MaxExecs /\ crashed \in BOOLEAN

\* While a plugin is removed, a cell of its hook's list is one that is to be filled.
LockOK ==
    \/ lock = Unlocked
    \/ /\ lock \in [name : PluginNames, next : Nat]
       /\ lock.next \in 1 .. slices[HooksOf[lock.name]].len

Gap(h) == IF lock # Unlocked /\ HooksOf[lock.name] = h THEN {lock.next} ELSE {}
Filled(h) == (1 .. slices[h].len) \ Gap(h)

\* The other cells hold the registered plugins of the hook, each once; and no two
\* hooks have the same array.
ListOK(h) ==
    /\ SliceOK(slices[h])
    /\ \A i \in Filled(h) : /\ arrays[slices[h].arr][i] \in registered
                            /\ HooksOf[arrays[slices[h].arr][i]] = h
    /\ \A i, j \in Filled(h) : arrays[slices[h].arr][i] = arrays[slices[h].arr][j] => i = j
    /\ \A p \in registered : HooksOf[p] = h => \E i \in Filled(h) : arrays[slices[h].arr][i] = p
    /\ \A g \in Hooks : slices[g].arr = slices[h].arr /\ slices[h].arr # 0 => g = h

\* What an Execute has run, and what it has still to run: if nothing was moved, the
\* cells of its slice are as they were, and no list over them has become shorter.
RanOK(e) ==
    /\ Len(e.ran) <= e.slice.len
    /\ \A i \in DOMAIN e.ran : e.ran[i] \in e.known
    /\ ~e.moved => /\ Len(e.had) = e.slice.len
                   /\ \A i \in DOMAIN e.ran : e.ran[i] = e.had[i]
                   /\ e.at = "done" => Len(e.ran) = Len(e.had)

RunningOK(e) ==
    /\ SliceOK(e.slice)
    /\ registered \subseteq e.known
    /\ \A i \in 1 .. e.slice.len : arrays[e.slice.arr][i] \in e.known
    /\ ~e.moved => /\ lock = Unlocked
                   /\ \A i \in 1 .. e.slice.len : arrays[e.slice.arr][i] = e.had[i]
                   /\ \A h \in Hooks : slices[h].arr = e.slice.arr => e.slice.len <= slices[h].len

ExecOK(c) ==
    /\ exec[c].at # "idle" => RanOK(exec[c])
    /\ exec[c].at = "running" => RunningOK(exec[c])

PluginInv ==
    /\ PluginTypes /\ LockOK
    /\ \A h \in Hooks : ListOK(h)
    /\ \A c \in Callers : ExecOK(c)
    /\ crashed => \E c \in Callers : exec[c].at = "running" /\ exec[c].moved

LEMMA PluginInitHolds == PluginInit => PluginInv
<1> SUFFICES ASSUME PluginInit PROVE PluginInv
  OBVIOUS
<1> USE DEF PluginInit, NoExec
<1>1. Len(arrays) = 0 /\ arrays \in Seq(Seq(Cells))
  OBVIOUS
<1>2. PluginTypes
  <2>1. slices \in [Hooks -> SliceRec]
    BY DEF SliceRec
  <2>2. DOMAIN exec = Callers /\ \A c \in Callers : exec[c].at = "idle"
    OBVIOUS
  <2>3. regs \in 0 .. MaxRegs /\ execs \in 0 .. MaxExecs
    <3>1. regs = 0 /\ execs = 0 /\ MaxRegs \in Nat /\ MaxExecs \in Nat
      BY PluginsAssumption
    <3> QED
      BY <3>1
  <2>4. registered \subseteq PluginNames /\ crashed \in BOOLEAN
    OBVIOUS
  <2> QED
    BY <1>1, <2>1, <2>2, <2>3, <2>4 DEF PluginTypes
<1>3. LockOK
  BY DEF LockOK
<1>4. ASSUME NEW h \in Hooks PROVE ListOK(h)
  <2>1. slices[h].arr = 0 /\ slices[h].len = 0 /\ Filled(h) = {}
    BY DEF Filled
  <2> QED
    BY <1>1, <2>1 DEF ListOK, SliceOK
<1>5. \A c \in Callers : ExecOK(c)
  BY DEF ExecOK
<1> QED
  BY <1>2, <1>3, <1>4, <1>5 DEF PluginInv

LEMMA PluginFields ==
    ASSUME PluginInv
    PROVE  /\ Len(arrays) \in Nat
           /\ \A a \in 1 .. Len(arrays) : /\ arrays[a] \in Seq(Cells) /\ Len(arrays[a]) \in Nat
                                          /\ \A i \in 1 .. Len(arrays[a]) : arrays[a][i] \in Cells
           /\ \A h \in Hooks : slices[h] \in SliceRec /\ slices[h].arr \in Nat /\ slices[h].len \in Nat
                               /\ SliceOK(slices[h])
           /\ \A c \in Callers : exec[c].at # "idle" => exec[c] \in ExecRec
           /\ \A p \in PluginNames : HooksOf[p] \in Hooks
<1>1. arrays \in Seq(Seq(Cells))
  BY DEF PluginInv, PluginTypes
<1>2. Len(arrays) \in Nat /\ \A a \in 1 .. Len(arrays) : arrays[a] \in Seq(Cells)
  BY <1>1, LenProperties, ElementOfSeq
<1>3. \A a \in 1 .. Len(arrays) : Len(arrays[a]) \in Nat /\ \A i \in 1 .. Len(arrays[a]) : arrays[a][i] \in Cells
  BY <1>2, LenProperties, ElementOfSeq
<1>4. \A h \in Hooks : slices[h] \in SliceRec /\ SliceOK(slices[h])
  BY DEF PluginInv, PluginTypes, ListOK
<1>5. \A c \in Callers : exec[c].at # "idle" => exec[c] \in ExecRec
  BY DEF PluginInv, PluginTypes
<1> QED
  BY <1>2, <1>3, <1>4, <1>5, PluginsAssumption DEF SliceRec

\* A slice of an array has its cells.
LEMMA CellsOf ==
    ASSUME PluginInv, NEW s \in SliceRec, SliceOK(s)
    PROVE  \A i \in 1 .. s.len : s.arr \in 1 .. Len(arrays) /\ i \in 1 .. Len(arrays[s.arr])
                                 /\ arrays[s.arr][i] \in Cells
<1>1. s.arr \in Nat /\ s.len \in Nat
  BY DEF SliceRec
<1>2. CASE s.arr = 0
  BY <1>1, <1>2 DEF SliceOK
<1>3. CASE s.arr # 0
  <2>1. s.arr \in 1 .. Len(arrays) /\ s.len <= Len(arrays[s.arr])
    BY <1>1, <1>3, PluginFields DEF SliceOK
  <2> QED
    BY <1>1, <2>1, PluginFields
<1> QED
  BY <1>2, <1>3

LEMMA ElementsIs ==
    ASSUME PluginInv, NEW s \in SliceRec, SliceOK(s)
    PROVE  /\ Elements(s) \in Seq(Cells) /\ Len(Elements(s)) = s.len
           /\ \A i \in 1 .. s.len : Elements(s)[i] = arrays[s.arr][i]
<1>1. s.arr \in Nat /\ s.len \in Nat
  BY DEF SliceRec
<1>2. CASE s.arr = 0
  <2>1. s.len = 0 /\ Elements(s) = <<>>
    BY <1>1, <1>2 DEF SliceOK, Elements
  <2> QED
    BY <2>1, EmptySeq
<1>3. CASE s.arr # 0
  <2> DEFINE a == arrays[s.arr]
             n == s.len
  <2>1. \A i \in 1 .. n : a[i] \in Cells
    BY CellsOf
  <2>2. n \in Int /\ 1 \in Int
    BY <1>1
  <2>3. Elements(s) = SubSeq(a, 1, n)
    BY <1>3 DEF Elements
  <2>4. n \in Nat
    BY <1>1
  <2> HIDE DEF a, n
  <2>5. /\ SubSeq(a, 1, n) \in Seq(Cells)
        /\ Len(SubSeq(a, 1, n)) = IF 1 <= n THEN n - 1 + 1 ELSE 0
        /\ \A i \in 1 .. n - 1 + 1 : SubSeq(a, 1, n)[i] = a[1 + i - 1]
    BY <2>1, <2>2, SubSeqProperties
  <2>6. Len(SubSeq(a, 1, n)) = n /\ \A i \in 1 .. n : SubSeq(a, 1, n)[i] = a[i]
    BY <2>4, <2>5
  <2> QED
    BY <2>3, <2>5, <2>6 DEF a, n
<1> QED
  BY <1>2, <1>3

\* A step of one caller.
LEMMA CallerMoves ==
    ASSUME PluginInv, ~crashed, NEW c \in Callers,
           UNCHANGED <<registered, arrays, slices, lock, regs, crashed>>,
           DOMAIN exec' = Callers, exec'[c] \in ExecRec, \A d \in Callers \ {c} : exec'[d] = exec[d],
           execs' \in 0 .. MaxExecs, ExecOK(c)'
    PROVE  PluginInv'
<1>1. PluginTypes'
  BY DEF PluginInv, PluginTypes
<1>2. LockOK'
  BY DEF PluginInv, LockOK
<1>3. \A h \in Hooks : ListOK(h)'
  BY DEF PluginInv, ListOK, SliceOK, Filled, Gap
<1>4. ASSUME NEW d \in Callers \ {c} PROVE ExecOK(d)'
  <2>1. exec'[d] = exec[d] /\ ExecOK(d)
    BY DEF PluginInv
  <2>2. RanOK(exec[d]) => RanOK(exec[d])'
    BY <2>1 DEF RanOK
  <2>3. RunningOK(exec[d]) => RunningOK(exec[d])'
    BY <2>1 DEF RunningOK, SliceOK
  <2> QED
    BY <2>1, <2>2, <2>3 DEF ExecOK
<1> QED
  BY <1>1, <1>2, <1>3, <1>4 DEF PluginInv

LEMMA ExecuteBeginStep ==
    ASSUME PluginInv, ~crashed, NEW c \in Callers, ExecuteBegin(c)
    PROVE  PluginInv'
<1>1. /\ lock = Unlocked /\ execs < MaxExecs /\ execs' = execs + 1
      /\ UNCHANGED <<registered, arrays, slices, lock, regs, crashed>>
  BY DEF ExecuteBegin
<1>2. PICK h \in Hooks :
        exec' = [exec EXCEPT ![c] = [at |-> "running", slice |-> slices[h], ran |-> <<>>,
                    had |-> Elements(slices[h]), known |-> registered, moved |-> FALSE]]
  BY DEF ExecuteBegin
<1>3. PICK e : e = [at |-> "running", slice |-> slices[h], ran |-> <<>>,
                    had |-> Elements(slices[h]), known |-> registered, moved |-> FALSE]
  OBVIOUS
<1>4. DOMAIN exec' = Callers /\ exec'[c] = e /\ \A d \in Callers \ {c} : exec'[d] = exec[d]
  BY <1>2, <1>3 DEF PluginInv, PluginTypes
<1>5. slices[h] \in SliceRec /\ SliceOK(slices[h]) /\ slices[h].arr \in Nat /\ slices[h].len \in Nat
  BY PluginFields
<1>6. /\ Elements(slices[h]) \in Seq(Cells) /\ Len(Elements(slices[h])) = slices[h].len
      /\ \A i \in 1 .. slices[h].len : Elements(slices[h])[i] = arrays[slices[h].arr][i]
  BY <1>5, ElementsIs
<1>7. e \in ExecRec
  <2>1. <<>> \in Seq(Cells)
    BY EmptySeq
  <2> QED
    BY <1>3, <1>5, <1>6, <2>1 DEF PluginInv, PluginTypes, ExecRec
<1>8. RanOK(e)
  <2>1. DOMAIN e.ran = {} /\ Len(e.ran) = 0
    BY <1>3
  <2> QED
    BY <1>3, <1>5, <1>6, <2>1 DEF RanOK
<1>9. RunningOK(e)
  <2>1. \A i \in 1 .. slices[h].len : arrays[slices[h].arr][i] \in registered
    BY <1>1 DEF PluginInv, ListOK, Filled, Gap
  <2>2. \A g \in Hooks : slices[g].arr = slices[h].arr => slices[h].len <= slices[g].len
    <3> SUFFICES ASSUME NEW g \in Hooks, slices[g].arr = slices[h].arr
                 PROVE  slices[h].len <= slices[g].len
      OBVIOUS
    <3>1. CASE slices[h].arr = 0
      BY <1>5, <3>1, PluginFields DEF SliceOK
    <3>2. CASE slices[h].arr # 0
      BY <1>5, <3>2 DEF PluginInv, ListOK
    <3> QED
      BY <3>1, <3>2
  <2> QED
    BY <1>1, <1>3, <1>5, <1>6, <2>1, <2>2 DEF RunningOK
<1>10. ExecOK(c)'
  BY <1>1, <1>4, <1>8, <1>9 DEF ExecOK, RanOK, RunningOK, SliceOK
<1>11. execs' \in 0 .. MaxExecs
  BY <1>1, PluginsAssumption DEF PluginInv, PluginTypes
<1> QED
  BY <1>1, <1>4, <1>7, <1>10, <1>11, CallerMoves

LEMMA ExecutePluginStep ==
    ASSUME PluginInv, ~crashed, NEW c \in Callers, ExecutePlugin(c)
    PROVE  PluginInv'
<1>0. PICK e : e = exec[c]
  OBVIOUS
<1> DEFINE n == Len(e.ran) + 1
           p == arrays[e.slice.arr][n]
<1>1. /\ e.at = "running" /\ Len(e.ran) < e.slice.len
      /\ UNCHANGED <<registered, arrays, slices, lock, regs, execs, crashed>>
  BY <1>0 DEF ExecutePlugin
<1>2. PICK newAt \in {"running", "failed"} :
        exec' = [exec EXCEPT ![c].ran = Append(@, arrays[exec[c].slice.arr][Len(exec[c].ran) + 1]),
                             ![c].at = newAt]
  BY DEF ExecutePlugin
<1>3. /\ e \in ExecRec /\ e.slice \in SliceRec /\ e.slice.arr \in Nat /\ e.slice.len \in Nat
      /\ RanOK(e) /\ RunningOK(e) /\ SliceOK(e.slice) /\ Len(e.ran) \in Nat
      /\ e.ran \in Seq(Cells) /\ e.had \in Seq(Cells)
  <2>1. e \in ExecRec /\ RanOK(e) /\ RunningOK(e)
    BY <1>0, <1>1, PluginFields DEF PluginInv, ExecOK
  <2> QED
    BY <2>1, LenProperties DEF ExecRec, SliceRec, RunningOK
<1>4. n \in 1 .. e.slice.len /\ p \in Cells /\ p \in e.known
  <2>1. n \in 1 .. e.slice.len
    BY <1>1, <1>3
  <2> QED
    BY <1>3, <2>1, CellsOf DEF RunningOK
<1>5. /\ Append(e.ran, p) \in Seq(Cells) /\ Len(Append(e.ran, p)) = n
      /\ \A i \in 1 .. Len(e.ran) : Append(e.ran, p)[i] = e.ran[i]
      /\ Append(e.ran, p)[n] = p
  BY <1>3, <1>4, AppendProperties
<1>6. PICK f : f = [e EXCEPT !.ran = Append(e.ran, p), !.at = newAt]
  OBVIOUS
<1>7. DOMAIN exec' = Callers /\ exec'[c] = f /\ \A d \in Callers \ {c} : exec'[d] = exec[d]
  BY <1>0, <1>2, <1>6 DEF PluginInv, PluginTypes
<1>8. /\ f \in ExecRec /\ f.at = newAt /\ f.ran = Append(e.ran, p)
      /\ f.slice = e.slice /\ f.had = e.had /\ f.known = e.known /\ f.moved = e.moved
  BY <1>3, <1>5, <1>6 DEF ExecRec
<1> HIDE DEF n, p
<1>9. Len(f.ran) = n /\ DOMAIN f.ran = 1 .. n
      /\ \A i \in 1 .. n : f.ran[i] = IF i = n THEN p ELSE e.ran[i]
  <2>1. DOMAIN f.ran = 1 .. Len(f.ran)
    BY <1>5, <1>8, LenProperties
  <2> QED
    BY <1>3, <1>5, <1>8, <2>1 DEF n
<1>10. DOMAIN e.ran = 1 .. n - 1
  BY <1>3, LenProperties DEF n
<1>11. RanOK(f)
  <2>1. Len(f.ran) <= f.slice.len
    BY <1>4, <1>8, <1>9
  <2>2. \A i \in DOMAIN f.ran : f.ran[i] \in f.known
    BY <1>3, <1>4, <1>8, <1>9, <1>10 DEF RanOK
  <2>3. ASSUME ~f.moved
        PROVE  /\ Len(f.had) = f.slice.len
               /\ \A i \in DOMAIN f.ran : f.ran[i] = f.had[i]
               /\ f.at = "done" => Len(f.ran) = Len(f.had)
    <3>1. p = e.had[n]
      BY <1>3, <1>4, <1>8, <2>3 DEF RunningOK, p
    <3> QED
      BY <1>2, <1>3, <1>8, <1>9, <1>10, <2>3, <3>1 DEF RanOK
  <2> QED
    BY <2>1, <2>2, <2>3 DEF RanOK
<1>12. RunningOK(f)
  BY <1>3, <1>8 DEF RunningOK
<1>13. ExecOK(c)'
  BY <1>1, <1>7, <1>11, <1>12 DEF ExecOK, RanOK, RunningOK, SliceOK
<1>14. execs' \in 0 .. MaxExecs
  BY <1>1 DEF PluginInv, PluginTypes
<1> QED
  BY <1>1, <1>7, <1>8, <1>13, <1>14, CallerMoves

LEMMA ExecuteEndStep ==
    ASSUME PluginInv, ~crashed, NEW c \in Callers, ExecuteEnd(c)
    PROVE  PluginInv'
<1>0. PICK e : e = exec[c]
  OBVIOUS
<1>1. /\ e.at = "running" /\ Len(e.ran) = e.slice.len /\ exec' = [exec EXCEPT ![c].at = "done"]
      /\ UNCHANGED <<registered, arrays, slices, lock, regs, execs, crashed>>
  BY <1>0 DEF ExecuteEnd
<1>2. e \in ExecRec /\ RanOK(e)
  BY <1>0, <1>1, PluginFields DEF PluginInv, ExecOK
<1>3. PICK f : f = [e EXCEPT !.at = "done"]
  OBVIOUS
<1>4. DOMAIN exec' = Callers /\ exec'[c] = f /\ \A d \in Callers \ {c} : exec'[d] = exec[d]
  BY <1>0, <1>1, <1>3 DEF PluginInv, PluginTypes
<1>5. /\ f \in ExecRec /\ f.at = "done" /\ f.ran = e.ran
      /\ f.slice = e.slice /\ f.had = e.had /\ f.known = e.known /\ f.moved = e.moved
  BY <1>2, <1>3 DEF ExecRec
<1>6. RanOK(f)
  BY <1>1, <1>2, <1>5 DEF RanOK
<1>7. ExecOK(c)'
  BY <1>4, <1>5, <1>6 DEF ExecOK, RanOK
<1>8. execs' \in 0 .. MaxExecs
  BY <1>1 DEF PluginInv, PluginTypes
<1> QED
  BY <1>1, <1>4, <1>5, <1>7, <1>8, CallerMoves

\* Whoever runs while a plugin is being removed has noticed.
LEMMA ExecuteTornStep ==
    ASSUME PluginInv, ~crashed, NEW c \in Callers, ExecuteTorn(c)
    PROVE  PluginInv'
<1>1. /\ lock # Unlocked /\ exec[c].at = "running" /\ crashed' = TRUE
      /\ UNCHANGED <<registered, arrays, slices, lock, exec, regs, execs>>
  BY DEF ExecuteTorn, Reads
<1>2. exec[c].moved
  BY <1>1 DEF PluginInv, ExecOK, RunningOK
<1>3. PluginTypes' /\ LockOK'
  BY <1>1 DEF PluginInv, PluginTypes, LockOK
<1>4. \A h \in Hooks : ListOK(h)'
  BY <1>1 DEF PluginInv, ListOK, SliceOK, Filled, Gap
<1>5. \A d \in Callers : ExecOK(d)'
  BY <1>1 DEF PluginInv, ExecOK, RanOK, RunningOK, SliceOK
<1> QED
  BY <1>1, <1>2, <1>3, <1>4, <1>5 DEF PluginInv

\* An Execute under way that only learns more, or that something was moved.
LEMMA Learns ==
    ASSUME PluginInv, NEW c \in Callers, exec[c].at = "running",
           NEW names \in SUBSET PluginNames, NEW f,
           f = [exec[c] EXCEPT !.known = @ \cup names] \/ f = [exec[c] EXCEPT !.moved = TRUE]
    PROVE  /\ f \in ExecRec /\ f.at = "running" /\ f.slice = exec[c].slice /\ f.had = exec[c].had
           /\ f.ran = exec[c].ran /\ exec[c].known \subseteq f.known
           /\ exec[c].moved => f.moved
           /\ RanOK(f)
<1>0. PICK e : e = exec[c]
  OBVIOUS
<1>1. e \in ExecRec /\ RanOK(e) /\ e.at = "running"
  BY <1>0, PluginFields DEF PluginInv, ExecOK
<1>2. CASE f = [e EXCEPT !.known = e.known \cup names]
  <2>1. /\ f \in ExecRec /\ f.at = "running" /\ f.slice = e.slice /\ f.had = e.had
        /\ f.ran = e.ran /\ f.known = e.known \cup names /\ f.moved = e.moved
    BY <1>1, <1>2 DEF ExecRec
  <2> QED
    BY <1>0, <1>1, <2>1 DEF RanOK
<1>3. CASE f = [e EXCEPT !.moved = TRUE]
  <2>1. /\ f \in ExecRec /\ f.at = "running" /\ f.slice = e.slice /\ f.had = e.had
        /\ f.ran = e.ran /\ f.known = e.known /\ f.moved = TRUE
    BY <1>1, <1>3 DEF ExecRec
  <2> QED
    BY <1>0, <1>1, <2>1 DEF RanOK
<1> QED
  BY <1>0, <1>2, <1>3

\* The others keep what they ran.
LEMMA RanStays ==
    ASSUME PluginInv, NEW c \in Callers, exec[c].at # "running", exec'[c] = exec[c]
    PROVE  ExecOK(c)' /\ (exec'[c].at = "idle" \/ exec'[c] \in ExecRec)
<1>1. RanOK(exec[c]) => RanOK(exec[c])'
  BY DEF RanOK
<1> QED
  BY <1>1 DEF PluginInv, PluginTypes, ExecOK

LEMMA UnregisterBeginStep ==
    ASSUME PluginInv, ~crashed, NEW p \in PluginNames, UnregisterBegin(p)
    PROVE  PluginInv'
<1>0. PICK h0 \in Hooks : h0 = HooksOf[p]
  BY PluginFields
<1>1. PICK n : n = PlaceOf(p, slices[h0])
  OBVIOUS
<1>2. /\ lock = Unlocked /\ p \in registered /\ registered' = registered \ {p}
      /\ lock' = [name |-> p, next |-> n]
      /\ exec' = [c \in Callers |-> IF exec[c].at = "running" THEN [exec[c] EXCEPT !.moved = TRUE]
                                                              ELSE exec[c]]
      /\ UNCHANGED <<arrays, slices, regs, execs, crashed>>
  BY <1>0, <1>1 DEF UnregisterBegin
<1>3. \A h \in Hooks : /\ Filled(h) = 1 .. slices[h].len
                       /\ slices[h] \in SliceRec /\ SliceOK(slices[h]) /\ slices[h].len \in Nat
  BY <1>2, PluginFields DEF Filled, Gap
<1>4. n \in 1 .. slices[h0].len /\ arrays[slices[h0].arr][n] = p
  <2>1. \A i \in 1 .. slices[h0].len : Elements(slices[h0])[i] = arrays[slices[h0].arr][i]
    BY <1>3, ElementsIs
  <2>2. \E i \in 1 .. slices[h0].len : Elements(slices[h0])[i] = p
    BY <1>0, <1>2, <1>3, <2>1 DEF PluginInv, ListOK
  <2>3. n \in 1 .. slices[h0].len /\ Elements(slices[h0])[n] = p
    BY <1>1, <2>2 DEF PlaceOf
  <2> QED
    BY <2>1, <2>3
<1>5. lock' # Unlocked /\ lock'.name = p /\ lock'.next = n
  <2>1. [name |-> p, next |-> n].name = p /\ Unlocked.name = NoPlugin
    BY DEF Unlocked
  <2> QED
    BY <1>2, <2>1, PluginsAssumption
<1>6. LockOK'
  BY <1>0, <1>2, <1>3, <1>4, <1>5 DEF LockOK
<1>7. \A h \in Hooks : Filled(h)' = IF h = h0 THEN (1 .. slices[h].len) \ {n} ELSE 1 .. slices[h].len
  BY <1>0, <1>2, <1>5 DEF Filled, Gap
<1>8. ASSUME NEW h \in Hooks PROVE ListOK(h)'
  <2>1. ListOK(h) /\ SliceOK(slices[h])'
    BY <1>2 DEF PluginInv, ListOK, SliceOK
  <2>2. CASE h = h0
    <3>1. \A i \in Filled(h)' : i \in Filled(h) /\ arrays[slices[h].arr][i] # p
      BY <1>3, <1>4, <1>7, <2>1, <2>2 DEF ListOK
    <3>2. \A i \in Filled(h) : arrays[slices[h].arr][i] # p => i \in Filled(h)'
      BY <1>3, <1>4, <1>7, <2>2
    <3> QED
      BY <1>2, <2>1, <3>1, <3>2 DEF ListOK
  <2>3. CASE h # h0
    <3>1. Filled(h)' = Filled(h)
      BY <1>3, <1>7, <2>3
    <3>2. \A i \in Filled(h) : arrays[slices[h].arr][i] # p
      BY <1>0, <2>1, <2>3 DEF ListOK
    <3> QED
      BY <1>2, <2>1, <3>1, <3>2 DEF ListOK
  <2> QED
    BY <2>2, <2>3
<1>9. ASSUME NEW c \in Callers
      PROVE  ExecOK(c)' /\ (exec'[c].at = "idle" \/ exec'[c] \in ExecRec)
  <2>1. CASE exec[c].at = "running"
    <3>1. exec'[c] = [exec[c] EXCEPT !.moved = TRUE]
      BY <1>2, <2>1
    <3>2. PICK f : f = exec'[c]
      OBVIOUS
    <3>3. /\ f \in ExecRec /\ f.at = "running" /\ f.slice = exec[c].slice
          /\ exec[c].known \subseteq f.known /\ RanOK(f)
      BY <2>1, <3>1, <3>2, Learns
    <3>4. f.moved
      BY <2>1, <3>1, <3>2, PluginFields DEF ExecRec
    <3>5. RunningOK(exec[c])
      BY <2>1 DEF PluginInv, ExecOK
    <3>6. RunningOK(f)'
      BY <1>2, <3>3, <3>4, <3>5 DEF RunningOK, SliceOK
    <3>7. RanOK(f)'
      BY <3>3 DEF RanOK
    <3> QED
      BY <3>2, <3>3, <3>6, <3>7 DEF ExecOK, RanOK, RunningOK, SliceOK
  <2>2. CASE exec[c].at # "running"
    BY <1>2, <2>2, RanStays
  <2> QED
    BY <2>1, <2>2
<1>10. PluginTypes'
  BY <1>2, <1>9 DEF PluginInv, PluginTypes
<1> QED
  BY <1>2, <1>6, <1>8, <1>9, <1>10 DEF PluginInv

\* Writing one cell.
LEMMA WriteCell ==
    ASSUME PluginInv, NEW a \in 1 .. Len(arrays), NEW n \in 1 .. Len(arrays[a]), NEW v \in Cells,
           arrays' = [arrays EXCEPT ![a][n] = v]
    PROVE  /\ arrays' \in Seq(Seq(Cells)) /\ Len(arrays') = Len(arrays)
           /\ \A b \in 1 .. Len(arrays) :
                /\ Len(arrays'[b]) = Len(arrays[b])
                /\ \A j \in 1 .. Len(arrays[b]) :
                      arrays'[b][j] = IF b = a /\ j = n THEN v ELSE arrays[b][j]
<1>1. arrays \in Seq(Seq(Cells)) /\ arrays[a] \in Seq(Cells)
  BY PluginFields DEF PluginInv, PluginTypes
<1>2. PICK w : w = [arrays[a] EXCEPT ![n] = v]
  OBVIOUS
<1>3. /\ w \in Seq(Cells) /\ Len(w) = Len(arrays[a])
      /\ \A j \in 1 .. Len(arrays[a]) : w[j] = IF j = n THEN v ELSE arrays[a][j]
  BY <1>1, <1>2, ExceptSeq
<1>4. arrays' = [arrays EXCEPT ![a] = w]
  BY <1>2
<1>5. /\ arrays' \in Seq(Seq(Cells)) /\ Len(arrays') = Len(arrays)
      /\ \A b \in 1 .. Len(arrays) : arrays'[b] = IF b = a THEN w ELSE arrays[b]
  <2>1. PICK T : T = Seq(Cells)
    OBVIOUS
  <2>2. arrays \in Seq(T) /\ w \in T
    BY <1>1, <1>3, <2>1
  <2>3. PICK r : r = [arrays EXCEPT ![a] = w]
    OBVIOUS
  <2>4. /\ r \in Seq(T) /\ Len(r) = Len(arrays)
        /\ \A b \in 1 .. Len(arrays) : r[b] = IF b = a THEN w ELSE arrays[b]
    BY <2>2, <2>3, ExceptSeq
  <2> QED
    BY <1>4, <2>1, <2>3, <2>4
<1> QED
  BY <1>3, <1>5

\* A slice of arrays that keep their length.
LEMMA SliceStays ==
    ASSUME NEW s \in SliceRec, SliceOK(s), Len(arrays) \in Nat, Len(arrays') \in Nat,
           Len(arrays) <= Len(arrays'),
           \A b \in 1 .. Len(arrays) : Len(arrays'[b]) = Len(arrays[b])
    PROVE  SliceOK(s)'
<1>1. s.arr \in Nat /\ s.arr <= Len(arrays)
  BY DEF SliceRec, SliceOK
<1>2. s.arr = 0 \/ s.arr \in 1 .. Len(arrays)
  BY <1>1
<1> QED
  BY <1>1, <1>2 DEF SliceOK

LEMMA MoveElementStep ==
    ASSUME PluginInv, ~crashed, MoveElement
    PROVE  PluginInv'
<1>0. PICK h0 : h0 = HooksOf[lock.name]
  OBVIOUS
<1>1. PICK n : n = lock.next
  OBVIOUS
<1>2. PICK s : s = slices[h0]
  OBVIOUS
<1>3. /\ lock # Unlocked /\ n < s.len /\ lock' = [name |-> lock.name, next |-> n + 1]
      /\ arrays' = [arrays EXCEPT ![s.arr][n] = arrays[s.arr][n + 1]]
      /\ UNCHANGED <<registered, slices, exec, regs, execs, crashed>>
  BY <1>0, <1>1, <1>2 DEF MoveElement
<1>4. lock \in [name : PluginNames, next : Nat] /\ lock.name \in PluginNames /\ n \in 1 .. s.len
  BY <1>0, <1>1, <1>2, <1>3 DEF PluginInv, LockOK
<1>5. h0 \in Hooks /\ s \in SliceRec /\ SliceOK(s) /\ s.arr \in Nat /\ s.len \in Nat /\ n \in Nat
  BY <1>0, <1>2, <1>4, PluginFields
<1>6. n + 1 \in 1 .. s.len
  BY <1>3, <1>4, <1>5
<1>7. PICK v : v = arrays[s.arr][n + 1]
  OBVIOUS
<1>8. \A h \in Hooks : Filled(h) = IF h = h0 THEN (1 .. slices[h].len) \ {n} ELSE 1 .. slices[h].len
  BY <1>0, <1>1, <1>3 DEF Filled, Gap
<1>9. s.arr \in 1 .. Len(arrays) /\ n \in 1 .. Len(arrays[s.arr]) /\ v \in Cells
  BY <1>4, <1>5, <1>6, <1>7, CellsOf
<1>10. v \in registered
  <2>1. n + 1 \in Filled(h0)
    BY <1>2, <1>4, <1>5, <1>6, <1>8
  <2> QED
    BY <1>2, <1>5, <1>7, <2>1 DEF PluginInv, ListOK
<1>11. /\ arrays' \in Seq(Seq(Cells)) /\ Len(arrays') = Len(arrays)
       /\ \A b \in 1 .. Len(arrays) :
            /\ Len(arrays'[b]) = Len(arrays[b])
            /\ \A j \in 1 .. Len(arrays[b]) :
                  arrays'[b][j] = IF b = s.arr /\ j = n THEN v ELSE arrays[b][j]
  BY <1>3, <1>7, <1>9, WriteCell, ZenonT(60)
<1>12. Len(arrays) \in Nat
  BY PluginFields
<1>13. \A t \in SliceRec : SliceOK(t) =>
          /\ SliceOK(t)'
          /\ \A i \in 1 .. t.len :
                arrays'[t.arr][i] = IF t.arr = s.arr /\ i = n THEN v ELSE arrays[t.arr][i]
  <2> SUFFICES ASSUME NEW t \in SliceRec, SliceOK(t)
               PROVE  /\ SliceOK(t)'
                      /\ \A i \in 1 .. t.len : arrays'[t.arr][i] =
                            IF t.arr = s.arr /\ i = n THEN v ELSE arrays[t.arr][i]
    OBVIOUS
  <2>1. SliceOK(t)'
    BY <1>11, <1>12, SliceStays
  <2>2. \A i \in 1 .. t.len : t.arr \in 1 .. Len(arrays) /\ i \in 1 .. Len(arrays[t.arr])
    BY CellsOf
  <2>3. ASSUME NEW i \in 1 .. t.len
        PROVE  arrays'[t.arr][i] = IF t.arr = s.arr /\ i = n THEN v ELSE arrays[t.arr][i]
    <3>1. t.arr \in 1 .. Len(arrays) /\ i \in 1 .. Len(arrays[t.arr])
      BY <2>2
    <3> QED
      BY <1>11, <3>1
  <2> QED
    BY <2>1, <2>3
<1>14. lock' # Unlocked /\ lock'.name = lock.name /\ lock'.next = n + 1
  <2>1. [name |-> lock.name, next |-> n + 1].name = lock.name /\ Unlocked.name = NoPlugin
    BY DEF Unlocked
  <2> QED
    BY <1>3, <1>4, <2>1, PluginsAssumption
<1>15. LockOK'
  BY <1>0, <1>2, <1>3, <1>4, <1>5, <1>6, <1>14 DEF LockOK
<1>16. \A h \in Hooks : Filled(h)' = IF h = h0 THEN (1 .. slices[h].len) \ {n + 1} ELSE 1 .. slices[h].len
  BY <1>0, <1>3, <1>14 DEF Filled, Gap
<1>17. ASSUME NEW h \in Hooks PROVE ListOK(h)'
  <2>0. PICK t : t = slices[h]
    OBVIOUS
  <2>1. ListOK(h) /\ SliceOK(t)' /\ t \in SliceRec /\ SliceOK(t)
    BY <1>13, <2>0, PluginFields DEF PluginInv
  <2>2. CASE h = h0
    <3>1. \A i \in 1 .. s.len : arrays'[s.arr][i] = IF i = n THEN v ELSE arrays[s.arr][i]
      BY <1>5, <1>13
    <3>2. t = s /\ Filled(h) = (1 .. s.len) \ {n} /\ Filled(h)' = (1 .. s.len) \ {n + 1}
      BY <1>2, <1>8, <1>16, <2>0, <2>2
    <3>3. \A i \in Filled(h)' : /\ arrays'[s.arr][i] \in registered
                                /\ HooksOf[arrays'[s.arr][i]] = h
      BY <1>5, <1>6, <1>7, <2>0, <2>1, <3>1, <3>2 DEF ListOK
    <3>4. \A i, j \in Filled(h)' : arrays'[s.arr][i] = arrays'[s.arr][j] => i = j
      BY <1>5, <1>6, <1>7, <2>0, <2>1, <3>1, <3>2 DEF ListOK
    <3>5. ASSUME NEW p \in registered, HooksOf[p] = h
          PROVE  \E i \in Filled(h)' : arrays'[s.arr][i] = p
      <4>1. PICK i \in Filled(h) : arrays[s.arr][i] = p
        BY <2>0, <2>1, <3>2, <3>5 DEF ListOK
      <4>2. CASE i = n + 1
        <5>1. n \in Filled(h)' /\ arrays'[s.arr][n] = p
          BY <1>4, <1>5, <1>7, <3>1, <3>2, <4>1, <4>2
        <5> QED
          BY <5>1
      <4>3. CASE i # n + 1
        BY <3>1, <3>2, <4>1, <4>3
      <4> QED
        BY <4>2, <4>3
    <3> QED
      BY <1>3, <2>0, <2>1, <3>2, <3>3, <3>4, <3>5 DEF ListOK, SliceOK
  <2>3. CASE h # h0
    <3>1. Filled(h)' = Filled(h) /\ Filled(h) = 1 .. t.len
      BY <1>8, <1>16, <2>0, <2>3
    <3>2. t.arr # s.arr
      BY <1>2, <1>5, <1>9, <2>0, <2>1, <2>3 DEF PluginInv, ListOK
    <3>3. \A i \in Filled(h) : arrays'[t.arr][i] = arrays[t.arr][i]
      BY <1>13, <2>1, <3>1, <3>2
    <3>4. \A i \in Filled(h)' : /\ arrays'[t.arr][i] = arrays[t.arr][i]
                                /\ arrays'[t.arr][i] \in registered
                                /\ HooksOf[arrays'[t.arr][i]] = h
      BY <2>0, <2>1, <3>1, <3>3 DEF ListOK
    <3>5. \A i, j \in Filled(h)' : arrays'[t.arr][i] = arrays'[t.arr][j] => i = j
      BY <2>0, <2>1, <3>1, <3>3 DEF ListOK
    <3>6. \A q \in registered : HooksOf[q] = h => \E i \in Filled(h)' : arrays'[t.arr][i] = q
      BY <2>0, <2>1, <3>1, <3>3 DEF ListOK
    <3>7. \A g \in Hooks : slices[g].arr = t.arr /\ t.arr # 0 => g = h
      BY <2>0, <2>1 DEF ListOK
    <3>8. slices' = slices /\ registered' = registered /\ SliceOK(slices[h])'
      BY <1>3, <2>0, <2>1 DEF SliceOK
    <3> QED
      BY <2>0, <3>4, <3>5, <3>6, <3>7, <3>8 DEF ListOK
  <2> QED
    BY <2>2, <2>3
<1>18. ASSUME NEW c \in Callers
       PROVE  ExecOK(c)'
  <2>1. CASE exec[c].at = "running"
    <3>0. PICK e : e = exec[c]
      OBVIOUS
    <3>1. e \in ExecRec /\ RanOK(e) /\ RunningOK(e) /\ e.slice \in SliceRec
      BY <2>1, <3>0, PluginFields DEF PluginInv, ExecOK, ExecRec
    <3>2. e.moved
      BY <1>3, <3>1 DEF RunningOK
    <3>3. SliceOK(e.slice)' /\ \A i \in 1 .. e.slice.len :
              arrays'[e.slice.arr][i] = v \/ arrays'[e.slice.arr][i] = arrays[e.slice.arr][i]
      BY <1>13, <3>1 DEF RunningOK
    <3>4. RunningOK(e)'
      BY <1>3, <1>10, <3>1, <3>2, <3>3 DEF RunningOK
    <3>5. RanOK(e)'
      BY <3>1 DEF RanOK
    <3> QED
      BY <1>3, <3>0, <3>4, <3>5 DEF ExecOK, RanOK, RunningOK, SliceOK
  <2>2. CASE exec[c].at # "running"
    BY <1>3, <2>2, RanStays
  <2> QED
    BY <2>1, <2>2
<1>19. PluginTypes'
  BY <1>3, <1>11 DEF PluginInv, PluginTypes
<1> QED
  BY <1>3, <1>15, <1>17, <1>18, <1>19 DEF PluginInv

\* Shorter lists and fewer plugins: what runs is moved, or its lists are gone.
LEMMA UnregisterEndStep ==
    ASSUME PluginInv, ~crashed, UnregisterEnd
    PROVE  PluginInv'
<1>0. PICK h0 : h0 = HooksOf[lock.name]
  OBVIOUS
<1>1. PICK s : s = slices[h0]
  OBVIOUS
<1>2. /\ lock # Unlocked /\ lock.next = s.len /\ lock' = Unlocked
      /\ slices' = [slices EXCEPT ![h0] = [s EXCEPT !.len = s.len - 1]]
      /\ UNCHANGED <<registered, arrays, exec, regs, execs, crashed>>
  BY <1>0, <1>1 DEF UnregisterEnd
<1>3. /\ lock \in [name : PluginNames, next : Nat] /\ s.len \in 1 .. s.len /\ h0 \in Hooks
      /\ s \in SliceRec /\ SliceOK(s) /\ s.arr \in Nat /\ s.len \in Nat
  <2>1. lock \in [name : PluginNames, next : Nat] /\ lock.next \in 1 .. s.len
    BY <1>0, <1>1, <1>2 DEF PluginInv, LockOK
  <2> QED
    BY <1>0, <1>1, <1>2, <2>1, PluginFields
<1>4. PICK t : t = [s EXCEPT !.len = s.len - 1]
  OBVIOUS
<1>5. t \in SliceRec /\ t.arr = s.arr /\ t.len = s.len - 1
  BY <1>3, <1>4 DEF SliceRec
<1>6. slices' \in [Hooks -> SliceRec] /\ \A h \in Hooks : slices'[h] = IF h = h0 THEN t ELSE slices[h]
  BY <1>2, <1>3, <1>4, <1>5 DEF PluginInv, PluginTypes
<1>7. \A h \in Hooks : Filled(h) = IF h = h0 THEN (1 .. s.len) \ {s.len} ELSE 1 .. slices[h].len
  BY <1>0, <1>1, <1>2 DEF Filled, Gap
<1>8. \A h \in Hooks : Filled(h)' = 1 .. slices'[h].len
  BY <1>2 DEF Filled, Gap
<1>9. ASSUME NEW h \in Hooks PROVE ListOK(h)'
  <2>1. Filled(h)' = Filled(h) /\ slices'[h].arr = slices[h].arr
    <3>1. CASE h = h0
      <4>1. slices'[h] = t /\ slices[h] = s /\ Filled(h) = (1 .. s.len) \ {s.len}
            /\ Filled(h)' = 1 .. t.len
        BY <1>1, <1>6, <1>7, <1>8, <3>1
      <4> QED
        BY <1>3, <1>5, <4>1
    <3>2. CASE h # h0
      BY <1>6, <1>7, <1>8, <3>2
    <3> QED
      BY <3>1, <3>2
  <2>2. SliceOK(slices'[h])
    <3>1. SliceOK(t)
      BY <1>3, <1>5, PluginFields DEF SliceOK
    <3> QED
      BY <1>6, <3>1, PluginFields
  <2>3. SliceOK(slices[h])'
    BY <1>2, <2>2 DEF SliceOK
  <2>4. \A g \in Hooks : slices'[g].arr = slices[g].arr
    BY <1>1, <1>5, <1>6
  <2> QED
    BY <1>2, <2>1, <2>3, <2>4 DEF PluginInv, ListOK
<1>10. ASSUME NEW c \in Callers PROVE ExecOK(c)'
  <2>1. CASE exec[c].at = "running"
    <3>0. PICK e : e = exec[c]
      OBVIOUS
    <3>1. RanOK(e) /\ RunningOK(e)
      BY <2>1, <3>0 DEF PluginInv, ExecOK
    <3>2. RunningOK(e)'
      BY <1>2, <3>1 DEF RunningOK, SliceOK
    <3>3. RanOK(e)'
      BY <3>1 DEF RanOK
    <3> QED
      BY <1>2, <3>0, <3>2, <3>3 DEF ExecOK, RanOK, RunningOK, SliceOK
  <2>2. CASE exec[c].at # "running"
    BY <1>2, <2>2, RanStays
  <2> QED
    BY <2>1, <2>2
<1>11. PluginTypes' /\ LockOK'
  BY <1>2, <1>6 DEF PluginInv, PluginTypes, LockOK
<1> QED
  BY <1>2, <1>9, <1>10, <1>11 DEF PluginInv

LEMMA PluginsClearStep ==
    ASSUME PluginInv, ~crashed, PluginsClear
    PROVE  PluginInv'
<1>1. /\ lock = Unlocked /\ regs < MaxRegs /\ regs' = regs + 1 /\ registered' = {}
      /\ slices' = [h \in Hooks |-> [arr |-> 0, len |-> 0]]
      /\ UNCHANGED <<arrays, lock, exec, execs, crashed>>
  BY DEF PluginsClear
<1>2. /\ slices' \in [Hooks -> SliceRec]
      /\ \A h \in Hooks : slices'[h].arr = 0 /\ slices'[h].len = 0
  BY <1>1 DEF SliceRec
<1>3. PluginTypes' /\ LockOK'
  <2>1. regs' \in 0 .. MaxRegs
    BY <1>1, PluginsAssumption DEF PluginInv, PluginTypes
  <2> QED
    BY <1>1, <1>2, <2>1 DEF PluginInv, PluginTypes, LockOK
<1>4. ASSUME NEW h \in Hooks PROVE ListOK(h)'
  <2>1. Filled(h)' = {} /\ SliceOK(slices[h])'
    BY <1>1, <1>2, PluginFields DEF Filled, SliceOK
  <2> QED
    BY <1>1, <1>2, <2>1 DEF ListOK
<1>5. ASSUME NEW c \in Callers PROVE ExecOK(c)'
  <2>1. CASE exec[c].at = "running"
    <3>0. PICK e : e = exec[c]
      OBVIOUS
    <3>1. RanOK(e) /\ RunningOK(e) /\ SliceOK(e.slice) /\ e.slice \in SliceRec
      BY <2>1, <3>0, PluginFields DEF PluginInv, ExecOK, RunningOK, ExecRec
    <3>2. e.slice.arr = 0 => e.slice.len = 0
      BY <3>1 DEF SliceOK, SliceRec
    <3>3. \A h \in Hooks : slices'[h].arr = e.slice.arr => e.slice.len <= slices'[h].len
      BY <1>2, <3>2
    <3>4. RunningOK(e)'
      BY <1>1, <3>1, <3>3 DEF RunningOK, SliceOK
    <3>5. RanOK(e)'
      BY <3>1 DEF RanOK
    <3> QED
      BY <1>1, <3>0, <3>4, <3>5 DEF ExecOK, RanOK, RunningOK, SliceOK
  <2>2. CASE exec[c].at # "running"
    BY <1>1, <2>2, RanStays
  <2> QED
    BY <2>1, <2>2
<1> QED
  BY <1>1, <1>3, <1>4, <1>5 DEF PluginInv

\* What append does to the arrays, in place or not: one cell behind the slice is
\* written, and the list is as it was with the plugin at its end.
Appended(h, p, s, t) ==
    /\ slices' = [slices EXCEPT ![h] = t]
    /\ t.len = s.len + 1 /\ SliceOK(t)'
    /\ (t.arr = s.arr /\ s.arr # 0) \/ t.arr = Len(arrays) + 1
    /\ arrays' \in Seq(Seq(Cells)) /\ Len(arrays) <= Len(arrays')
    /\ \A b \in 1 .. Len(arrays) :
          /\ Len(arrays'[b]) = Len(arrays[b])
          /\ \A j \in 1 .. Len(arrays[b]) :
                \/ arrays'[b][j] = arrays[b][j]
                \/ b = s.arr /\ j = s.len + 1 /\ arrays'[b][j] = p
    /\ \A j \in 1 .. s.len : arrays'[t.arr][j] = arrays[s.arr][j]
    /\ arrays'[t.arr][s.len + 1] = p

LEMMA AppendsOne ==
    ASSUME PluginInv, NEW h0 \in Hooks, NEW p \in PluginNames, h0 = HooksOf[p],
           NEW s, s = slices[h0], Append1(s, p)
    PROVE  \E t \in SliceRec : Appended(h0, p, s, t)
<1>1. /\ s \in SliceRec /\ SliceOK(s) /\ s.arr \in Nat /\ s.len \in Nat /\ Len(arrays) \in Nat
      /\ p \in Cells
  BY PluginFields DEF Cells
<1>2. CASE s.arr > 0 /\ s.len < Len(arrays[s.arr])
  <2>1. /\ arrays' = [arrays EXCEPT ![s.arr][s.len + 1] = p]
        /\ slices' = [slices EXCEPT ![h0] = [arr |-> s.arr, len |-> s.len + 1]]
    BY <1>2 DEF Append1
  <2>2. s.arr \in 1 .. Len(arrays)
    BY <1>1, <1>2 DEF SliceOK
  <2>3. Len(arrays[s.arr]) \in Nat
    BY <2>2, PluginFields
  <2>4. s.len + 1 \in 1 .. Len(arrays[s.arr])
    BY <1>1, <1>2, <2>3
  <2>5. PICK k : k = s.len + 1
    OBVIOUS
  <2>6. /\ arrays' \in Seq(Seq(Cells)) /\ Len(arrays') = Len(arrays)
        /\ \A b \in 1 .. Len(arrays) :
             /\ Len(arrays'[b]) = Len(arrays[b])
             /\ \A j \in 1 .. Len(arrays[b]) :
                   arrays'[b][j] = IF b = s.arr /\ j = k THEN p ELSE arrays[b][j]
    <3>1. PICK a : a = s.arr
      OBVIOUS
    <3>2. arrays' = [arrays EXCEPT ![a][k] = p]
      BY <2>1, <2>5, <3>1
    <3>3. a \in 1 .. Len(arrays) /\ k \in 1 .. Len(arrays[a])
      BY <2>2, <2>4, <2>5, <3>1
    <3>4. /\ arrays' \in Seq(Seq(Cells)) /\ Len(arrays') = Len(arrays)
          /\ \A b \in 1 .. Len(arrays) :
               /\ Len(arrays'[b]) = Len(arrays[b])
               /\ \A j \in 1 .. Len(arrays[b]) :
                     arrays'[b][j] = IF b = a /\ j = k THEN p ELSE arrays[b][j]
      BY <1>1, <3>2, <3>3, WriteCell, ZenonT(60)
    <3> QED
      BY <3>1, <3>4
  <2>7. PICK t : t = [arr |-> s.arr, len |-> k]
    OBVIOUS
  <2>8. t \in SliceRec /\ t.arr = s.arr /\ t.len = k /\ k \in Nat
    BY <1>1, <2>5, <2>7 DEF SliceRec
  <2>9. SliceOK(t)'
    BY <1>1, <1>2, <2>2, <2>4, <2>5, <2>6, <2>8 DEF SliceOK
  <2>10. /\ \A j \in 1 .. s.len : arrays'[t.arr][j] = arrays[s.arr][j]
         /\ arrays'[t.arr][k] = p
    <3>1. \A j \in 1 .. s.len : j \in 1 .. Len(arrays[s.arr]) /\ j # k
      BY <1>1, <1>2, <2>3, <2>5
    <3>2. \A j \in 1 .. Len(arrays[s.arr]) :
            arrays'[s.arr][j] = IF j = k THEN p ELSE arrays[s.arr][j]
      BY <2>2, <2>6
    <3>3. k \in 1 .. Len(arrays[s.arr])
      BY <2>4, <2>5
    <3> QED
      BY <2>8, <3>1, <3>2, <3>3
  <2>11. slices' = [slices EXCEPT ![h0] = t]
    BY <2>1, <2>5, <2>7
  <2>12. Len(arrays) <= Len(arrays')
    BY <1>1, <2>6
  <2>13. \A b \in 1 .. Len(arrays) :
            /\ Len(arrays'[b]) = Len(arrays[b])
            /\ \A j \in 1 .. Len(arrays[b]) :
                  \/ arrays'[b][j] = arrays[b][j]
                  \/ b = s.arr /\ j = s.len + 1 /\ arrays'[b][j] = p
    BY <2>5, <2>6
  <2>14. Appended(h0, p, s, t)
    <3>1. t.len = s.len + 1 /\ arrays'[t.arr][s.len + 1] = p /\ (t.arr = s.arr /\ s.arr # 0)
      BY <1>1, <1>2, <2>5, <2>8, <2>10
    <3>2. \A j \in 1 .. s.len : arrays'[t.arr][j] = arrays[s.arr][j]
      BY <2>10
    <3>3. arrays' \in Seq(Seq(Cells))
      BY <2>6
    <3> QED
      BY <2>9, <2>11, <2>12, <2>13, <3>1, <3>2, <3>3 DEF Appended
  <2> QED
    BY <2>8, <2>14
<1>3. CASE ~(s.arr > 0 /\ s.len < Len(arrays[s.arr]))
  <2>1. PICK room : room = IF s.len = 0 THEN 1 ELSE 2 * s.len
    OBVIOUS
  <2>2. room \in Nat /\ s.len + 1 <= room /\ s.len + 1 \in 1 .. room
    BY <1>1, <2>1
  <2>3. PICK new : new = [i \in 1 .. room |->
                IF i <= s.len THEN arrays[s.arr][i] ELSE IF i = s.len + 1 THEN p ELSE NoPlugin]
    OBVIOUS
  <2>4. /\ arrays' = Append(arrays, new)
        /\ slices' = [slices EXCEPT ![h0] = [arr |-> Len(arrays) + 1, len |-> s.len + 1]]
    BY <1>3, <2>1, <2>3 DEF Append1
  <2>5. new \in Seq(Cells) /\ Len(new) = room
    <3>1. new \in [1 .. room -> Cells]
      <4>1. \A i \in 1 .. room : i <= s.len => arrays[s.arr][i] \in Cells
        BY <1>1, CellsOf
      <4>2. NoPlugin \in Cells
        BY DEF Cells
      <4> QED
        BY <1>1, <2>3, <4>1, <4>2
    <3> QED
      BY <2>2, <3>1, FunIsSeq
  <2>6. /\ \A j \in 1 .. s.len : new[j] = arrays[s.arr][j]
        /\ new[s.len + 1] = p
    BY <1>1, <2>2, <2>3
  <2>7. /\ arrays' \in Seq(Seq(Cells)) /\ Len(arrays') = Len(arrays) + 1
        /\ \A b \in 1 .. Len(arrays) : arrays'[b] = arrays[b]
        /\ arrays'[Len(arrays) + 1] = new
    <3>1. PICK T : T = Seq(Cells)
      OBVIOUS
    <3>2. arrays \in Seq(T) /\ new \in T
      BY <2>5, <3>1 DEF PluginInv, PluginTypes
    <3> QED
      BY <2>4, <3>1, <3>2, AppendProperties
  <2>8. PICK t : t = [arr |-> Len(arrays) + 1, len |-> s.len + 1]
    OBVIOUS
  <2>9. t \in SliceRec /\ t.arr = Len(arrays) + 1 /\ t.len = s.len + 1
    BY <1>1, <2>8 DEF SliceRec
  <2>10. SliceOK(t)'
    BY <1>1, <2>2, <2>5, <2>7, <2>9 DEF SliceOK
  <2>11. slices' = [slices EXCEPT ![h0] = t]
    BY <2>4, <2>8
  <2>12. Len(arrays) <= Len(arrays')
    BY <1>1, <2>7
  <2>13. /\ \A j \in 1 .. s.len : arrays'[t.arr][j] = arrays[s.arr][j]
         /\ arrays'[t.arr][s.len + 1] = p
    BY <2>6, <2>7, <2>9
  <2>14. Appended(h0, p, s, t)
    BY <2>7, <2>9, <2>10, <2>11, <2>12, <2>13 DEF Appended
  <2> QED
    BY <2>9, <2>14
<1> QED
  BY <1>2, <1>3

LEMMA RegisterStep ==
    ASSUME PluginInv, ~crashed, NEW p \in PluginNames, Register(p)
    PROVE  PluginInv'
<1>0. PICK h0 \in Hooks : h0 = HooksOf[p]
  BY PluginFields
<1>1. PICK s : s = slices[h0]
  OBVIOUS
<1>2. lock = Unlocked /\ regs < MaxRegs /\ regs' = regs + 1 /\ UNCHANGED <<lock, execs>>
  BY DEF Register
<1>3. regs' \in 0 .. MaxRegs
  BY <1>2, PluginsAssumption DEF PluginInv, PluginTypes
<1>4. CASE p \in registered
  <2>1. UNCHANGED <<registered, arrays, slices, exec, crashed>>
    BY <1>4 DEF Register
  <2>2. PluginTypes' /\ LockOK'
    BY <1>2, <1>3, <2>1 DEF PluginInv, PluginTypes, LockOK
  <2>3. \A h \in Hooks : ListOK(h)'
    BY <1>2, <2>1 DEF PluginInv, ListOK, SliceOK, Filled, Gap
  <2>4. \A c \in Callers : ExecOK(c)'
    BY <1>2, <2>1 DEF PluginInv, ExecOK, RanOK, RunningOK, SliceOK
  <2> QED
    BY <2>1, <2>2, <2>3, <2>4 DEF PluginInv
<1>5. CASE p \notin registered
  <2>1. /\ registered' = registered \cup {p} /\ Append1(s, p) /\ exec' = Note({p})
        /\ \/ UNCHANGED crashed
           \/ (\E c \in Callers : Reads(c, s.arr, s.len + 1)) /\ crashed' = TRUE
    BY <1>0, <1>1, <1>5 DEF Register
  <2>2. PICK t \in SliceRec : Appended(h0, p, s, t)
    BY <1>0, <1>1, <2>1, AppendsOne
  <2>3. /\ Len(arrays) \in Nat /\ Len(arrays') \in Nat /\ Len(arrays) <= Len(arrays')
        /\ t.len = s.len + 1 /\ SliceOK(t)' /\ t.arr \in Nat
        /\ (t.arr = s.arr /\ s.arr # 0) \/ t.arr = Len(arrays) + 1
        /\ s \in SliceRec /\ SliceOK(s) /\ s.arr \in Nat /\ s.len \in Nat
        /\ s.arr <= Len(arrays)
    <3>1. Len(arrays') \in Nat
      BY <2>2, LenProperties DEF Appended
    <3> QED
      BY <1>1, <2>2, <3>1, PluginFields DEF Appended, SliceOK, SliceRec
  <2>4. /\ \A h \in Hooks : slices'[h] = IF h = h0 THEN t ELSE slices[h]
        /\ slices' \in [Hooks -> SliceRec]
    BY <2>2 DEF Appended, PluginInv, PluginTypes
  <2>5. \A u \in SliceRec : SliceOK(u) =>
            /\ SliceOK(u)'
            /\ \A i \in 1 .. u.len : \/ arrays'[u.arr][i] = arrays[u.arr][i]
                                     \/ u.arr = s.arr /\ i = s.len + 1 /\ arrays'[u.arr][i] = p
    <3> SUFFICES ASSUME NEW u \in SliceRec, SliceOK(u)
                 PROVE  /\ SliceOK(u)'
                        /\ \A i \in 1 .. u.len :
                              \/ arrays'[u.arr][i] = arrays[u.arr][i]
                              \/ u.arr = s.arr /\ i = s.len + 1 /\ arrays'[u.arr][i] = p
      OBVIOUS
    <3>1. SliceOK(u)'
      BY <2>2, <2>3, SliceStays DEF Appended
    <3>2. \A i \in 1 .. u.len : u.arr \in 1 .. Len(arrays) /\ i \in 1 .. Len(arrays[u.arr])
      BY CellsOf
    <3> QED
      BY <2>2, <3>1, <3>2 DEF Appended
  <2>6. \A h \in Hooks : /\ Filled(h) = 1 .. slices[h].len /\ Filled(h)' = 1 .. slices'[h].len
                         /\ slices[h] \in SliceRec /\ SliceOK(slices[h]) /\ ListOK(h)
                         /\ slices[h].arr \in Nat /\ slices[h].len \in Nat /\ slices[h].arr <= Len(arrays)
    BY <1>2, PluginFields DEF Filled, Gap, PluginInv, SliceOK
  <2>7. \A g, h \in Hooks : slices'[g].arr = slices'[h].arr /\ slices'[h].arr # 0 => g = h
    <3>1. \A g, h \in Hooks : slices[g].arr = slices[h].arr /\ slices[h].arr # 0 => g = h
      BY <2>6 DEF ListOK
    <3>2. \A g \in Hooks : slices[g].arr # Len(arrays) + 1
      BY <2>3, <2>6
    <3> QED
      BY <1>1, <2>3, <2>4, <3>1, <3>2
  <2>8. ListOK(h0)'
    <3>1. Filled(h0)' = 1 .. s.len + 1 /\ Filled(h0) = 1 .. s.len /\ slices'[h0] = t
      BY <1>1, <2>3, <2>4, <2>6
    <3>2. \A i \in 1 .. s.len + 1 :
            IF i = s.len + 1 THEN arrays'[t.arr][i] = p
            ELSE i \in 1 .. s.len /\ arrays'[t.arr][i] = arrays[s.arr][i]
      BY <2>2, <2>3 DEF Appended
    <3>3. /\ \A i \in 1 .. s.len : arrays[s.arr][i] \in registered /\ HooksOf[arrays[s.arr][i]] = h0
          /\ \A i, j \in 1 .. s.len : arrays[s.arr][i] = arrays[s.arr][j] => i = j
          /\ \A q \in registered : HooksOf[q] = h0 => \E i \in 1 .. s.len : arrays[s.arr][i] = q
      <4>1. ListOK(h0) /\ slices[h0] = s /\ Filled(h0) = 1 .. s.len
        BY <1>1, <2>6, <3>1
      <4>2. /\ \A i \in Filled(h0) : arrays[s.arr][i] \in registered /\ HooksOf[arrays[s.arr][i]] = h0
            /\ \A i, j \in Filled(h0) : arrays[s.arr][i] = arrays[s.arr][j] => i = j
        BY <4>1 DEF ListOK
      <4>3. \A q \in registered : HooksOf[q] = h0 => \E i \in Filled(h0) : arrays[s.arr][i] = q
        BY <4>1 DEF ListOK
      <4> QED
        BY <4>1, <4>2, <4>3
    <3>4. \A i \in Filled(h0)' : arrays'[t.arr][i] \in registered' /\ HooksOf[arrays'[t.arr][i]] = h0
      BY <1>0, <2>1, <3>1, <3>2, <3>3
    <3>5. \A i, j \in Filled(h0)' : arrays'[t.arr][i] = arrays'[t.arr][j] => i = j
      BY <1>5, <3>1, <3>2, <3>3
    <3>6. ASSUME NEW q \in registered', HooksOf[q] = h0
          PROVE  \E i \in Filled(h0)' : arrays'[t.arr][i] = q
      <4>1. CASE q = p
        <5>1. s.len + 1 \in Filled(h0)' /\ arrays'[t.arr][s.len + 1] = p
          BY <2>3, <3>1, <3>2
        <5> QED
          BY <4>1, <5>1
      <4>2. CASE q # p
        <5>1. PICK i \in 1 .. s.len : arrays[s.arr][i] = q
          BY <2>1, <3>3, <3>6, <4>2
        <5>2. i \in Filled(h0)' /\ arrays'[t.arr][i] = q
          <6>1. i \in 1 .. s.len + 1 /\ i # s.len + 1
            BY <2>3, <5>1
          <6> QED
            BY <3>1, <3>2, <5>1, <6>1
        <5> QED
          BY <5>2
      <4> QED
        BY <4>1, <4>2
    <3>7. SliceOK(slices[h0])'
      BY <2>3, <3>1 DEF SliceOK
    <3> QED
      BY <2>7, <3>1, <3>4, <3>5, <3>6, <3>7 DEF ListOK
  <2>9. ASSUME NEW h \in Hooks, h # h0 PROVE ListOK(h)'
    <3>0. PICK u : u = slices[h]
      OBVIOUS
    <3>1. u \in SliceRec /\ SliceOK(u) /\ ListOK(h) /\ Filled(h) = 1 .. u.len /\ Filled(h)' = 1 .. u.len
          /\ slices'[h] = u /\ u.len \in Nat
      BY <2>4, <2>6, <2>9, <3>0
    <3>2. u.arr # 0 => u.arr # s.arr
      BY <1>1, <2>9, <3>0, <3>1 DEF ListOK
    <3>3. u.arr = 0 => u.len = 0
      BY <3>1 DEF SliceOK
    <3>4. SliceOK(u)' /\ \A i \in 1 .. u.len : arrays'[u.arr][i] = arrays[u.arr][i]
      BY <2>5, <3>1, <3>2, <3>3
    <3>5. \A q \in registered' : HooksOf[q] = h => q \in registered
      BY <1>0, <2>1, <2>9
    <3>6. SliceOK(slices[h])'
      BY <3>1, <3>4 DEF SliceOK
    <3>7. /\ \A i \in 1 .. u.len : arrays[u.arr][i] \in registered /\ HooksOf[arrays[u.arr][i]] = h
          /\ \A i, j \in 1 .. u.len : arrays[u.arr][i] = arrays[u.arr][j] => i = j
          /\ \A q \in registered : HooksOf[q] = h => \E i \in 1 .. u.len : arrays[u.arr][i] = q
      BY <3>0, <3>1 DEF ListOK
    <3> QED
      BY <2>1, <2>7, <3>1, <3>4, <3>5, <3>6, <3>7 DEF ListOK
  <2>10. \A c \in Callers : exec'[c] = IF exec[c].at = "running"
                                       THEN [exec[c] EXCEPT !.known = @ \cup {p}] ELSE exec[c]
    BY <2>1 DEF Note
  <2>11. DOMAIN exec' = Callers
    BY <2>1 DEF Note
  <2>12. ASSUME NEW c \in Callers, exec[c].at = "running"
         PROVE  /\ exec'[c].at = "running" /\ (exec[c].moved => exec'[c].moved)
                /\ exec'[c] \in ExecRec /\ ExecOK(c)'
    <3>0. PICK e : e = exec[c]
      OBVIOUS
    <3>1. PICK f : f = exec'[c]
      OBVIOUS
    <3>2. f = [e EXCEPT !.known = e.known \cup {p}]
      BY <2>10, <2>12, <3>0, <3>1
    <3>3. e \in ExecRec /\ RunningOK(e) /\ e.slice \in SliceRec /\ SliceOK(e.slice)
      BY <2>12, <3>0, PluginFields DEF PluginInv, ExecOK, RunningOK, ExecRec
    <3>4. f.known = e.known \cup {p} /\ f.moved = e.moved
      BY <3>2, <3>3 DEF ExecRec
    <3>5. /\ f \in ExecRec /\ f.at = "running" /\ f.slice = e.slice /\ f.had = e.had
          /\ f.ran = e.ran /\ RanOK(f)
      <4>1. /\ f \in ExecRec /\ f.at = e.at /\ f.slice = e.slice /\ f.had = e.had
            /\ f.ran = e.ran /\ f.known = e.known \cup {p} /\ f.moved = e.moved
        BY <3>2, <3>3 DEF ExecRec
      <4>2. RanOK(e) /\ e.at = "running"
        BY <2>12, <3>0 DEF PluginInv, ExecOK
      <4> QED
        BY <4>1, <4>2 DEF RanOK
    <3>6. PICK u : u = e.slice
      OBVIOUS
    <3>7. SliceOK(u)' /\ u.arr \in Nat /\ u.len \in Nat /\ u.arr <= Len(arrays)
      BY <2>5, <3>3, <3>6 DEF SliceOK, SliceRec
    <3>8. \A i \in 1 .. u.len : arrays'[u.arr][i] \in f.known
      BY <2>5, <3>3, <3>4, <3>6 DEF RunningOK
    <3>9. ASSUME ~e.moved
          PROVE  /\ \A i \in 1 .. u.len : arrays'[u.arr][i] = e.had[i]
                 /\ \A h \in Hooks : slices'[h].arr = u.arr => u.len <= slices'[h].len
      <4>1. /\ \A i \in 1 .. u.len : arrays[u.arr][i] = e.had[i]
            /\ \A h \in Hooks : slices[h].arr = u.arr => u.len <= slices[h].len
        BY <3>3, <3>6, <3>9 DEF RunningOK
      <4>2. s.arr = u.arr => u.len <= s.len
        BY <1>1, <4>1
      <4>3. \A i \in 1 .. u.len : ~(u.arr = s.arr /\ i = s.len + 1)
        BY <2>3, <3>7, <4>2
      <4>4. \A i \in 1 .. u.len : arrays'[u.arr][i] = e.had[i]
        BY <2>5, <3>3, <3>6, <4>1, <4>3
      <4>5. t.arr = u.arr => u.len <= t.len
        BY <2>3, <3>7, <4>2
      <4> QED
        BY <2>4, <4>1, <4>4, <4>5
    <3>10. registered' \subseteq f.known
      BY <2>1, <3>3, <3>4 DEF RunningOK
    <3>11. RunningOK(f)'
      BY <1>2, <3>4, <3>5, <3>6, <3>7, <3>8, <3>9, <3>10 DEF RunningOK, SliceOK
    <3>12. RanOK(f)'
      BY <3>5 DEF RanOK
    <3> QED
      BY <3>0, <3>1, <3>4, <3>5, <3>11, <3>12 DEF ExecOK, RanOK, RunningOK, SliceOK
  <2>13. ASSUME NEW c \in Callers
         PROVE  ExecOK(c)' /\ (exec'[c].at = "idle" \/ exec'[c] \in ExecRec)
    <3>1. CASE exec[c].at = "running"
      BY <2>12, <3>1
    <3>2. CASE exec[c].at # "running"
      BY <2>10, <3>2, RanStays
    <3> QED
      BY <3>1, <3>2
  <2>14. crashed' => \E c \in Callers : exec'[c].at = "running" /\ exec'[c].moved
    <3> SUFFICES ASSUME NEW c \in Callers, Reads(c, s.arr, s.len + 1)
                 PROVE  exec'[c].at = "running" /\ exec'[c].moved
      BY <2>1
    <3>1. exec[c].at = "running" /\ exec[c].slice.arr = s.arr /\ s.len + 1 <= exec[c].slice.len
      BY DEF Reads
    <3>2. exec[c] \in ExecRec /\ RunningOK(exec[c])
      BY <3>1, PluginFields DEF PluginInv, ExecOK
    <3>3. exec[c].slice.len \in Nat
      BY <3>2 DEF ExecRec, SliceRec
    <3>4. exec[c].moved
      BY <1>1, <2>3, <3>1, <3>2, <3>3 DEF RunningOK
    <3> QED
      BY <2>12, <3>1, <3>4
  <2>15. PluginTypes'
    <3>1. registered' \subseteq PluginNames
      BY <2>1 DEF PluginInv, PluginTypes
    <3>2. arrays' \in Seq(Seq(Cells))
      BY <2>2 DEF Appended
    <3>3. crashed' \in BOOLEAN
      BY <2>1 DEF PluginInv, PluginTypes
    <3>4. execs' \in 0 .. MaxExecs
      BY <1>2 DEF PluginInv, PluginTypes
    <3> QED
      BY <1>3, <2>4, <2>11, <2>13, <3>1, <3>2, <3>3, <3>4 DEF PluginTypes
  <2>16. LockOK'
    BY <1>2 DEF LockOK
  <2>17. \A h \in Hooks : ListOK(h)'
    BY <2>8, <2>9
  <2> QED
    BY <2>13, <2>14, <2>15, <2>16, <2>17 DEF PluginInv
<1> QED
  BY <1>4, <1>5

LEMMA PluginStep == PluginInv /\ [PluginNext]_pluginVars => PluginInv'
<1> SUFFICES ASSUME PluginInv, [PluginNext]_pluginVars
             PROVE  PluginInv'
  OBVIOUS
<1>1. CASE UNCHANGED pluginVars
  <2>1. UNCHANGED <<registered, arrays, slices, lock, exec, regs, execs, crashed>>
    BY <1>1 DEF pluginVars
  <2>2. PluginTypes' /\ LockOK'
    BY <2>1 DEF PluginInv, PluginTypes, LockOK
  <2>3. \A h \in Hooks : ListOK(h)'
    BY <2>1 DEF PluginInv, ListOK, SliceOK, Filled, Gap
  <2>4. \A c \in Callers : ExecOK(c)'
    BY <2>1 DEF PluginInv, ExecOK, RanOK, RunningOK, SliceOK
  <2> QED
    BY <2>1, <2>2, <2>3, <2>4 DEF PluginInv
<1>2. CASE PluginNext
  <2>1. ~crashed
    BY <1>2 DEF PluginNext
  <2>2. ASSUME NEW p \in PluginNames, Register(p) \/ UnregisterBegin(p) PROVE PluginInv'
    BY <2>1, <2>2, RegisterStep, UnregisterBeginStep
  <2>3. CASE MoveElement \/ UnregisterEnd \/ PluginsClear
    BY <2>1, <2>3, MoveElementStep, UnregisterEndStep, PluginsClearStep
  <2>4. ASSUME NEW c \in Callers,
               ExecuteBegin(c) \/ ExecutePlugin(c) \/ ExecuteTorn(c) \/ ExecuteEnd(c)
        PROVE  PluginInv'
    BY <2>1, <2>4, ExecuteBeginStep, ExecutePluginStep, ExecuteTornStep, ExecuteEndStep
  <2> QED
    BY <1>2, <2>2, <2>3, <2>4 DEF PluginNext
<1> QED
  BY <1>1, <1>2

LEMMA PluginSound == PluginInv => PluginTypeOK /\ PluginsRunRight
<1> SUFFICES ASSUME PluginInv PROVE PluginTypeOK /\ PluginsRunRight
  OBVIOUS
<1>1. PluginTypeOK
  <2>1. \A a \in DOMAIN arrays : arrays[a] \in Seq(PluginNames \cup {NoPlugin})
    <3>1. arrays \in Seq(Seq(Cells))
      BY DEF PluginInv, PluginTypes
    <3>2. DOMAIN arrays = 1 .. Len(arrays)
      BY <3>1, LenProperties
    <3> QED
      BY <3>2, PluginFields DEF Cells
  <2>2. \A h \in Hooks : /\ slices[h].arr \in 0 .. Len(arrays)
                         /\ slices[h].arr > 0 => slices[h].len <= Len(arrays[slices[h].arr])
    BY PluginFields DEF SliceOK
  <2>3. lock.name \in PluginNames \cup {NoPlugin}
    BY DEF PluginInv, LockOK, Unlocked
  <2>4. \A c \in Callers : exec[c].at \in {"idle", "running", "done", "failed"}
    BY DEF PluginInv, PluginTypes, ExecRec
  <2> QED
    BY <2>1, <2>2, <2>3, <2>4 DEF PluginTypeOK, PluginInv, PluginTypes
<1>2. RunsWhatIsRegistered
  <2>1. ASSUME NEW c \in Callers, exec[c].at # "idle"
        PROVE  /\ \A i \in DOMAIN exec[c].ran : exec[c].ran[i] \in exec[c].known
               /\ ~exec[c].moved =>
                     /\ exec[c].ran = SubSeq(exec[c].had, 1, Len(exec[c].ran))
                     /\ exec[c].at = "done" => exec[c].ran = exec[c].had
    <3>1. PICK e : e = exec[c]
      OBVIOUS
    <3>2. e \in ExecRec /\ RanOK(e)
      BY <2>1, <3>1, PluginFields DEF PluginInv, ExecOK
    <3>3. e.ran \in Seq(Cells) /\ e.had \in Seq(Cells)
      BY <3>2 DEF ExecRec
    <3>4. /\ Len(e.ran) \in Nat /\ DOMAIN e.ran = 1 .. Len(e.ran)
          /\ Len(e.had) \in Nat /\ DOMAIN e.had = 1 .. Len(e.had)
      BY <3>3, LenProperties
    <3>5. ASSUME ~e.moved
          PROVE  e.ran = SubSeq(e.had, 1, Len(e.ran)) /\ (e.at = "done" => e.ran = e.had)
      <4>1. /\ Len(e.ran) <= Len(e.had) /\ \A i \in 1 .. Len(e.ran) : e.ran[i] = e.had[i]
            /\ e.at = "done" => Len(e.ran) = Len(e.had)
        BY <3>2, <3>4, <3>5 DEF RanOK
      <4>2. PICK b : b = SubSeq(e.had, 1, Len(e.ran))
        OBVIOUS
      <4>3. \A i \in 1 .. Len(e.ran) : i \in 1 .. Len(e.had)
        BY <3>4, <4>1
      <4>4. \A i \in 1 .. Len(e.ran) : e.had[i] \in Cells
        BY <3>3, <3>4, <4>3, ElementOfSeq
      <4>5. PICK n : n = Len(e.ran)
        OBVIOUS
      <4>6. b \in Seq(Cells) /\ Len(b) = n /\ \A i \in 1 .. n : b[i] = e.had[i]
        <5>1. n \in Int /\ 1 \in Int /\ n \in Nat
          BY <3>4, <4>5
        <5>2. \A i \in 1 .. n : e.had[i] \in Cells
          BY <4>4, <4>5
        <5>3. /\ SubSeq(e.had, 1, n) \in Seq(Cells)
              /\ Len(SubSeq(e.had, 1, n)) = IF 1 <= n THEN n - 1 + 1 ELSE 0
              /\ \A i \in 1 .. n - 1 + 1 : SubSeq(e.had, 1, n)[i] = e.had[1 + i - 1]
          BY <5>1, <5>2, SubSeqProperties
        <5> QED
          BY <4>2, <4>5, <5>1, <5>3
      <4>7. e.ran = b
        BY <3>3, <4>1, <4>5, <4>6, SeqEqual
      <4>8. e.at = "done" => e.ran = e.had
        BY <3>3, <3>4, <4>1, SeqEqual
      <4> QED
        BY <4>2, <4>7, <4>8
    <3> QED
      BY <3>1, <3>2, <3>5 DEF RanOK
  <2> QED
    BY <2>1 DEF RunsWhatIsRegistered, PluginInv
<1>3. ListsAgree
  <2> SUFFICES ASSUME lock = Unlocked, NEW h \in Hooks
               PROVE  /\ {Elements(slices[h])[i] : i \in DOMAIN Elements(slices[h])}
                            = {p \in registered : HooksOf[p] = h}
                      /\ Len(Elements(slices[h]))
                            = Cardinality({Elements(slices[h])[i] : i \in DOMAIN Elements(slices[h])})
    BY DEF ListsAgree
  <2>1. PICK l : l = Elements(slices[h])
    OBVIOUS
  <2>2. PICK s : s = slices[h]
    OBVIOUS
  <2>3. s \in SliceRec /\ SliceOK(s) /\ s.len \in Nat /\ ListOK(h) /\ Filled(h) = 1 .. s.len
    BY <2>2, PluginFields DEF PluginInv, Filled, Gap
  <2>4. l \in Seq(Cells) /\ Len(l) = s.len /\ \A i \in 1 .. s.len : l[i] = arrays[s.arr][i]
    BY <2>1, <2>2, <2>3, ElementsIs
  <2>5. DOMAIN l = 1 .. s.len
    BY <2>4, LenProperties
  <2>6. /\ \A i \in 1 .. s.len : l[i] \in registered /\ HooksOf[l[i]] = h
        /\ \A i, j \in 1 .. s.len : l[i] = l[j] => i = j
        /\ \A p \in registered : HooksOf[p] = h => \E i \in 1 .. s.len : l[i] = p
    BY <2>2, <2>3, <2>4, SMTT(30) DEF ListOK
  <2>7. PICK R : R = {l[i] : i \in DOMAIN l}
    OBVIOUS
  <2>8. R = {p \in registered : HooksOf[p] = h}
    BY <2>5, <2>6, <2>7
  <2>9. Cardinality(R) = s.len
    <3>1. IsFiniteSet(1 .. s.len) /\ Cardinality(1 .. s.len) = s.len
      BY <2>3, FS_Interval
    <3>2. l \in [1 .. s.len -> R]
      BY <2>4, <2>5, <2>7
    <3>3. l \in Injection(1 .. s.len, R) /\ l \in Surjection(1 .. s.len, R)
      <4>1. \A i, j \in 1 .. s.len : l[i] = l[j] => i = j
        BY <2>6
      <4>2. \A r \in R : \E i \in 1 .. s.len : l[i] = r
        BY <2>5, <2>7
      <4> QED
        BY <3>2, <4>1, <4>2, Fun_IsInj, Fun_IsSurj
    <3>4. ExistsBijection(1 .. s.len, R)
      BY <3>3 DEF ExistsBijection, Bijection
    <3> QED
      BY <3>1, <3>4, FS_Bijection
  <2> QED
    BY <2>1, <2>4, <2>7, <2>8, <2>9
<1> QED
  BY <1>1, <1>2, <1>3 DEF PluginsRunRight

\* For every number of plugins, hooks, callers and calls the types of the plugin
\* manager's state are right (plugins.go).
THEOREM PluginTypesHold == PluginSpec => []PluginTypeOK
<1> QED
  BY PluginInitHolds, PluginStep, PluginSound, PTL DEF PluginSpec

\* For every number of plugins, hooks, callers and calls an Execute that no Unregister
\* runs into runs exactly the plugins its hook had when it began, in their order; the
\* others run only what was registered meanwhile; and each list names the registered
\* plugins of its hook, each once (Manager.Register, Unregister, Execute, Clear).
THEOREM PluginsRunRightCorrect == PluginSpec => []PluginsRunRight
<1> QED
  BY PluginInitHolds, PluginStep, PluginSound, PTL DEF PluginSpec

-----------------------------------------------------------------------------
(* The lock of a graph: nobody reads beside a writer, and only nested read   *)
(* locks with a waiting writer can hold goroutines up for ever.              *)

\* The writer a lock names is the one that waits for it or has it; nobody has a
\* read lock beside a writer, and only a writer leaves a graph half changed.
PendingIsWriter ==
    \A t \in Goroutines, g \in GraphNames :
        pending[g] = t <=> thread[t].at \in {"waiting", "writing"} /\ thread[t].graph = g
NoReadBesideWrite ==
    \A t, u \in Goroutines : thread[t].at = "writing" => ~HasRead(u, thread[t].graph)
HalfDoneByWriter ==
    \A g \in halfDone : \E t \in Goroutines : thread[t].at = "writing" /\ thread[t].graph = g

\* The second lock of a call is a graph's.
InnerIsGraph ==
    \A t \in Goroutines :
        thread[t].at \in {"inner", "blockedInner"} => thread[t].inner \in GraphNames

ReadsInv ==
    /\ GraphReadsTypeOK /\ PendingIsWriter /\ NoReadBesideWrite /\ HalfDoneByWriter
    /\ InnerIsGraph /\ ReadsWhole

LEMMA ReadsInit == GraphReadsInit => ReadsInv
<1> SUFFICES ASSUME GraphReadsInit
             PROVE  ReadsInv
  OBVIOUS
<1> USE DEF GraphReadsInit, Idle, Holding
<1>1. GraphReadsTypeOK
  BY GraphReadsAssumption DEF GraphReadsTypeOK
<1>2. PendingIsWriter /\ NoReadBesideWrite /\ HalfDoneByWriter /\ InnerIsGraph /\ ReadsWhole
  BY GraphReadsAssumption
     DEF PendingIsWriter, NoReadBesideWrite, HalfDoneByWriter, InnerIsGraph, ReadsWhole
<1> QED
  BY <1>1, <1>2 DEF ReadsInv

LEMMA Shapes ==
    ASSUME GraphReadsTypeOK, NEW t \in Goroutines
    PROVE  /\ thread[t].at \in Holding \cup {"blockedOuter"} => thread[t] \in ReaderState
           /\ thread[t].at \in {"queued", "waiting", "writing"} => thread[t] \in WriterState
           /\ thread[t].at = "idle" => thread[t] = Idle
  BY DEF GraphReadsTypeOK, ReaderState, WriterState, Idle, Holding

\* A step of one goroutine t to the state s that neither starts nor ends a change
\* keeps the invariant, if s has a read lock only on graphs without a writer.
LEMMA OneMoves ==
    ASSUME ReadsInv, NEW t \in Goroutines,
           NEW s \in ReaderState \cup WriterState \cup {Idle},
           thread' = [thread EXCEPT ![t] = s],
           lockCalls' \in 0 .. MaxLockCalls,
           UNCHANGED <<version, halfDone>>,
           pending' \in [GraphNames -> Goroutines \cup {NoWriter}],
           PendingIsWriter',
           thread[t].at # "writing",
           s.at = "writing" => \A u \in Goroutines : ~HasRead(u, s.graph),
           s.at \in Holding => /\ \A u \in Goroutines :
                                    ~(thread[u].at = "writing" /\ thread[u].graph = s.outer)
                               /\ s.saw = version[s.outer],
           s.at \in {"inner", "blockedInner"} => s.inner \in GraphNames,
           s.at = "inner" => /\ \A u \in Goroutines :
                                    ~(thread[u].at = "writing" /\ thread[u].graph = s.inner)
                             /\ s.sawInner = version[s.inner]
    PROVE  ReadsInv'
<1> USE DEF ReadsInv
<1>1. /\ thread \in [Goroutines -> ReaderState \cup WriterState \cup {Idle}]
      /\ thread'[t] = s
      /\ \A u \in Goroutines \ {t} : thread'[u] = thread[u]
  BY DEF GraphReadsTypeOK
<1>2. GraphReadsTypeOK'
  BY <1>1 DEF GraphReadsTypeOK
<1>3. NoReadBesideWrite'
  <2> SUFFICES ASSUME NEW w \in Goroutines, NEW u \in Goroutines, thread'[w].at = "writing"
               PROVE  ~HasRead(u, thread[w].graph)'
    BY DEF NoReadBesideWrite
  <2>1. CASE w = t
    <3>1. u = t => ~(s.at \in Holding) /\ s.at # "inner"
      BY <2>1, <1>1 DEF Holding
    <3>2. u # t => ~HasRead(u, s.graph)
      BY <2>1, <1>1
    <3> QED
      BY <3>1, <3>2, <2>1, <1>1 DEF HasRead, Holding
  <2>2. CASE w # t
    <3>1. thread[w].at = "writing" /\ thread'[w] = thread[w]
      BY <2>2, <1>1
    <3>2. CASE u = t
      BY <3>1, <3>2, <1>1 DEF HasRead, Holding
    <3>3. CASE u # t
      BY <3>1, <3>3, <1>1 DEF HasRead, Holding, NoReadBesideWrite
    <3> QED
      BY <3>2, <3>3
  <2> QED
    BY <2>1, <2>2
<1>4. HalfDoneByWriter'
  BY <1>1 DEF HalfDoneByWriter
<1>5. ReadsWhole'
  <2> SUFFICES ASSUME NEW u \in Goroutines
               PROVE  /\ thread'[u].at \in Holding =>
                            thread'[u].saw = version[thread'[u].outer]
                            /\ thread'[u].outer \notin halfDone
                      /\ thread'[u].at = "inner" =>
                            thread'[u].sawInner = version[thread'[u].inner]
                            /\ thread'[u].inner \notin halfDone
    BY DEF ReadsWhole
  <2>1. CASE u = t
    BY <2>1, <1>1 DEF HalfDoneByWriter
  <2>2. CASE u # t
    BY <2>2, <1>1 DEF ReadsWhole
  <2> QED
    BY <2>1, <2>2
<1>6. InnerIsGraph'
  BY <1>1 DEF InnerIsGraph
<1> QED
  BY <1>2, <1>3, <1>4, <1>5, <1>6

\* A reader's own steps: it is no writer before and after.
LEMMA ReaderMoves ==
    ASSUME ReadsInv, NEW t \in Goroutines, NEW s \in ReaderState \cup {Idle},
           thread' = [thread EXCEPT ![t] = s],
           lockCalls' \in 0 .. MaxLockCalls,
           UNCHANGED <<pending, version, halfDone>>,
           thread[t].at \notin {"waiting", "writing"},
           s.at \in Holding => /\ \A u \in Goroutines :
                                    ~(thread[u].at = "writing" /\ thread[u].graph = s.outer)
                               /\ s.saw = version[s.outer],
           s.at \in {"inner", "blockedInner"} => s.inner \in GraphNames,
           s.at = "inner" => /\ \A u \in Goroutines :
                                    ~(thread[u].at = "writing" /\ thread[u].graph = s.inner)
                             /\ s.sawInner = version[s.inner]
    PROVE  ReadsInv'
<1>1. s.at \notin {"waiting", "writing"}
  BY DEF ReaderState, Idle, Holding
<1>2. PendingIsWriter'
  BY <1>1 DEF PendingIsWriter, ReadsInv, GraphReadsTypeOK
<1>3. pending' \in [GraphNames -> Goroutines \cup {NoWriter}]
  BY DEF ReadsInv, GraphReadsTypeOK
<1> HIDE DEF PendingIsWriter
<1> QED
  BY <1>1, <1>2, <1>3, OneMoves

\* Where no writer is announced, nobody writes.
LEMMA NobodyWriting ==
    ASSUME ReadsInv, NEW g \in GraphNames, pending[g] = NoWriter
    PROVE  \A u \in Goroutines : ~(thread[u].at = "writing" /\ thread[u].graph = g)
  BY GraphReadsAssumption DEF ReadsInv, PendingIsWriter

LEMMA ReadBeginStep ==
    ASSUME ReadsInv, NEW t \in Goroutines, NEW g \in GraphNames,
           NEW nested \in GraphNames \cup {NoNested}, ReadBegin(t, g, nested)
    PROVE  ReadsInv'
<1> DEFINE s == [at |-> IF pending[g] = NoWriter THEN "outer" ELSE "blockedOuter",
                 outer |-> g, inner |-> nested, saw |-> version[g], sawInner |-> 0]
<1>1. s \in ReaderState
  BY DEF ReaderState, Holding, ReadsInv, GraphReadsTypeOK
<1>2. thread' = [thread EXCEPT ![t] = s] /\ UNCHANGED <<pending, version, halfDone>>
  BY DEF ReadBegin, Becomes
<1>3. lockCalls' \in 0 .. MaxLockCalls
  BY GraphReadsAssumption DEF ReadBegin, NextLockCall, ReadsInv, GraphReadsTypeOK
<1>4. thread[t].at \notin {"waiting", "writing"}
  BY DEF ReadBegin, NextLockCall, Idle
<1>5. s.at \in Holding => pending[g] = NoWriter
  BY DEF Holding
<1>6. s.at \notin {"inner", "blockedInner"} /\ s.outer = g /\ s.saw = version[g]
  OBVIOUS
<1> HIDE DEF s
<1> QED
  BY <1>1, <1>2, <1>3, <1>4, <1>5, <1>6, NobodyWriting, ReaderMoves

\* Beside a reader nobody writes.
LEMMA NobodyWritingBeside ==
    ASSUME ReadsInv, NEW t \in Goroutines, thread[t].at \in Holding
    PROVE  \A u \in Goroutines : ~(thread[u].at = "writing" /\ thread[u].graph = thread[t].outer)
  BY DEF ReadsInv, NoReadBesideWrite, HasRead

LEMMA ReadNestedStep ==
    ASSUME ReadsInv, NEW t \in Goroutines, ReadNested(t)
    PROVE  ReadsInv'
<1> DEFINE g == thread[t].inner
           s == [thread[t] EXCEPT
                    !.at = IF pending[g] = NoWriter THEN "inner" ELSE "blockedInner",
                    !.sawInner = version[g]]
<1>0. thread[t].at = "outer" /\ g \in GraphNames
  BY DEF ReadNested
<1>1. thread[t] \in ReaderState
  BY <1>0, Shapes DEF ReadsInv, Holding
<1>2. version[g] \in Nat
  BY <1>0 DEF ReadsInv, GraphReadsTypeOK
<1>3. /\ s \in ReaderState
      /\ s.at = IF pending[g] = NoWriter THEN "inner" ELSE "blockedInner"
      /\ s.outer = thread[t].outer /\ s.inner = g
      /\ s.saw = thread[t].saw /\ s.sawInner = version[g]
  BY <1>1, <1>2 DEF ReaderState, Holding
<1>4. thread' = [thread EXCEPT ![t] = s] /\ UNCHANGED <<pending, version, halfDone, lockCalls>>
  BY DEF ReadNested, Becomes
<1>5. /\ \A u \in Goroutines : ~(thread[u].at = "writing" /\ thread[u].graph = s.outer)
      /\ s.saw = version[s.outer]
  BY <1>0, <1>3, NobodyWritingBeside DEF ReadsInv, ReadsWhole, Holding
<1>6. s.at = "inner" =>
        \A u \in Goroutines : ~(thread[u].at = "writing" /\ thread[u].graph = s.inner)
  BY <1>0, <1>3, NobodyWriting
<1>7. lockCalls' \in 0 .. MaxLockCalls
  BY <1>4 DEF ReadsInv, GraphReadsTypeOK
<1> HIDE DEF s, g
<1> QED
  BY <1>0, <1>3, <1>4, <1>5, <1>6, <1>7, ReaderMoves

LEMMA ReadNestedEndsStep ==
    ASSUME ReadsInv, NEW t \in Goroutines, ReadNestedEnds(t)
    PROVE  ReadsInv'
<1> DEFINE s == [thread[t] EXCEPT !.at = "after"]
<1>0. thread[t].at = "inner"
  BY DEF ReadNestedEnds
<1>1. thread[t] \in ReaderState
  BY <1>0, Shapes DEF ReadsInv, Holding
<1>2. /\ s \in ReaderState /\ s.at = "after"
      /\ s.outer = thread[t].outer /\ s.saw = thread[t].saw
  BY <1>1 DEF ReaderState, Holding
<1>3. thread' = [thread EXCEPT ![t] = s] /\ UNCHANGED <<pending, version, halfDone, lockCalls>>
  BY DEF ReadNestedEnds, Becomes
<1>4. /\ \A u \in Goroutines : ~(thread[u].at = "writing" /\ thread[u].graph = s.outer)
      /\ s.saw = version[s.outer]
  BY <1>0, <1>2, NobodyWritingBeside DEF ReadsInv, ReadsWhole, Holding
<1>5. lockCalls' \in 0 .. MaxLockCalls
  BY <1>3 DEF ReadsInv, GraphReadsTypeOK
<1> HIDE DEF s
<1> QED
  BY <1>0, <1>2, <1>3, <1>4, <1>5, ReaderMoves

LEMMA ReadEndsStep ==
    ASSUME ReadsInv, NEW t \in Goroutines, ReadEnds(t)
    PROVE  ReadsInv'
<1>1. thread' = [thread EXCEPT ![t] = Idle] /\ UNCHANGED <<pending, version, halfDone, lockCalls>>
  BY DEF ReadEnds, Becomes
<1>2. thread[t].at \in {"after", "outer"}
  BY DEF ReadEnds
<1>3. Idle.at = "idle" /\ Idle.at \notin Holding
  BY DEF Idle, Holding
<1>4. lockCalls' \in 0 .. MaxLockCalls
  BY <1>1 DEF ReadsInv, GraphReadsTypeOK
<1> QED
  BY <1>1, <1>2, <1>3, <1>4, ReaderMoves

\* A writer's steps to "waiting" and "queued" leave the pending writers true.
LEMMA WriteBeginStep ==
    ASSUME ReadsInv, NEW t \in Goroutines, NEW g \in GraphNames, WriteBegin(t, g)
    PROVE  ReadsInv'
<1> DEFINE s == [at |-> IF pending[g] = NoWriter THEN "waiting" ELSE "queued", graph |-> g]
<1>1. s \in WriterState /\ s.at \notin Holding \cup {"writing", "inner", "blockedInner"} /\ s.graph = g
  BY DEF WriterState, Holding
<1>2. thread' = [thread EXCEPT ![t] = s] /\ UNCHANGED <<version, halfDone>>
  BY DEF WriteBegin, Becomes
<1>3. thread[t].at = "idle"
  BY DEF WriteBegin, NextLockCall, Idle
<1>4. lockCalls' \in 0 .. MaxLockCalls
  BY GraphReadsAssumption DEF WriteBegin, NextLockCall, ReadsInv, GraphReadsTypeOK
<1>5. pending' = [pending EXCEPT ![g] = IF @ = NoWriter THEN t ELSE @]
  BY DEF WriteBegin
<1>6. pending' \in [GraphNames -> Goroutines \cup {NoWriter}]
  BY <1>5 DEF ReadsInv, GraphReadsTypeOK
<1>7. s.at = "waiting" <=> pending[g] = NoWriter
  OBVIOUS
<1> HIDE DEF s
<1>8. PendingIsWriter'
  BY <1>1, <1>2, <1>3, <1>5, <1>7, GraphReadsAssumption
     DEF PendingIsWriter, ReadsInv, GraphReadsTypeOK
<1> QED
  BY <1>1, <1>2, <1>3, <1>4, <1>6, <1>8, OneMoves

LEMMA WriteAnnouncedStep ==
    ASSUME ReadsInv, NEW t \in Goroutines, WriteAnnounced(t)
    PROVE  ReadsInv'
<1> DEFINE s == [thread[t] EXCEPT !.at = "waiting"]
           g == thread[t].graph
<1>0. thread[t].at = "queued" /\ pending[g] = NoWriter
  BY DEF WriteAnnounced
<1>1. thread[t] \in WriterState
  BY <1>0, Shapes DEF ReadsInv
<1>2. s \in WriterState /\ s.at = "waiting" /\ s.graph = g /\ g \in GraphNames
  BY <1>1 DEF WriterState
<1>3. /\ thread' = [thread EXCEPT ![t] = s]
      /\ pending' = [pending EXCEPT ![g] = t]
      /\ UNCHANGED <<version, halfDone, lockCalls>>
  BY DEF WriteAnnounced, Becomes
<1>4. lockCalls' \in 0 .. MaxLockCalls
  BY <1>3 DEF ReadsInv, GraphReadsTypeOK
<1>5. pending' \in [GraphNames -> Goroutines \cup {NoWriter}]
  BY <1>3 DEF ReadsInv, GraphReadsTypeOK
<1> HIDE DEF s, g
<1>6. PendingIsWriter'
  BY <1>0, <1>2, <1>3, GraphReadsAssumption DEF PendingIsWriter, ReadsInv, GraphReadsTypeOK
<1>7. s.at \notin Holding
  BY <1>2 DEF Holding
<1> QED
  BY <1>0, <1>2, <1>3, <1>4, <1>5, <1>6, <1>7, OneMoves

LEMMA WriteLockedStep ==
    ASSUME ReadsInv, NEW t \in Goroutines, WriteLocked(t)
    PROVE  ReadsInv'
<1> DEFINE s == [thread[t] EXCEPT !.at = "writing"]
<1>0. thread[t].at = "waiting"
  BY DEF WriteLocked
<1>1. thread[t] \in WriterState
  BY <1>0, Shapes DEF ReadsInv
<1>2. s \in WriterState /\ s.at = "writing" /\ s.graph = thread[t].graph
  BY <1>1 DEF WriterState
<1>3. /\ thread' = [thread EXCEPT ![t] = s]
      /\ UNCHANGED <<pending, version, halfDone, lockCalls>>
      /\ \A u \in Goroutines : ~HasRead(u, thread[t].graph)
  BY DEF WriteLocked, Becomes
<1>4. lockCalls' \in 0 .. MaxLockCalls
  BY <1>3 DEF ReadsInv, GraphReadsTypeOK
<1>5. pending' \in [GraphNames -> Goroutines \cup {NoWriter}]
  BY <1>3 DEF ReadsInv, GraphReadsTypeOK
<1> HIDE DEF s
<1>6. PendingIsWriter'
  BY <1>0, <1>2, <1>3 DEF PendingIsWriter, ReadsInv, GraphReadsTypeOK
<1>7. s.at \notin Holding
  BY <1>2 DEF Holding
<1> QED
  BY <1>0, <1>2, <1>3, <1>4, <1>5, <1>6, <1>7, OneMoves

LEMMA AddEdgeHalfStep ==
    ASSUME ReadsInv, NEW t \in Goroutines, AddEdgeHalf(t)
    PROVE  ReadsInv'
<1> DEFINE g == thread[t].graph
<1>0. /\ thread[t].at = "writing"
      /\ halfDone' = halfDone \cup {g}
      /\ UNCHANGED <<thread, pending, version, lockCalls>>
  BY DEF AddEdgeHalf
<1>1. g \in GraphNames
  BY <1>0, Shapes DEF ReadsInv, WriterState
<1>2. \A u \in Goroutines : ~HasRead(u, g)
  BY <1>0 DEF ReadsInv, NoReadBesideWrite
<1> HIDE DEF g
<1>3. GraphReadsTypeOK'
  BY <1>0, <1>1 DEF ReadsInv, GraphReadsTypeOK
<1>4. PendingIsWriter' /\ NoReadBesideWrite'
  BY <1>0 DEF ReadsInv, PendingIsWriter, NoReadBesideWrite, HasRead
<1>5. HalfDoneByWriter'
  BY <1>0 DEF ReadsInv, HalfDoneByWriter, g
<1>6. InnerIsGraph' /\ ReadsWhole'
  BY <1>0, <1>2 DEF ReadsInv, InnerIsGraph, ReadsWhole, HasRead
<1> QED
  BY <1>3, <1>4, <1>5, <1>6 DEF ReadsInv

\* The readers that waited for t's graph are let in, and t had no reader beside it.
LEMMA WriteEndsStep ==
    ASSUME ReadsInv, NEW t \in Goroutines, WriteEnds(t)
    PROVE  ReadsInv'
<1> DEFINE g == thread[t].graph
           first(u) == thread[u].at = "blockedOuter" /\ thread[u].outer = g
           second(u) == thread[u].at = "blockedInner" /\ thread[u].inner = g
<1>0. /\ thread[t].at = "writing"
      /\ version' = [version EXCEPT ![g] = @ + 1]
      /\ halfDone' = halfDone \ {g}
      /\ pending' = [pending EXCEPT ![g] = NoWriter]
      /\ thread' = [u \in Goroutines |->
            IF u = t THEN Idle
            ELSE IF first(u)
                 THEN [thread[u] EXCEPT !.at = "outer", !.saw = version[g] + 1]
            ELSE IF second(u)
                 THEN [thread[u] EXCEPT !.at = "inner", !.sawInner = version[g] + 1]
            ELSE thread[u]]
      /\ UNCHANGED lockCalls
  BY DEF WriteEnds
<1>1. g \in GraphNames /\ pending[g] = t
  BY <1>0, Shapes DEF ReadsInv, WriterState, PendingIsWriter
<1>2. \A u \in Goroutines : ~HasRead(u, g)
  BY <1>0 DEF ReadsInv, NoReadBesideWrite
<1>3. version[g] + 1 \in Nat /\ version'[g] = version[g] + 1
  <2>1. version \in [GraphNames -> Nat] /\ version' = [version EXCEPT ![g] = @ + 1]
    BY <1>0 DEF ReadsInv, GraphReadsTypeOK
  <2> HIDE DEF g
  <2> QED
    BY <2>1, <1>1
<1>4. \A h \in GraphNames \ {g} : version'[h] = version[h] /\ pending'[h] = pending[h]
  BY <1>0 DEF ReadsInv, GraphReadsTypeOK
<1>5. pending'[g] = NoWriter
  BY <1>0, <1>1 DEF ReadsInv, GraphReadsTypeOK
<1>6. thread'[t] = Idle
  BY <1>0
<1>half. halfDone' = halfDone \ {g}
  BY <1>0
<1>7. ASSUME NEW u \in Goroutines \ {t}, first(u)
      PROVE  /\ thread'[u] \in ReaderState /\ thread'[u].at = "outer"
             /\ thread'[u].outer = g /\ thread'[u].saw = version[g] + 1
  <2>1. thread[u] \in ReaderState
    BY <1>7, Shapes DEF ReadsInv
  <2>2. thread'[u] = [thread[u] EXCEPT !.at = "outer", !.saw = version[g] + 1]
    BY <1>0, <1>7
  <2> HIDE DEF g
  <2> QED
    BY <2>1, <2>2, <1>3, <1>7 DEF ReaderState, Holding
<1>8. ASSUME NEW u \in Goroutines \ {t}, second(u)
      PROVE  /\ thread'[u] \in ReaderState /\ thread'[u].at = "inner"
             /\ thread'[u].inner = g /\ thread'[u].sawInner = version[g] + 1
             /\ thread'[u].outer = thread[u].outer /\ thread'[u].saw = thread[u].saw
             /\ thread[u].at \in Holding /\ thread[u].outer \in GraphNames \ {g}
  <2>1. thread[u] \in ReaderState /\ thread[u].at \in Holding
    BY <1>8, Shapes DEF ReadsInv, Holding
  <2>2. thread'[u] = [thread[u] EXCEPT !.at = "inner", !.sawInner = version[g] + 1]
    BY <1>0, <1>8
  <2>3. thread[u].outer \in GraphNames \ {g}
    BY <1>2, <2>1 DEF HasRead, ReaderState
  <2> HIDE DEF g
  <2> QED
    BY <2>1, <2>2, <2>3, <1>3, <1>8 DEF ReaderState, Holding
<1>9. ASSUME NEW u \in Goroutines \ {t}, ~first(u), ~second(u)
      PROVE  thread'[u] = thread[u]
  BY <1>0, <1>9
<1> HIDE DEF g, first, second
<1>10. GraphReadsTypeOK'
  <2>1. \A u \in Goroutines : thread'[u] \in ReaderState \cup WriterState \cup {Idle}
    BY <1>6, <1>7, <1>8, <1>9 DEF ReadsInv, GraphReadsTypeOK
  <2>2. thread' \in [Goroutines -> ReaderState \cup WriterState \cup {Idle}]
    BY <2>1, <1>0
  <2> QED
    BY <2>2, <1>0, <1>1, <1>3 DEF ReadsInv, GraphReadsTypeOK
<1>11. \A u \in Goroutines :
         thread'[u].at \in {"waiting", "writing"} => u # t /\ thread'[u] = thread[u]
  BY <1>6, <1>7, <1>8, <1>9 DEF Idle
<1>12. \A u \in Goroutines \ {t} :
         thread[u].at \in {"waiting", "writing"} => thread'[u] = thread[u]
  BY <1>9 DEF first, second
<1>13. \A u \in Goroutines \ {t} :
         ~(thread[u].at \in {"waiting", "writing"} /\ thread[u].graph = g)
  BY <1>1 DEF ReadsInv, PendingIsWriter
<1>14. PendingIsWriter'
  <2> SUFFICES ASSUME NEW u \in Goroutines, NEW h \in GraphNames
               PROVE  pending'[h] = u <=>
                        thread'[u].at \in {"waiting", "writing"} /\ thread'[u].graph = h
    BY DEF PendingIsWriter
  <2>1. CASE h = g
    BY <2>1, <1>5, <1>11, <1>13, GraphReadsAssumption
  <2>2. CASE h # g /\ u # t
    BY <2>2, <1>4, <1>11, <1>12 DEF ReadsInv, PendingIsWriter
  <2>3. CASE h # g /\ u = t
    BY <2>3, <1>0, <1>4, <1>6, ZenonT(60) DEF ReadsInv, PendingIsWriter, Idle, g
  <2> QED
    BY <2>1, <2>2, <2>3
<1>15. NoReadBesideWrite'
  <2> SUFFICES ASSUME NEW w \in Goroutines, NEW u \in Goroutines, thread'[w].at = "writing"
               PROVE  ~HasRead(u, thread[w].graph)'
    BY DEF NoReadBesideWrite
  <2>1. w # t /\ thread'[w] = thread[w] /\ thread[w].at = "writing" /\ thread[w].graph # g
    BY <1>11, <1>13
  <2>2. ~HasRead(u, thread[w].graph)
    BY <2>1 DEF ReadsInv, NoReadBesideWrite
  <2>3. CASE u = t
    BY <2>3, <1>6 DEF HasRead, Idle, Holding
  <2>4. CASE u # t /\ first(u)
    BY <2>1, <2>4, <1>7 DEF HasRead
  <2>5. CASE u # t /\ second(u)
    BY <2>1, <2>2, <2>5, <1>8 DEF HasRead
  <2>6. CASE u # t /\ ~first(u) /\ ~second(u)
    BY <2>1, <2>2, <2>6, <1>9 DEF HasRead
  <2> QED
    BY <2>3, <2>4, <2>5, <2>6
<1>16. HalfDoneByWriter'
  <2> SUFFICES ASSUME NEW h \in halfDone'
               PROVE  \E w \in Goroutines : thread'[w].at = "writing" /\ thread'[w].graph = h
    BY DEF HalfDoneByWriter
  <2>1. h \in halfDone /\ h # g
    BY <1>0
  <2>2. PICK w \in Goroutines : thread[w].at = "writing" /\ thread[w].graph = h
    BY <2>1 DEF ReadsInv, HalfDoneByWriter
  <2>3. w # t
    BY <2>1, <2>2 DEF g
  <2> QED
    BY <2>2, <2>3, <1>12
<1>17. ReadsWhole'
  <2> SUFFICES ASSUME NEW u \in Goroutines
               PROVE  /\ thread'[u].at \in Holding =>
                            thread'[u].saw = version'[thread'[u].outer]
                            /\ thread'[u].outer \notin halfDone'
                      /\ thread'[u].at = "inner" =>
                            thread'[u].sawInner = version'[thread'[u].inner]
                            /\ thread'[u].inner \notin halfDone'
    BY DEF ReadsWhole
  <2>0. ReadsWhole
    BY DEF ReadsInv
  <2>1. CASE u = t
    BY <2>1, <1>6 DEF Idle, Holding
  <2>2. CASE u # t /\ first(u)
    <3>1. /\ thread'[u].at = "outer" /\ thread'[u].outer = g
          /\ thread'[u].saw = version[g] + 1
      BY <2>2, <1>7
    <3> QED
      BY <3>1, <1>3, <1>half
  <2>3. CASE u # t /\ second(u)
    <3>1. /\ thread'[u].at = "inner" /\ thread'[u].inner = g
          /\ thread'[u].sawInner = version[g] + 1
          /\ thread'[u].outer = thread[u].outer /\ thread'[u].saw = thread[u].saw
          /\ thread[u].at \in Holding /\ thread[u].outer \in GraphNames \ {g}
      BY <2>3, <1>8
    <3>2. thread[u].saw = version[thread[u].outer] /\ thread[u].outer \notin halfDone
      BY <2>0, <3>1 DEF ReadsWhole
    <3> QED
      BY <3>1, <3>2, <1>3, <1>4, <1>half
  <2>4. CASE u # t /\ ~first(u) /\ ~second(u)
    <3>1. thread'[u] = thread[u] /\ ~HasRead(u, g)
      BY <2>4, <1>2, <1>9
    <3>2. thread[u].at \in Holding => thread[u] \in ReaderState
      BY Shapes DEF ReadsInv
    <3>3. thread[u].at \in Holding => thread[u].outer \in GraphNames \ {g}
      BY <3>1, <3>2 DEF HasRead, ReaderState
    <3>4. thread[u].at = "inner" => thread[u].inner \in GraphNames \ {g}
      BY <3>1 DEF HasRead, ReadsInv, InnerIsGraph
    <3>5. /\ thread[u].at \in Holding =>
              thread[u].saw = version[thread[u].outer] /\ thread[u].outer \notin halfDone
          /\ thread[u].at = "inner" =>
              thread[u].sawInner = version[thread[u].inner] /\ thread[u].inner \notin halfDone
      BY <2>0 DEF ReadsWhole
    <3> QED
      BY <3>1, <3>3, <3>4, <3>5, <1>4, <1>half
  <2> QED
    BY <2>1, <2>2, <2>3, <2>4
<1>18. InnerIsGraph'
  <2> SUFFICES ASSUME NEW u \in Goroutines, thread'[u].at \in {"inner", "blockedInner"}
               PROVE  thread'[u].inner \in GraphNames
    BY DEF InnerIsGraph
  <2>1. CASE u # t /\ second(u)
    BY <2>1, <1>1, <1>8
  <2>2. CASE u = t \/ first(u)
    BY <2>2, <1>6, <1>7 DEF Idle
  <2>3. CASE u # t /\ ~first(u) /\ ~second(u)
    BY <2>3, <1>9 DEF ReadsInv, InnerIsGraph
  <2> QED
    BY <2>1, <2>2, <2>3
<1> QED
  BY <1>10, <1>14, <1>15, <1>16, <1>17, <1>18 DEF ReadsInv

LEMMA ReadsStep == ReadsInv /\ [GraphReadsNext]_readVars => ReadsInv'
<1> SUFFICES ASSUME ReadsInv, [GraphReadsNext]_readVars
             PROVE  ReadsInv'
  OBVIOUS
<1>1. CASE UNCHANGED readVars
  BY <1>1 DEF readVars, ReadsInv, GraphReadsTypeOK, PendingIsWriter, NoReadBesideWrite,
              HalfDoneByWriter, InnerIsGraph, ReadsWhole, HasRead
<1>2. CASE GraphReadsNext
  <2>1. PICK t \in Goroutines :
          \/ \E g \in GraphNames :
              \/ WriteBegin(t, g)
              \/ \E nested \in GraphNames \cup {NoNested} : ReadBegin(t, g, nested)
          \/ ReadNested(t) \/ ReadNestedEnds(t) \/ ReadEnds(t)
          \/ WriteAnnounced(t) \/ WriteLocked(t) \/ AddEdgeHalf(t) \/ WriteEnds(t)
    BY <1>2 DEF GraphReadsNext
  <2>2. ASSUME NEW g \in GraphNames, WriteBegin(t, g)
        PROVE  ReadsInv'
    BY <2>2, WriteBeginStep
  <2>3. ASSUME NEW g \in GraphNames, NEW nested \in GraphNames \cup {NoNested},
               ReadBegin(t, g, nested)
        PROVE  ReadsInv'
    BY <2>3, ReadBeginStep
  <2> QED
    BY <2>1, <2>2, <2>3, ReadNestedStep, ReadNestedEndsStep, ReadEndsStep,
       WriteAnnouncedStep, WriteLockedStep, AddEdgeHalfStep, WriteEndsStep
<1> QED
  BY <1>1, <1>2

\* The parts of the invariant hold in every state: a lock's pending writer is the
\* one that waits or writes, nobody reads beside a writer (sync.RWMutex as graph.go
\* uses it), and what a call has read is whole.
THEOREM ReadsCorrect == GraphReadsSpec => []ReadsInv
<1>1. GraphReadsInit => ReadsInv
  BY ReadsInit
<1>2. ReadsInv /\ [GraphReadsNext]_readVars => ReadsInv'
  BY ReadsStep
<1> QED
  BY <1>1, <1>2, PTL DEF GraphReadsSpec

\* A writer that writes waits for nobody, so among goroutines that only wait for
\* each other, a lock's pending writer is one that waits for readers, and a reader
\* that waits while it has a lock waits for its second one.
LEMMA StuckIsNested == ReadsInv => StuckOnlyNested
<1> SUFFICES ASSUME ReadsInv, NEW s \in (SUBSET Goroutines) \ {{}},
                    \A t \in s : WaitsFor(t) \cap s # {}
             PROVE  /\ \E t \in s : thread[t].at = "blockedInner"
                    /\ \E t \in s : thread[t].at = "waiting"
  BY DEF StuckOnlyNested
<1>1. \A t \in s :
        thread[t].at \in {"blockedOuter", "blockedInner", "queued", "waiting"}
  BY DEF WaitsFor
<1>2. ASSUME NEW g \in GraphNames, pending[g] \in s
      PROVE  \E t \in s : thread[t].at = "waiting"
  BY <1>1, <1>2 DEF ReadsInv, PendingIsWriter
<1>3. PICK t \in s : TRUE
  OBVIOUS
<1>5. \E w \in s : thread[w].at = "waiting"
  <2>1. CASE thread[t].at = "blockedOuter"
    <3>1. thread[t].outer \in GraphNames
      BY <2>1, Shapes DEF ReadsInv, ReaderState
    <3>2. pending[thread[t].outer] \in s
      BY <2>1 DEF WaitsFor
    <3> QED
      BY <3>1, <3>2, <1>2
  <2>2. CASE thread[t].at = "blockedInner"
    <3>1. thread[t].inner \in GraphNames
      BY <2>2 DEF ReadsInv, InnerIsGraph
    <3>2. pending[thread[t].inner] \in s
      BY <2>2 DEF WaitsFor
    <3> QED
      BY <3>1, <3>2, <1>2
  <2>3. CASE thread[t].at = "queued"
    <3>1. thread[t].graph \in GraphNames
      BY <2>3, Shapes DEF ReadsInv, WriterState
    <3>2. pending[thread[t].graph] \in s
      BY <2>3 DEF WaitsFor
    <3> QED
      BY <3>1, <3>2, <1>2
  <2> QED
    BY <1>1, <2>1, <2>2, <2>3
<1>6. PICK w \in s : thread[w].at = "waiting"
  BY <1>5
<1>7. \E u \in s : thread[u].at = "blockedInner"
  <2>1. PICK u \in s : HasRead(u, thread[w].graph)
    BY <1>6 DEF WaitsFor
  <2> QED
    BY <2>1, <1>1 DEF HasRead, Holding
<1> QED
  BY <1>5, <1>7

\* A call on a graph reads one version of it (Stats, the exports and Diff included),
\* and calls wait for each other for ever only as Stats and a waiting AddEdge do: one
\* asks for a second read lock behind a writer that waits for its first.
THEOREM GraphReadsSoundCorrect == GraphReadsSpec => []GraphReadsSound
<1>1. ReadsInv => GraphReadsSound
  BY StuckIsNested DEF ReadsInv, GraphReadsSound
<1> QED
  BY <1>1, ReadsCorrect, PTL

-----------------------------------------------------------------------------
(* The composition                                                           *)

\* A step moves one component, as the component's own next-state relation says, and
\* leaves the others alone; the tables of the database move with the part that
\* writes them.
LEMMA OnePartMoves ==
    ASSUME [Next]_vars
    PROVE  /\ part' = part
           /\ [PluginNext]_pluginVars /\ [StoreNext]_storeVars /\ [GraphReadsNext]_readVars
           /\ [CssNext]_cssVars /\ [AssetNext]_assetVars
           /\ [RoutesNext]_routesVars /\ [TimelineNext]_timelineVars
           /\ IF part = "build" THEN [BuildNext]_<<dbVars, buildVars>> ELSE UNCHANGED buildVars
           /\ IF part = "cache" THEN [CacheNext]_<<dbVars, cacheVars>> ELSE UNCHANGED cacheVars
           /\ part \notin {"build", "cache"} => [DbNext]_dbVars
<1>1. CASE UNCHANGED vars
  BY <1>1 DEF vars
<1>2. CASE Next
  <2>1. CASE (DbPart \/ BuildPart \/ CachePart) /\ UNCHANGED <<pluginVars, storeVars, readVars,
            cssVars, assetVars, routesVars, timelineVars>>
    BY <1>2, <2>1 DEF Next, DbPart, BuildPart, CachePart
  <2>2. CASE PluginsPart /\ UNCHANGED <<dataVars, storeVars, readVars, cssVars, assetVars,
            routesVars, timelineVars>>
    BY <1>2, <2>2 DEF Next, PluginsPart, dataVars
  <2>3. CASE StorePart /\ UNCHANGED <<dataVars, pluginVars, readVars, cssVars, assetVars,
            routesVars, timelineVars>>
    BY <1>2, <2>3 DEF Next, StorePart, dataVars
  <2>4. CASE ReadsPart /\ UNCHANGED <<dataVars, pluginVars, storeVars, cssVars, assetVars,
            routesVars, timelineVars>>
    BY <1>2, <2>4 DEF Next, ReadsPart, dataVars
  <2>5. CASE CssPart /\ UNCHANGED <<dataVars, pluginVars, storeVars, readVars, assetVars,
            routesVars, timelineVars>>
    BY <1>2, <2>5 DEF Next, CssPart, dataVars
  <2>6. CASE AssetsPart /\ UNCHANGED <<dataVars, pluginVars, storeVars, readVars, cssVars,
            routesVars, timelineVars>>
    BY <1>2, <2>6 DEF Next, AssetsPart, dataVars
  <2>7. CASE RoutesPart /\ UNCHANGED <<dataVars, pluginVars, storeVars, readVars, cssVars,
            assetVars, timelineVars>>
    BY <1>2, <2>7 DEF Next, RoutesPart, dataVars
  <2>8. CASE TimelinePart /\ UNCHANGED <<dataVars, pluginVars, storeVars, readVars, cssVars,
            assetVars, routesVars>>
    BY <1>2, <2>8 DEF Next, TimelinePart, dataVars
  <2> QED
    BY <1>2, <2>1, <2>2, <2>3, <2>4, <2>5, <2>6, <2>7, <2>8 DEF Next
<1> QED
  BY <1>1, <1>2

\* The rest of the database in the parts where the build command or the clients of
\* the binary cache write it: tables they have no rows in.
TablesOfThePart ==
    /\ part \in {"build", "cache"} => fileRows = NoRows /\ depRows = NoRows /\ routeRows = NoRows
    /\ part = "build" => cacheEntries = NoRows
    /\ part = "cache" => history = <<>>

\* Each component as its own proof needs it.  The build command and the cache's
\* clients have not moved where another part does.
ProjectInv ==
    /\ PluginInv /\ StoreInv /\ ReadsInv /\ CssInv /\ AssetInv /\ RoutesInv /\ TimelineInv
    /\ IF part = "build" THEN BuildInv ELSE BuildInit
    /\ IF part = "cache" THEN CacheInv ELSE CacheInit
    /\ part \notin {"build", "cache"} => DbInv
    /\ TablesOfThePart

LEMMA ProjectInitHolds == Init => ProjectInv
<1> SUFFICES ASSUME Init PROVE ProjectInv
  OBVIOUS
<1>1. /\ DbInit /\ BuildInit /\ CacheInit /\ PluginInit /\ StoreInit /\ GraphReadsInit
      /\ CssInit /\ TimelineInit /\ AssetInit /\ RoutesInit
  BY DEF Init
<1>2. PluginInv /\ StoreInv /\ ReadsInv
  BY <1>1, PluginInitHolds, StoreInitHolds, ReadsInit
<1>3. CssInv /\ AssetInv /\ RoutesInv /\ TimelineInv
  BY <1>1, CssInitHolds, AssetInitHolds, RoutesInitHolds, TimelineInitHolds
<1>4. BuildInv /\ CacheInv /\ DbInv
  BY <1>1, BuildInitHolds, CacheInitHolds, DbInitHolds
<1>5. TablesOfThePart
  BY <1>1 DEF DbInit, EmptyTables, TablesOfThePart
<1> QED
  BY <1>1, <1>2, <1>3, <1>4, <1>5 DEF ProjectInv

LEMMA TablesOfThePartStay ==
    ASSUME TablesOfThePart, [Next]_vars
    PROVE  TablesOfThePart'
<1>1. part' = part
  BY OnePartMoves
<1>2. part = "build" => UNCHANGED <<fileRows, depRows, routeRows, cacheEntries>>
  <2>1. part = "build" => [BuildNext]_<<dbVars, buildVars>>
    BY OnePartMoves
  <2>2. UNCHANGED unusedTables => UNCHANGED <<fileRows, depRows, routeRows, cacheEntries>>
    BY DEF unusedTables
  <2>3. BuildNext => UNCHANGED unusedTables
    BY DEF BuildNext
  <2>4. UNCHANGED dbVars => UNCHANGED <<fileRows, depRows, routeRows, cacheEntries>>
    BY DEF dbVars, tables
  <2> QED
    BY <2>1, <2>2, <2>3, <2>4
<1>3. part = "cache" => UNCHANGED <<fileRows, depRows, routeRows, history>>
  <2>1. part = "cache" => [CacheNext]_<<dbVars, cacheVars>>
    BY OnePartMoves
  <2>2. UNCHANGED otherTables => UNCHANGED <<fileRows, depRows, routeRows, history>>
    BY DEF otherTables
  <2>3. CacheNext => UNCHANGED otherTables
    BY DEF CacheNext
  <2>4. UNCHANGED dbVars => UNCHANGED <<fileRows, depRows, routeRows, history>>
    BY DEF dbVars, tables
  <2> QED
    BY <2>1, <2>2, <2>3, <2>4
<1> QED
  BY <1>1, <1>2, <1>3 DEF TablesOfThePart

LEMMA ProjectStep == ProjectInv /\ [Next]_vars => ProjectInv'
<1> SUFFICES ASSUME ProjectInv, [Next]_vars
             PROVE  ProjectInv'
  OBVIOUS
<1>1. /\ part' = part
      /\ [PluginNext]_pluginVars /\ [StoreNext]_storeVars /\ [GraphReadsNext]_readVars
      /\ [CssNext]_cssVars /\ [AssetNext]_assetVars
      /\ [RoutesNext]_routesVars /\ [TimelineNext]_timelineVars
      /\ IF part = "build" THEN [BuildNext]_<<dbVars, buildVars>> ELSE UNCHANGED buildVars
      /\ IF part = "cache" THEN [CacheNext]_<<dbVars, cacheVars>> ELSE UNCHANGED cacheVars
      /\ part \notin {"build", "cache"} => [DbNext]_dbVars
  BY OnePartMoves
<1> HIDE DEF Next
<1>2. PluginInv'
  BY <1>1, PluginStep DEF ProjectInv
<1>3. StoreInv'
  BY <1>1, StoreStep DEF ProjectInv
<1>4. ReadsInv'
  BY <1>1, ReadsStep DEF ProjectInv
<1>5. CssInv' /\ AssetInv'
  BY <1>1, CssStep, AssetStep DEF ProjectInv
<1>6. RoutesInv' /\ TimelineInv'
  BY <1>1, RoutesStep, TimelineStep DEF ProjectInv
<1>7. IF part = "build" THEN BuildInv' ELSE BuildInit'
  <2>1. CASE part = "build"
    BY <1>1, <2>1, BuildStep DEF ProjectInv
  <2>2. CASE part # "build"
    <3>1. BuildInit /\ UNCHANGED buildVars
      BY <1>1, <2>2 DEF ProjectInv
    <3> QED
      BY <2>2, <3>1 DEF BuildInit, buildVars
  <2> QED
    BY <2>1, <2>2
<1>8. IF part = "cache" THEN CacheInv' ELSE CacheInit'
  <2>1. CASE part = "cache"
    BY <1>1, <2>1, CacheStep DEF ProjectInv
  <2>2. CASE part # "cache"
    <3>1. CacheInit /\ UNCHANGED cacheVars
      BY <1>1, <2>2 DEF ProjectInv
    <3> QED
      BY <2>2, <3>1 DEF CacheInit, cacheVars
  <2> QED
    BY <2>1, <2>2
<1>9. part \notin {"build", "cache"} => DbInv'
  BY <1>1, DbStep DEF ProjectInv
<1>10. TablesOfThePart'
  BY TablesOfThePartStay DEF ProjectInv
<1> QED
  BY <1>1, <1>2, <1>3, <1>4, <1>5, <1>6, <1>7, <1>8, <1>9, <1>10 DEF ProjectInv

LEMMA ProjectInvHolds == Spec => []ProjectInv
  BY ProjectInitHolds, ProjectStep, PTL DEF Spec

\* Where the build command has not moved its variables have their types, if the
\* builds of the database have a status.
LEMMA BuildNotMoved ==
    ASSUME BuildInit,
           \A i \in DOMAIN history : history[i].status \in {"running", "dry-run", "failed", "success"}
    PROVE  BuildTypeOK
<1>1. /\ at = [p \in Procs |-> "idle"] /\ build = [p \in Procs |-> NoBuild]
      /\ started = 0 /\ exists = FALSE /\ cleans = 0 /\ torn = FALSE
      /\ manifest = NoManifest /\ abandoned = {} /\ shared = {}
  BY DEF BuildInit
<1>2. DOMAIN manifest = {}
  BY <1>1 DEF NoManifest
<1>3. \A p \in Procs : /\ build[p].id = 0 /\ build[p].found = 0 /\ build[p].entries = 0
                       /\ build[p].db = 0 /\ build[p].file = 0
  BY <1>1 DEF NoBuild
<1>4. /\ 0 \in 0 .. started /\ 0 \in 0 .. cleans /\ 0 \in 0 .. MaxFound
      /\ 0 \in 0 .. MaxFound + 1 /\ 0 \in 0 .. MaxBuilds /\ 0 \in 0 .. MaxCleans
  BY <1>1, BuildBounds
<1> QED
  BY <1>1, <1>2, <1>3, <1>4 DEF BuildTypeOK

LEMMA CacheNotMoved ==
    ASSUME CacheInit
    PROVE  CacheTypeOK
<1>1. /\ blobs = [k \in CacheKey |-> NoBlob] /\ op = [c \in Caches |-> NoOp] /\ ops = 0
      /\ latest = [k \in CacheKey |-> "none"]
      /\ unsure = {} /\ met = {} /\ halfGone = {}
  BY DEF CacheInit
<1>2. NoBlob \in [data : CacheData \cup {"none", "empty"}, packed : BOOLEAN]
  BY DEF NoBlob
<1>3. \A c \in Caches : op[c].kind = "none"
  BY <1>1 DEF NoOp
<1>4. 0 \in 0 .. MaxOps
  BY CacheAssumption
<1> QED
  BY <1>1, <1>2, <1>3, <1>4 DEF CacheTypeOK

LEMMA DatabaseTyped ==
    ASSUME ProjectInv
    PROVE  DbTypeOK
<1>1. CASE part = "build"
  <2>1. BuildTypeOK
    BY <1>1, BuildSound DEF ProjectInv
  <2>2. /\ DOMAIN fileRows = {} /\ DOMAIN routeRows = {} /\ DOMAIN depRows = {}
        /\ DOMAIN cacheEntries = {}
    BY <1>1 DEF ProjectInv, TablesOfThePart, NoRows
  <2> QED
    BY <2>1, <2>2 DEF BuildTypeOK, DbTypeOK
<1>2. CASE part = "cache"
  <2>1. DOMAIN cacheEntries \subseteq DbKeys
    BY <1>2, CacheAssumption DEF ProjectInv, CacheInv, CacheTypes
  <2>2. /\ DOMAIN fileRows = {} /\ DOMAIN routeRows = {} /\ DOMAIN depRows = {}
        /\ DOMAIN history = {}
    BY <1>2 DEF ProjectInv, TablesOfThePart, NoRows
  <2> QED
    BY <2>1, <2>2 DEF DbTypeOK
<1>3. CASE part \notin {"build", "cache"}
  BY <1>3, DbSound DEF ProjectInv
<1> QED
  BY <1>1, <1>2, <1>3

LEMMA ProjectTyped ==
    ASSUME ProjectInv
    PROVE  TypesOK
<1>1. DbTypeOK
  BY DatabaseTyped
<1>2. BuildTypeOK
  <2>1. CASE part = "build"
    BY <2>1, BuildSound DEF ProjectInv
  <2>2. CASE part # "build"
    BY <1>1, <2>2, BuildNotMoved DEF ProjectInv, DbTypeOK
  <2> QED
    BY <2>1, <2>2
<1>3. CacheTypeOK
  <2>1. CASE part = "cache"
    BY <2>1, CacheInvSound DEF ProjectInv
  <2>2. CASE part # "cache"
    BY <2>2, CacheNotMoved DEF ProjectInv
  <2> QED
    BY <2>1, <2>2
<1>4. PluginTypeOK /\ StoreTypeOK /\ GraphReadsTypeOK
  BY PluginSound, StoreSound DEF ProjectInv, ReadsInv
<1>5. CssTypeOK /\ AssetTypeOK /\ RoutesTypeOK /\ TimelineTypeOK
  BY CssSound, AssetsSound, RoutesSound, TimelineSound DEF ProjectInv
<1> QED
  BY <1>1, <1>2, <1>3, <1>4, <1>5 DEF TypesOK

LEMMA ProjectExact ==
    ASSUME ProjectInv
    PROVE  ReadsExact /\ CssExact /\ AssetsExact /\ RoutesExact /\ TimelineExact
<1>1. ReadsExact
  BY DbSound DEF ProjectInv, ReadsExact
<1>2. CssExact /\ AssetsExact /\ RoutesExact /\ TimelineExact
  BY CssSound, AssetsSound, RoutesSound, TimelineSound DEF ProjectInv
<1> QED
  BY <1>1, <1>2

\* What the components promise by themselves they promise put together: the rows of
\* builds and their statistics where the build command is what writes the tables,
\* the hits of the binary cache where its clients do, and the plugin manager, the
\* graph store and the readers of a graph whatever else moves.
THEOREM ProjectCorrect ==
    Spec => [](/\ BuildRowsSound /\ CacheHitsSound
               /\ PluginsRunRight /\ GraphStoreSound /\ GraphReadsSound)
<1>1. ProjectInv => /\ BuildRowsSound /\ CacheHitsSound
                    /\ PluginsRunRight /\ GraphStoreSound /\ GraphReadsSound
  BY BuildSound, CacheInvSound, PluginSound, StoreSound, StuckIsNested
     DEF ProjectInv, BuildRowsSound, CacheHitsSound, ReadsInv, GraphReadsSound
<1> QED
  BY <1>1, ProjectInvHolds, PTL

\* In the composition, as long as the build command is what writes the tables: every
\* row of a build is one that was begun, finished once with the status it deserves,
\* and the statistics and the manifest are those of a build that got that far.
THEOREM BuildRowsCorrect == Spec => []BuildRowsSound
<1> QED
  BY ProjectCorrect, PTL

\* In the composition, as long as the clients of the binary cache are what writes the
\* tables: a Get answers data that was put under its key, or misses.
THEOREM CacheHitsCorrect == Spec => []CacheHitsSound
<1> QED
  BY ProjectCorrect, PTL

\* In the composition the variables of every component have their types, those of
\* the database whoever writes its tables, and those of a component that has not
\* moved too.
THEOREM TypesOKCorrect == Spec => []TypesOK
<1> QED
  BY ProjectInvHolds, ProjectTyped, PTL

\* In the composition, as long as the calls of the database are what writes its tables:
\* every read answers what the last write of its key said (db.go:360).
THEOREM ReadsExactCorrect == Spec => []ReadsExact
<1> QED
  BY ProjectInvHolds, ProjectExact, PTL

\* In the composition the answers of the four trackers are exact: of the CSS tracker
\* what the imports say, of the asset optimizer what its files held when they were
\* read, of the route scanner what the directories held while it read them, and of the
\* timeline the time that went by in the phases.
THEOREM AnswersCorrect == Spec => [](CssExact /\ AssetsExact /\ RoutesExact /\ TimelineExact)
<1> QED
  BY ProjectInvHolds, ProjectExact, PTL

===============================================================================
