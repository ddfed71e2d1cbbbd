------------------------------ MODULE Database ------------------------------
(***************************************************************************)
(* The build database (db.go): its tables, and what each method does to    *)
(* them.  A statement is one step: SQLite makes it atomic, and the DB's    *)
(* lock orders the statements of one process.  A table with a primary key  *)
(* is a function from its keys, the others are sequences of rows in the    *)
(* order of their ids.  DbNext is any caller: other modules use the        *)
(* methods as parts of their own actions.                                  *)
(***************************************************************************)
EXTENDS Naturals, Sequences, FiniteSets, TLC

CONSTANTS DbKeys,       \* paths, keys, names and build ids
          DbVals,       \* hashes and values
          MaxCalls      \* bound: calls of DbNext

ASSUME DbAssumption == DbVals \subseteq Nat \ {0}

VARIABLES
    fileRows, depRows, routeRows, cacheEntries, statRows, benchRows, history,
    purging,    \* the tables PurgeAll has still to empty
    dbLog       \* history: the calls, in their order

tables == <<fileRows, depRows, routeRows, cacheEntries, statRows, benchRows, history>>
dbVars == <<tables, purging, dbLog>>

NoRows == [k \in {} |-> k]

\* The tables exist and are empty after the first Open; a later one keeps them.
EmptyTables ==
    /\ fileRows = NoRows /\ depRows = NoRows /\ routeRows = NoRows /\ cacheEntries = NoRows
    /\ statRows = <<>> /\ benchRows = <<>> /\ history = <<>>

Without(table, keys) == [k \in DOMAIN table \ keys |-> table[k]]
Replace(table, k, row) ==
    [j \in DOMAIN table \cup {k} |-> IF j = k THEN row ELSE table[j]]

UpsertFile(p, row) == fileRows' = Replace(fileRows, p, row)
GetFile(p) == {fileRows[k] : k \in DOMAIN fileRows \cap {p}}
ListFiles == {<<k, fileRows[k]>> : k \in DOMAIN fileRows}
FileCount == Cardinality(DOMAIN fileRows)
DeleteFile(p) == fileRows' = Without(fileRows, {p})

\* The key has the edge's type too, the row whether it is dynamic.
UpsertDependency(s, t, type, dynamic) ==
    depRows' = Replace(depRows, <<s, t, type>>, dynamic)
GetDependencies(s) == {<<d, depRows[d]>> : d \in {e \in DOMAIN depRows : e[1] = s}}
GetDependents(t) == {<<d, depRows[d]>> : d \in {e \in DOMAIN depRows : e[2] = t}}

\* Wrong on purpose: by the target.
ClearDependenciesOn(t) ==
    depRows' = Without(depRows, {e \in DOMAIN depRows : e[2] = t})

ClearDependencies(s) ==
    depRows' = Without(depRows, {e \in DOMAIN depRows : e[1] = s})

UpsertRoute(p, row) == routeRows' = Replace(routeRows, p, row)
ListRoutes == {<<k, routeRows[k]>> : k \in DOMAIN routeRows}
ClearRoutes == routeRows' = NoRows

UpsertCacheEntry(k, row) == cacheEntries' = Replace(cacheEntries, k, row)
GetCacheEntry(k) == {cacheEntries[j] : j \in DOMAIN cacheEntries \cap {k}}
DeleteCacheEntry(k) == cacheEntries' = Without(cacheEntries, {k})
PurgeCache == cacheEntries' = NoRows

SumOf(f) ==
    LET sum[S \in SUBSET DOMAIN f] ==
            IF S = {} THEN 0
            ELSE LET k == CHOOSE k \in S : TRUE IN f[k].size + sum[S \ {k}]
    IN sum[DOMAIN f]

CacheSize == SumOf(cacheEntries)
CacheCount == Cardinality(DOMAIN cacheEntries)

RecordStat(id, key, value) == statRows' = Append(statRows, [of |-> id, key |-> key, value |-> value])
RecordBenchmark(name, metric, value) ==
    benchRows' = Append(benchRows, [of |-> name, key |-> metric, value |-> value])

\* The rows of a build or a name, in a map from their keys: a later row of a
\* key overwrites the earlier.
LastOf(rows, id) ==
    LET mine == {i \in DOMAIN rows : rows[i].of = id} IN
    [k \in {rows[i].key : i \in mine} |->
        rows[CHOOSE i \in mine : /\ rows[i].key = k
                                 /\ \A j \in mine : rows[j].key = k => j <= i].value]

GetStats(id) == LastOf(statRows, id)
GetBenchmarks(name) == LastOf(benchRows, name)

\* finished_at is NULL until FinishBuild, and the metrics with it.
StartBuild(id) ==
    history' = Append(history, [id |-> id, status |-> "running", finished |-> FALSE, scanned |-> 0])

\* Wrong on purpose: without the WHERE.
FinishEveryBuild(id, status, scanned) ==
    history' = [i \in DOMAIN history |-> [id |-> history[i].id, status |-> status,
                                           finished |-> TRUE, scanned |-> scanned]]

\* Every row with the id: nothing makes it unique.
FinishBuild(id, status, scanned) ==
    history' = [i \in DOMAIN history |->
        IF history[i].id = id
        THEN [id |-> id, status |-> status, finished |-> TRUE, scanned |-> scanned]
        ELSE history[i]]

\* The last rows, newest first.  The NULL of a row that is not finished cannot
\* be read into a string: then all of the call fails.
HistoryWindow(limit) ==
    IF limit < Len(history) THEN Len(history) - limit + 1 .. Len(history) ELSE DOMAIN history
HistoryFails(limit) == \E i \in HistoryWindow(limit) : ~history[i].finished
GetBuildHistory(limit) ==
    IF HistoryFails(limit) THEN <<>>
    ELSE [n \in 1 .. Cardinality(HistoryWindow(limit)) |-> history[Len(history) + 1 - n]]

\* PurgeAll empties one table after the other, without a transaction.
TableOrder == <<"files", "dependencies", "routes", "cacheEntries", "stats", "benchmarks", "history">>

EmptyTable(t) ==
    /\ fileRows' = IF t = "files" THEN NoRows ELSE fileRows
    /\ depRows' = IF t = "dependencies" THEN NoRows ELSE depRows
    /\ routeRows' = IF t = "routes" THEN NoRows ELSE routeRows
    /\ cacheEntries' = IF t = "cacheEntries" THEN NoRows ELSE cacheEntries
    /\ statRows' = IF t = "stats" THEN <<>> ELSE statRows
    /\ benchRows' = IF t = "benchmarks" THEN <<>> ELSE benchRows
    /\ history' = IF t = "history" THEN <<>> ELSE history

-----------------------------------------------------------------------------
(* Any caller.  The process that runs PurgeAll holds its lock: calls in    *)
(* between are another process's, and it may be killed in between.         *)

DbInit == EmptyTables /\ purging = <<>> /\ dbLog = <<>>

Logged(does, t, k, v) == dbLog' = Append(dbLog, [op |-> does, table |-> t, key |-> k, value |-> v])

DbCall ==
    /\ Len(dbLog) < MaxCalls
    /\ \/ /\ \E k \in DbKeys, v \in DbVals :
                \/ UpsertFile(k, v) /\ Logged("write", "files", k, v)
                \/ DeleteFile(k) /\ Logged("drop", "files", k, v)
          /\ UNCHANGED <<depRows, routeRows, cacheEntries, statRows, benchRows, history>>
       \/ /\ \E s, t \in DbKeys, dynamic \in BOOLEAN :
                \/ /\ UpsertDependency(s, t, "static", dynamic)
                   /\ Logged("write", "dependencies", <<s, t, "static">>, dynamic)
                \/ ClearDependencies(s) /\ Logged("drop", "dependencies", s, s)
          /\ UNCHANGED <<fileRows, routeRows, cacheEntries, statRows, benchRows, history>>
       \/ /\ \E k \in DbKeys : \/ UpsertRoute(k, k) /\ Logged("write", "routes", k, k)
                               \/ ClearRoutes /\ Logged("empty", "routes", "all", "all")
          /\ UNCHANGED <<fileRows, depRows, cacheEntries, statRows, benchRows, history>>
       \/ /\ \E k \in DbKeys, v \in DbVals :
                \/ UpsertCacheEntry(k, [size |-> v]) /\ Logged("write", "cacheEntries", k, [size |-> v])
                \/ DeleteCacheEntry(k) /\ Logged("drop", "cacheEntries", k, v)
                \/ PurgeCache /\ Logged("empty", "cacheEntries", "all", "all")
          /\ UNCHANGED <<fileRows, depRows, routeRows, statRows, benchRows, history>>
       \/ /\ \E k \in DbKeys, v \in DbVals : RecordStat(k, "m", v) /\ Logged("write", "stats", k, v)
          /\ UNCHANGED <<fileRows, depRows, routeRows, cacheEntries, benchRows, history>>
       \/ /\ \E k \in DbKeys, v \in DbVals : RecordBenchmark("b", k, v) /\ Logged("write", "benchmarks", k, v)
          /\ UNCHANGED <<fileRows, depRows, routeRows, cacheEntries, statRows, history>>
       \/ /\ \E k \in DbKeys : \/ StartBuild(k) /\ Logged("write", "history", k, "running")
                               \/ FinishBuild(k, "success", 1) /\ Logged("finish", "history", k, "success")
          /\ UNCHANGED <<fileRows, depRows, routeRows, cacheEntries, statRows, benchRows>>
    /\ UNCHANGED purging

PurgeAll ==
    /\ purging = <<>> /\ Len(dbLog) < MaxCalls
    /\ purging' = TableOrder
    /\ Logged("purge", "all", "all", "all")
    /\ UNCHANGED tables

PurgeTable ==
    /\ purging # <<>>
    /\ EmptyTable(Head(purging))
    /\ purging' = Tail(purging)
    /\ Logged("empty", Head(purging), "all", "all")

PurgeCut ==
    /\ purging # <<>>
    /\ purging' = <<>>
    /\ UNCHANGED <<tables, dbLog>>

DbNext == DbCall \/ PurgeAll \/ PurgeTable \/ PurgeCut

DbSpec == DbInit /\ [][DbNext]_dbVars

DbTypeOK ==
    /\ DOMAIN fileRows \subseteq DbKeys /\ DOMAIN routeRows \subseteq DbKeys
    /\ DOMAIN depRows \subseteq DbKeys \X DbKeys \X {"static"}
    /\ DOMAIN cacheEntries \subseteq DbKeys
    /\ \A i \in DOMAIN history : history[i].status \in {"running", "dry-run", "failed", "success"}

-----------------------------------------------------------------------------
(* What the reads answer, told from the calls alone                        *)

\* The calls that write a key, and those that delete it, alone or with its table.
Writes(t, k) == {i \in DOMAIN dbLog : dbLog[i].op = "write" /\ dbLog[i].table = t /\ dbLog[i].key = k}
Drops(t, k) ==
    {i \in DOMAIN dbLog : /\ dbLog[i].table = t
                          /\ dbLog[i].op = "empty" \/ (dbLog[i].op = "drop" /\ dbLog[i].key = k)}

\* The value of the last of those calls, if that is a write.  Deleting may go by
\* another key: all dependencies of a file.
LastWrite(t, k, dropKey) ==
    {dbLog[i].value : i \in {j \in Writes(t, k) : \A n \in Writes(t, k) \cup Drops(t, dropKey) : n <= j}}

\* The builds started since the history was last emptied, and whether one with the
\* id was finished afterwards.
Started ==
    {i \in DOMAIN dbLog : /\ dbLog[i].op = "write" /\ dbLog[i].table = "history"
                          /\ \A n \in DOMAIN dbLog :
                                dbLog[n].op = "empty" /\ dbLog[n].table = "history" => n < i}
FinishedAfter(i) ==
    \E n \in DOMAIN dbLog : n > i /\ dbLog[n].op = "finish" /\ dbLog[n].key = dbLog[i].key

\* Whatever was called, and however far PurgeAll came, every read answers what
\* the last write of its key says, as far as nothing deleted it since.  The last
\* builds can be read if and only if each of them was finished after it was
\* started.
ReadsAnswerTheLastWrite ==
    /\ \A k \in DbKeys :
        /\ GetFile(k) = LastWrite("files", k, k)
        /\ GetCacheEntry(k) = LastWrite("cacheEntries", k, k)
        /\ {r \in ListRoutes : r[1] = k} = {<<k, r>> : r \in LastWrite("routes", k, k)}
        /\ \A target \in DbKeys :
            LET last == LastWrite("dependencies", <<k, target, "static">>, k)
            IN  /\ {d[2] : d \in {e \in GetDependents(target) : e[1][1] = k}} = last
                /\ {d[2] : d \in {e \in GetDependencies(k) : e[1][2] = target}} = last
        /\ {GetStats(k)[m] : m \in DOMAIN GetStats(k)} = LastWrite("stats", k, k)
        /\ {GetBenchmarks("b")[m] : m \in DOMAIN GetBenchmarks("b") \cap {k}} = LastWrite("benchmarks", k, k)
    /\ FileCount = Cardinality(ListFiles)
    /\ CacheSize >= CacheCount
    /\ HistoryFails(2) <=>
        \E i \in Started : Cardinality({n \in Started : n >= i}) <= 2 /\ ~FinishedAfter(i)

=============================================================================
