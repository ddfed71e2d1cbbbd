----------------------------- MODULE BinaryCache -----------------------------
(***************************************************************************)
(* The binary cache (cache.go): for each key a file in a directory and a   *)
(* row in the database.  A client is a Cache in a process of its own: one  *)
(* Cache's calls exclude each other by its lock, two Caches' do not.  Any  *)
(* process may be killed between two steps, and `cache purge` (cli/        *)
(* cache.go) deletes rows without asking anyone.                           *)
(***************************************************************************)
EXTENDS Database

CONSTANTS Caches,       \* clients
          Compressing,  \* the clients that were made with compress
          CacheData,    \* what is stored
          BigData,      \* of it, what zstd makes smaller and is longer than 1024 bytes
          CacheKey,     \* the keys
          MaxOps        \* bound: calls of the clients

ASSUME CacheAssumption ==
    "none" \notin CacheData /\ MaxOps \in Nat /\ CacheKey \subseteq DbKeys

VARIABLES
    blobs,      \* the .bin file of each key
    op,         \* the call each client is in
    ops,        \* number of calls so far
    latest,     \* history: what was put last under each key
    unsure,     \* history: keys whose file and row two calls handled at once,
                \* or a call that was killed
    met,        \* history: the clients whose call met another on one of its keys
    halfGone    \* history: keys whose file was removed and the row was not

cacheVars == <<blobs, op, ops, latest, unsure, met, halfGone>>
otherTables == <<fileRows, depRows, routeRows, statRows, benchRows, history, purging, dbLog>>

NoBlob == [data |-> "none", packed |-> FALSE]
EmptyBlob == [data |-> "empty", packed |-> FALSE]
NoOp == [kind |-> "none"]
Miss == [hit |-> FALSE]

Packs(c, d) == c \in Compressing /\ d \in BigData

CacheTypeOK ==
    /\ blobs \in [CacheKey -> [data : CacheData \cup {"none", "empty"}, packed : BOOLEAN]]
    /\ \A c \in Caches : op[c].kind \in {"none", "create", "write", "upsert", "lookup", "read",
                                         "got", "unlink", "delete", "sweep", "purge"}
    /\ ops \in 0 .. MaxOps
    /\ latest \in [CacheKey -> CacheData \cup {"none"}]
    /\ unsure \subseteq CacheKey /\ halfGone \subseteq CacheKey /\ met \subseteq Caches

CacheInit ==
    /\ blobs = [k \in CacheKey |-> NoBlob]
    /\ op = [c \in Caches |-> NoOp] /\ ops = 0
    /\ latest = [k \in CacheKey |-> "none"]
    /\ unsure = {} /\ met = {} /\ halfGone = {}

-----------------------------------------------------------------------------

\* The keys a client's call handles.
Handles(c) == CASE op[c].kind \in {"none", "got"} -> {}
                [] op[c].kind \in {"sweep", "purge"} -> CacheKey
                [] OTHER -> {op[c].key}

Set(c, o) == op' = [op EXCEPT ![c] = o]

Others(c, keys) == {d \in Caches \ {c} : Handles(d) \cap keys # {}}

\* A call that meets another on a key: both have met, and the key is not sure.
Begin(c, o, keys) ==
    /\ op[c].kind \in {"none", "got"} /\ ops < MaxOps
    /\ ops' = ops + 1
    /\ Set(c, o)
    /\ unsure' = unsure \cup (keys \cap UNION {Handles(d) : d \in Others(c, keys)})
    /\ met' = (met \ {c}) \cup Others(c, keys) \cup (IF Others(c, keys) = {} THEN {} ELSE {c})
    /\ UNCHANGED <<blobs, latest, halfGone, cacheEntries>>

\* A call that met no other leaves file and row in agreement.
Settle(c, keys) ==
    /\ unsure' = IF c \in met THEN unsure ELSE unsure \ keys
    /\ met' = met \ {c}

PutBegin(c) == \E k \in CacheKey, d \in CacheData : Begin(c, [kind |-> "create", key |-> k, data |-> d], {k})
GetBegin(c) == \E k \in CacheKey : Begin(c, [kind |-> "lookup", key |-> k], {k})
RemoveBegin(c) == \E k \in CacheKey : Begin(c, [kind |-> "unlink", key |-> k], {k})
PurgeBegin(c) == Begin(c, [kind |-> "sweep", left |-> {k \in CacheKey : blobs[k] # NoBlob}], CacheKey)

\* os.WriteFile empties the file, then writes it.  What is stored may be compressed.
PutCreate(c) ==
    /\ op[c].kind = "create"
    /\ blobs' = [blobs EXCEPT ![op[c].key] = EmptyBlob]
    /\ Set(c, [kind |-> "write", key |-> op[c].key, data |-> op[c].data])
    /\ UNCHANGED <<ops, latest, unsure, met, halfGone, cacheEntries>>

PutWrite(c) ==
    /\ op[c].kind = "write"
    /\ blobs' = [blobs EXCEPT ![op[c].key] = [data |-> op[c].data, packed |-> Packs(c, op[c].data)]]
    /\ Set(c, [kind |-> "upsert", key |-> op[c].key, data |-> op[c].data])
    /\ UNCHANGED <<ops, latest, unsure, met, halfGone, cacheEntries>>

\* Wrong on purpose: the row does not say that the file is compressed.
PutUpsertPlain(c) ==
    /\ op[c].kind = "upsert"
    /\ UpsertCacheEntry(op[c].key, [size |-> 1, compressed |-> FALSE])
    /\ latest' = [latest EXCEPT ![op[c].key] = op[c].data]
    /\ Settle(c, {op[c].key})
    /\ halfGone' = halfGone \ {op[c].key}
    /\ Set(c, NoOp)
    /\ UNCHANGED <<blobs, ops>>

\* The row is written last.
PutUpsert(c) ==
    /\ op[c].kind = "upsert"
    /\ UpsertCacheEntry(op[c].key, [size |-> 1, compressed |-> Packs(c, op[c].data)])
    /\ latest' = [latest EXCEPT ![op[c].key] = op[c].data]
    /\ Settle(c, {op[c].key})
    /\ halfGone' = halfGone \ {op[c].key}
    /\ Set(c, NoOp)
    /\ UNCHANGED <<blobs, ops>>

\* Get returns what it found; the call's keys are then no longer handled.
Answer(c, result) == Set(c, [kind |-> "got", key |-> op[c].key, result |-> result,
                             expected |-> latest[op[c].key],
                             sure |-> op[c].key \notin unsure /\ c \notin met])

GetLookup(c) ==
    /\ op[c].kind = "lookup"
    /\ IF GetCacheEntry(op[c].key) = {} THEN Answer(c, Miss)
       ELSE Set(c, [kind |-> "read", key |-> op[c].key,
                    compressed |-> cacheEntries[op[c].key].compressed])
    /\ UNCHANGED <<blobs, ops, latest, unsure, met, halfGone, cacheEntries>>

\* What is decompressed must be compressed, or empty: anything else is a miss.  A
\* client without compression returns the bytes as they are.
Decoded(c, blob, compressed) ==
    IF ~(compressed /\ c \in Compressing) THEN [hit |-> TRUE, bytes |-> blob]
    ELSE IF blob.packed THEN [hit |-> TRUE, bytes |-> [data |-> blob.data, packed |-> FALSE]]
    ELSE IF blob = EmptyBlob THEN [hit |-> TRUE, bytes |-> blob]
    ELSE Miss

GetRead(c) ==
    /\ op[c].kind = "read"
    /\ LET blob == blobs[op[c].key] IN
       Answer(c, IF blob = NoBlob THEN Miss ELSE Decoded(c, blob, op[c].compressed))
    /\ UNCHANGED <<blobs, ops, latest, unsure, met, halfGone, cacheEntries>>

\* os.Remove may fail, and Remove does not look.
RemoveFile(c) ==
    /\ op[c].kind = "unlink"
    /\ \/ blobs' = [blobs EXCEPT ![op[c].key] = NoBlob] /\ halfGone' = halfGone \cup {op[c].key}
       \/ UNCHANGED <<blobs, halfGone>>
    /\ Set(c, [kind |-> "delete", key |-> op[c].key])
    /\ UNCHANGED <<ops, latest, unsure, met, cacheEntries>>

RemoveRow(c) ==
    /\ op[c].kind = "delete"
    /\ DeleteCacheEntry(op[c].key)
    /\ latest' = [latest EXCEPT ![op[c].key] = "none"]
    /\ Settle(c, {op[c].key})
    /\ halfGone' = halfGone \ {op[c].key}
    /\ Set(c, NoOp)
    /\ UNCHANGED <<blobs, ops>>

\* The files there were when the directory was read, some of which stay.
PurgeFile(c) ==
    /\ op[c].kind = "sweep"
    /\ \E k \in op[c].left :
        /\ \/ blobs' = [blobs EXCEPT ![k] = NoBlob] /\ halfGone' = halfGone \cup {k}
           \/ UNCHANGED <<blobs, halfGone>>
        /\ Set(c, [kind |-> "sweep", left |-> op[c].left \ {k}])
    /\ UNCHANGED <<ops, latest, unsure, met, cacheEntries>>

NothingCached == latest' = [k \in CacheKey |-> "none"] /\ halfGone' = {}

PurgeRows(c) ==
    /\ op[c].kind = "sweep" /\ op[c].left = {}
    /\ PurgeCache
    /\ NothingCached
    /\ Settle(c, CacheKey)
    /\ Set(c, NoOp)
    /\ UNCHANGED <<blobs, ops>>

\* `cache purge`: the rows, not the files.
CliPurge ==
    /\ ops < MaxOps
    /\ ops' = ops + 1
    /\ PurgeCache
    /\ NothingCached
    /\ unsure' = unsure \cup UNION {Handles(d) : d \in Caches}
    /\ met' = met \cup {d \in Caches : Handles(d) # {}}
    /\ UNCHANGED <<blobs, op>>

\* The process of a client is killed, and started again.
CacheKill(c) ==
    /\ Handles(c) # {}
    /\ unsure' = unsure \cup (IF op[c].kind \in {"lookup", "read", "create", "unlink"}
                             THEN {} ELSE Handles(c))
    /\ met' = met \ {c}
    /\ Set(c, NoOp)
    /\ UNCHANGED <<blobs, ops, latest, halfGone, cacheEntries>>

CacheNext ==
    /\ \/ \E c \in Caches :
            \/ PutBegin(c) \/ PutCreate(c) \/ PutWrite(c) \/ PutUpsert(c)
            \/ GetBegin(c) \/ GetLookup(c) \/ GetRead(c)
            \/ RemoveBegin(c) \/ RemoveFile(c) \/ RemoveRow(c)
            \/ PurgeBegin(c) \/ PurgeFile(c) \/ PurgeRows(c)
            \/ CacheKill(c)
       \/ CliPurge
    /\ UNCHANGED otherTables

CacheSpec == DbInit /\ CacheInit /\ [][CacheNext]_<<dbVars, cacheVars>>

-----------------------------------------------------------------------------
(* Properties                                                              *)

\* A Get that no other call on its key met, on a key whose last call was not cut
\* short, returns exactly what was put last, or misses if nothing is; the bytes
\* come back compressed only to a client without compression.
HitIsLastPut ==
    \A c \in Caches :
        op[c].kind = "got" /\ op[c].sure =>
            LET result == op[c].result
                stored == op[c].expected
            IN IF ~result.hit THEN stored = "none"
               ELSE /\ result.bytes.data = stored
                    /\ result.bytes.packed => c \notin Compressing

\* A row without its file, for which Has is true and Get misses, is left only where
\* a Remove or a Purge got no further than the file, or calls met on the key.
RowHasFile ==
    \A k \in DOMAIN cacheEntries : blobs[k] = NoBlob => k \in halfGone \cup unsure

CacheSound == HitIsLastPut /\ RowHasFile

=============================================================================
