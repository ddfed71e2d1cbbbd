------------------------------- MODULE Assets -------------------------------
(***************************************************************************)
(* The asset optimizer (assets.go, optimize.go): Scan lists the files of   *)
(* the project, Optimize hashes them with several goroutines that take     *)
(* their jobs from one channel, DeduplicateByHash groups what has equal    *)
(* hashes.  One goroutine calls Scan and Optimize, another one calls       *)
(* DeduplicateByHash or WriteMetadata beside it, without a lock, and the   *)
(* files change meanwhile.  A content stands for its hash.                 *)
(***************************************************************************)
EXTENDS Listing

CONSTANTS AssetPaths,       \* numbers, in the order in which Walk meets them:
                            \* the files of one directory
          AssetKind,        \* the type of each path; "other" is no asset
          Skipped,          \* paths below node_modules, .next, .git or dist
          Contents,         \* contents, which are their sizes
          Unreadable,       \* a file that is listed and cannot be opened
          OptimizeWorkers,
          MaxAssetCalls     \* bound: calls and changes of files

ASSUME AssetsAssumption ==
    /\ AssetPaths \in SUBSET (Nat \ {0}) /\ IsFiniteSet(AssetPaths)
    /\ Contents \in SUBSET (Nat \ {0}) /\ Unreadable \in Nat \ ({0} \cup Contents)
    /\ IsFiniteSet(OptimizeWorkers) /\ MaxAssetCalls \in Nat

VARIABLES
    assetDisk,      \* the content of each file, 0 if there is none
    assetFiles,     \* Optimizer.files
    caller,         \* what the first goroutine is in
    toVisit,        \* the files that Walk has listed and not visited
    jobs,           \* the indexes left in the channel
    optWorker,      \* what each goroutine of Optimize has of its job
    hashes, results,    \* of Optimize
    applied,        \* how many hashes have gone to the files
    other,          \* the second goroutine and its locals
    alone,          \* history: no Optimize ran beside its call
    assetCalls,
    changedAt       \* history: files that changed since the last Optimize began, or
                    \* earlier if an older hash was still to be stored then

diskAndFiles == <<assetDisk, assetFiles>>
optimizeVars == <<jobs, optWorker, hashes, results, applied>>
otherVars == <<other, alone>>
assetVars == <<diskAndFiles, caller, toVisit, optimizeVars, otherVars, assetCalls, changedAt>>

NoAsset == 0
NotHashed == 0
NoResult == [path |-> 0, hash |-> NotHashed, size |-> 0, saved |-> 0]
IdleWorker == [at |-> "free"]
NoOtherCall == [at |-> "idle", next |-> 1, held |-> NotHashed, told |-> <<>>]

\* hashFile: no hash and no size for a file that cannot be opened.  The hash of
\* that empty hash is a number like any other.
HashFile(p) == IF assetDisk[p] \in {NoAsset, Unreadable} THEN Unreadable ELSE assetDisk[p]
HashedSize(p) == IF HashFile(p) = Unreadable THEN 0 ELSE assetDisk[p]

MayBeAsset(p) == p \notin Skipped /\ AssetKind[p] # "other"

AssetInit ==
    /\ assetDisk \in [AssetPaths -> Contents \cup {Unreadable}]
    /\ \A p \in AssetPaths : MayBeAsset(p) \/ assetDisk[p] = Unreadable
    /\ assetFiles = <<>> /\ caller = "idle" /\ toVisit = <<>>
    /\ jobs = <<>> /\ hashes = <<>> /\ results = <<>> /\ applied = 0
    /\ optWorker = [w \in OptimizeWorkers |-> IdleWorker]
    /\ other = NoOtherCall /\ alone = TRUE
    /\ assetCalls = 0 /\ changedAt = {}

AssetCall == assetCalls < MaxAssetCalls /\ assetCalls' = assetCalls + 1

\* The environment: a file changes or is removed.
ChangeAsset(p) ==
    /\ AssetCall /\ MayBeAsset(p)
    /\ \E c \in (Contents \cup {NoAsset}) \ {assetDisk[p]} :
        assetDisk' = [assetDisk EXCEPT ![p] = c]
    /\ changedAt' = changedAt \cup {p}
    /\ UNCHANGED <<assetFiles, caller, toVisit, optimizeVars, otherVars>>

-----------------------------------------------------------------------------
(* The first goroutine                                                     *)

\* Nothing else is called before Scan, which appends to the list, is over.
AssetScanBegin ==
    /\ AssetCall /\ caller = "idle" /\ other.at \in {"idle", "told"}
    /\ caller' = "scan"
    /\ toVisit' = InOrder({p \in AssetPaths : p \notin Skipped /\ assetDisk[p] # NoAsset})
    /\ UNCHANGED <<diskAndFiles, optimizeVars, otherVars, changedAt>>

\* Every asset that is still there is appended, also if an earlier Scan has listed it.
IsAsset(p) == MayBeAsset(p) /\ assetDisk[p] # NoAsset
AssetScanVisit ==
    /\ caller = "scan" /\ toVisit # <<>>
    /\ LET p == Head(toVisit) IN
       assetFiles' = IF IsAsset(p)
            THEN Append(assetFiles, [path |-> p, type |-> AssetKind[p], size |-> assetDisk[p],
                                     hash |-> NotHashed])
            ELSE assetFiles
    /\ toVisit' = Tail(toVisit)
    /\ UNCHANGED <<assetDisk, caller, optimizeVars, otherVars, assetCalls, changedAt>>

AssetScanEnd ==
    /\ caller = "scan" /\ toVisit = <<>>
    /\ caller' = "idle"
    /\ UNCHANGED <<diskAndFiles, toVisit, optimizeVars, otherVars, assetCalls, changedAt>>

\* All jobs are in the channel, which is closed, before a worker starts.
OptimizeBegin ==
    /\ AssetCall /\ caller = "idle"
    /\ caller' = "optimize"
    /\ jobs' = [i \in DOMAIN assetFiles |-> i]
    /\ hashes' = [i \in DOMAIN assetFiles |-> Unreadable]
    /\ results' = [i \in DOMAIN assetFiles |-> NoResult]
    /\ applied' = 0
    /\ alone' = FALSE
    /\ changedAt' = IF other.at = "store" THEN changedAt \cap {assetFiles[other.next].path} ELSE {}
    /\ UNCHANGED <<diskAndFiles, toVisit, optWorker, other>>

\* A worker takes the next index and reads the file.
WorkerHashes(w) ==
    /\ optWorker[w] = IdleWorker /\ jobs # <<>>
    /\ jobs' = Tail(jobs)
    /\ LET p == assetFiles[Head(jobs)].path IN
       optWorker' = [optWorker EXCEPT ![w] =
            [at |-> "hashed", idx |-> Head(jobs), hash |-> HashFile(p), size |-> HashedSize(p)]]
    /\ UNCHANGED <<diskAndFiles, caller, toVisit, hashes, results, applied, otherVars, assetCalls, changedAt>>

WorkerStoresHash(w) ==
    /\ optWorker[w].at = "hashed"
    /\ hashes' = [hashes EXCEPT ![optWorker[w].idx] = optWorker[w].hash]
    /\ optWorker' = [optWorker EXCEPT ![w].at = "stored"]
    /\ UNCHANGED <<diskAndFiles, caller, toVisit, jobs, results, applied, otherVars, assetCalls, changedAt>>

WorkerStoresResult(w) ==
    /\ optWorker[w].at = "stored"
    /\ LET job == optWorker[w]
           f == assetFiles[job.idx]
       IN  /\ assetFiles' = [assetFiles EXCEPT ![job.idx].hash = NotHashed]
           /\ results' = [results EXCEPT ![job.idx] =
                [path |-> f.path, hash |-> job.hash, size |-> f.size,
                 saved |-> f.size - job.size]]
    /\ optWorker' = [optWorker EXCEPT ![w] = IdleWorker]
    /\ UNCHANGED <<assetDisk, caller, toVisit, jobs, hashes, applied, otherVars, assetCalls, changedAt>>

\* Wrong on purpose: it waits for the channel to be empty, not for the workers.
WaitForJobs == caller = "optimize" /\ jobs = <<>>

\* wg.Wait
WaitForWorkers ==
    /\ caller = "optimize" /\ jobs = <<>>
    /\ \A w \in OptimizeWorkers : optWorker[w] = IdleWorker

OptimizeWaits ==
    /\ WaitForWorkers
    /\ caller' = "apply"
    /\ UNCHANGED <<diskAndFiles, toVisit, optimizeVars, otherVars, assetCalls, changedAt>>

\* The hashes go to the files, one by one.
OptimizeApplies ==
    /\ caller = "apply" /\ applied < Len(assetFiles)
    /\ applied' = applied + 1
    /\ assetFiles' = [assetFiles EXCEPT ![applied'].hash = hashes[applied']]
    /\ UNCHANGED <<assetDisk, caller, toVisit, jobs, optWorker, hashes, results, otherVars,
                   assetCalls, changedAt>>

OptimizeEnds ==
    /\ caller = "apply" /\ applied = Len(assetFiles)
    /\ caller' = "idle"
    /\ UNCHANGED <<diskAndFiles, toVisit, optimizeVars, otherVars, assetCalls, changedAt>>

-----------------------------------------------------------------------------
(* The second goroutine                                                    *)

HashMissingBegin ==
    /\ AssetCall /\ caller # "scan" /\ other.at \in {"idle", "told"}
    /\ other' = [NoOtherCall EXCEPT !.at = "check"]
    /\ alone' = (caller = "idle")
    /\ UNCHANGED <<diskAndFiles, caller, toVisit, optimizeVars, changedAt>>

\* Is the next file's hash 0?
HashMissingCheck ==
    /\ other.at = "check" /\ other.next <= Len(assetFiles)
    /\ other' = IF assetFiles[other.next].hash = NotHashed THEN [other EXCEPT !.at = "read"]
                ELSE [other EXCEPT !.next = @ + 1]
    /\ UNCHANGED <<diskAndFiles, caller, toVisit, optimizeVars, alone, assetCalls, changedAt>>

HashMissingRead ==
    /\ other.at = "read"
    /\ other' = [other EXCEPT !.at = "store", !.held = HashFile(assetFiles[other.next].path)]
    /\ UNCHANGED <<diskAndFiles, caller, toVisit, optimizeVars, alone, assetCalls, changedAt>>

HashMissingStore ==
    /\ other.at = "store"
    /\ assetFiles' = [assetFiles EXCEPT ![other.next].hash = other.held]
    /\ other' = [other EXCEPT !.at = "check", !.next = @ + 1, !.held = NotHashed]
    /\ UNCHANGED <<assetDisk, caller, toVisit, optimizeVars, alone, assetCalls, changedAt>>

\* WriteMetadata is over, DeduplicateByHash goes on.
HashMissingEnd ==
    /\ other.at = "check" /\ other.next > Len(assetFiles)
    /\ other' = NoOtherCall \/ other' = [NoOtherCall EXCEPT !.at = "group"]
    /\ UNCHANGED <<diskAndFiles, caller, toVisit, optimizeVars, alone, assetCalls, changedAt>>

\* A file is put into the group of its hash.
GroupNext ==
    /\ other.at = "group" /\ other.next <= Len(assetFiles)
    /\ other' = [other EXCEPT !.next = @ + 1, !.told = Append(@, assetFiles[other.next].hash)]
    /\ UNCHANGED <<diskAndFiles, caller, toVisit, optimizeVars, alone, assetCalls, changedAt>>

GroupEnd ==
    /\ other.at = "group" /\ other.next > Len(assetFiles)
    /\ other' = [other EXCEPT !.at = "told"]
    /\ UNCHANGED <<diskAndFiles, caller, toVisit, optimizeVars, alone, assetCalls, changedAt>>

-----------------------------------------------------------------------------

OptimizeNext ==
    \/ OptimizeBegin \/ OptimizeWaits \/ OptimizeApplies \/ OptimizeEnds
    \/ \E w \in OptimizeWorkers :
        WorkerHashes(w) \/ WorkerStoresHash(w) \/ WorkerStoresResult(w)

DeduplicateNext ==
    \/ HashMissingBegin \/ HashMissingCheck \/ HashMissingRead \/ HashMissingStore
    \/ HashMissingEnd \/ GroupNext \/ GroupEnd

AssetNext ==
    \/ \E p \in AssetPaths : ChangeAsset(p)
    \/ AssetScanBegin \/ AssetScanVisit \/ AssetScanEnd
    \/ OptimizeNext \/ DeduplicateNext

AssetSpec == AssetInit /\ [][AssetNext]_assetVars

\* The groups of files with one hash (DeduplicateByHash), or one size (Deduplicate).
Groups(f) ==
    {group \in {{i \in DOMAIN f : f[i] = x} : x \in {f[i] : i \in DOMAIN f}} :
        Cardinality(group) > 1}
DeduplicateByHash == Groups(other.told)
Deduplicate == Groups([i \in DOMAIN assetFiles |-> assetFiles[i].size])

AssetTypeOK ==
    /\ \A i \in DOMAIN assetFiles : assetFiles[i].path \in AssetPaths \ Skipped
    /\ \A n \in DOMAIN jobs : jobs[n] \in DOMAIN assetFiles
    /\ DOMAIN hashes = DOMAIN results /\ applied \in 0 .. Len(assetFiles)
    /\ caller \in {"idle", "scan", "optimize", "apply"} /\ assetCalls \in 0 .. MaxAssetCalls
    /\ other.at \in {"idle", "check", "read", "store", "group", "told"}
    /\ other.next \in 1 .. Len(assetFiles) + 1
    /\ alone \in BOOLEAN /\ changedAt \subseteq AssetPaths

-----------------------------------------------------------------------------
(* Properties                                                              *)

\* While Optimize runs every job is in the channel, with one worker, or done: none
\* is lost and none taken twice.
JobsOnce ==
    caller = "optimize" => \A i \in DOMAIN assetFiles :
        Cardinality({n \in DOMAIN jobs : jobs[n] = i})
      + Cardinality({w \in OptimizeWorkers : optWorker[w] # IdleWorker /\ optWorker[w].idx = i})
      + (IF results[i] # NoResult THEN 1 ELSE 0) = 1

Optimized == caller \in {"idle", "scan"}

\* What Optimize returned has one result for each file listed when it began, with
\* the hash of what the file held, and so has the list, although the second
\* goroutine hashes files beside it: only a file that changed since Optimize began,
\* or since that goroutine read it for a hash it had yet to store then, may have
\* another one.
OptimizeExact ==
    Optimized => \A i \in DOMAIN results :
        /\ results[i].path = assetFiles[i].path
        /\ results[i].path \notin changedAt =>
            results[i].hash = HashFile(results[i].path) /\ assetFiles[i].hash = results[i].hash

\* Two files are in one group of DeduplicateByHash exactly if their contents are
\* equal, unless an Optimize ran beside the call, whose workers set to 0 the hashes
\* it groups by; but all files that could not be read, and the same file listed
\* twice, count as equal too.
GroupsExact ==
    other.at = "told" /\ alone => \A i, j \in DOMAIN other.told :
        {assetFiles[i].path, assetFiles[j].path} \cap changedAt = {} /\ i # j =>
            ((\E group \in DeduplicateByHash : {i, j} \subseteq group)
                <=> HashFile(assetFiles[i].path) = HashFile(assetFiles[j].path))

AssetsExact == JobsOnce /\ OptimizeExact /\ GroupsExact

=============================================================================
