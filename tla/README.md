# EffectiveNext in TLA+

A verification project for effectiveNext (`src/`), a preprocessing, caching and orchestration
layer in front of `next build` and `next dev`. It models the parts of the program whose
correctness depends on interleavings, limits and long sequences of calls, checks them with TLC on
small instances, and proves the results that matter most with TLAPS for every value of the
constants.

Line numbers refer to the files under `src/`. `PROJECT.json` maps every definition of a module to
the lines it models and lists the runs, the mutants, the hazards and the theorems.

## 1. Inventory

### Components, their state and their operations

| Component | Source | State | Operations that change it |
|---|---|---|---|
| Task scheduler | `pkg/scheduler/scheduler.go` | task table, in-degrees; per Run: copies of both, FIFO queue, WaitGroup, error channel | `AddTask`, `Clear`, `Run` |
| Priority scheduler | `pkg/scheduler/steal.go` | the same, with a `container/heap` as queue | the same |
| Scanner | `pkg/scanner/scanner.go` | per Scan: bounded directory channel, workers, result | `Scan` |
| Parse cache | `pkg/parser/cache.go` | path -> item, heap of items with their indices, access counts | `Get`, `Put`, `Remove`, `Clear`, `Invalidate` |
| File watcher | `pkg/watch/watch.go` | pending map, timer variable, bounded event channel, stop/done channels | `Start`, `loop`, timer callbacks, `Stop` |
| Incremental engine | `pkg/engine/engine.go` | base hash of each path | `Snapshot`, `ComputeChanges`, `Clear` |
| Dependency graph | `pkg/graph/graph.go`, `export.go` | nodes, edges, reverse edges, order, a read-write lock | `AddNode`, `AddEdge`, `Clear`; algorithms, getters, `Stats`, `Diff` and exports read |
| Graph store | `pkg/graph/store.go` | two SQLite tables | `Save` (transaction), `Load` (two queries), `Clear` (two statements) |
| Binary cache | `pkg/cache/cache.go` | one file and one database row per key | `Get`, `Put`, `Remove`, `Purge` |
| Build database | `pkg/db/db.go` | nine tables behind one lock | upserts, deletes, `StartBuild`, `FinishBuild`, `PurgeAll` |
| Build command | `pkg/cli/build.go`, `clean.go` | the build's history row, manifest file | `runBuild`, `runClean` |
| Dev, watch | `pkg/cli/dev.go`, `watch.go` | engine, watcher, child process | `runDev`: scan, watch, consumer goroutine, shutdown |
| Other commands | `pkg/cli/*.go` | none of their own | `cache purge`; the rest report |
| Plugin manager | `pkg/plugins/plugins.go` | registry, hook lists (slices) | `Register`, `Unregister`, `Execute`, `Clear` |
| Assets | `pkg/assets` | list of files with hashes; per `Optimize` a job channel and workers | `Scan`, `Optimize`, `DeduplicateByHash`, `WriteMetadata` |
| Routes | `pkg/routes/routes.go` | local to one scan | `Scan`, `GenerateManifest`, `FilterByType`, `FindConflicts` |
| CSS | `pkg/css/css.go` | an entry per style sheet | `TrackFile`, `TrackDirectory`; queries |
| Observability | `pkg/observability` | timeline entries, memory snapshots, counters | `Start`, `End`, `Snapshot`, ... |
| Parser, manifest, config, fs, hash, doctor, test helpers | `pkg/...` | local to one call | sequential passes over files |

### How they interact

* `runBuild` calls in a row: `StartBuild`, the scanner, the graph, the parser, the routes, the
  engine's `Snapshot`, the manifest, the task scheduler with five tasks that do nothing, and
  `FinishBuild`. All of it shares the build database and the `.effective-next` directory with
  other invocations of the program.
* `runDev` starts the watcher and reads its channel in a goroutine of its own: for each event it
  scans, compares with the engine's base hashes and takes a new snapshot.
* The watcher's loop, the goroutines of its timers and the reader share the pending map, the
  timer variable and the channel.
* The parse cache, the binary cache, the priority scheduler, the plugin manager, the asset
  optimizer, the CSS tracker and the graph store are libraries: no command uses most of them yet,
  so their callers in the models are any sequence of calls, concurrent ones where a lock, a
  channel or a file shared between processes says they are meant to be.

### What is hard, and what makes each part correct

* **Schedulers.** Goroutines of a Run report errors while the dispatch loop is still launching;
  degrees count repeated dependencies, self-dependencies and placeholders; the table changes
  under a running Run. Correct: each task launched at most once, after its dependencies, none
  forgotten, Run back only after the last goroutine, an error returned iff one occurred.
* **Scanner.** Workers exit as soon as they find the channel empty, while others may be about to
  fill it; a full channel drops directories; files disappear. Correct: nothing is lost for any
  other reason, nothing found twice, nothing ignored found, the Scan ends.
* **Parse cache.** `Get` has two critical sections and a read after them; items leave the heap in
  between. Correct: map, heap and indices agree, the heap is a heap, a hit is current.
* **Watcher.** The loop uses the map and the timer variable without the lock the timers hold.
  Correct: each event is sent once or refused by a full channel, a pending change has a timer, no
  change is forgotten, `Stop` returns.
* **Engine and dev loop.** Changes happen between scan, comparison and snapshot; the child may
  exit at any point of the shutdown or ignore the signal. Correct: what is on disk when the
  changes stop is what the engine has as its base; dev ends and the child with it.
* **Graph and store.** Nested read locks, edges to nodes that do not exist, torn reads between
  two queries. Correct: order, cycles and affected set agree with their definitions; a read sees
  one version; what is loaded was saved.
* **Binary cache, database, build.** Crashes between file and row, purges that fail half way,
  early returns between `StartBuild` and `FinishBuild`, two processes on one manifest. Correct: a
  hit returns what was put, a finished build has its final status, reads answer the last write.
* **Plugin manager.** `Execute` ranges over a slice whose backing array `Unregister` shifts in
  place. Correct: the hook's plugins run in order, once.
* **Assets, routes, CSS, timeline.** Files change between listing, hashing and grouping; layouts
  are handed on in the order of a directory; phases of one name overlap. Correct: what they tell
  is what the files held, and what happened.

`PROJECT.json` lists each of these as a hazard at its line, with the properties that cover it.

## 2. Plan

In order of importance to the program; all of it is written.

1. `RunContract`, `TaskRun`, `Scheduler`, `PriorityScheduler` -- checked and proved.
2. `Scanner` -- checked and proved.
3. `ParseCache` with `Heap` -- checked and proved.
4. `Watcher` -- checked; its safety proved.
5. `Graph` -- checked and proved.
6. `Engine` and `DevLoop`, composing the engine, a scan that is not atomic, the watcher's channel
   and the shutdown of `runDev` -- checked; its safety proved.
7. `Database`, `Build`, `BinaryCache`: the build's history rows and manifest, the cache's files and
   rows, the purges, with kills between any two steps and several processes -- checked and proved.
8. `GraphStore`; `GraphReads`, the graph's lock -- checked and proved.
9. `Plugins`, `Assets`, `Routes`, `Css`, `Timeline`, and `Project`, which puts the parts from 7 on
   together -- checked and proved.

Every type invariant and safety property of a passing run is a theorem; liveness is left to TLC.

## 3. Modules

| Module | What it is |
|---|---|
| `RunContract` | abstract: what one Run of a scheduler promises |
| `TaskRun` | what both schedulers share: table, snapshot, goroutines, WaitGroup, error channel, end of Run |
| `Scheduler` | `TaskRun` with a FIFO queue (`scheduler.go`) |
| `PriorityScheduler` | `TaskRun` with a heap (`steal.go`) |
| `Heap` | Go's `container/heap` (external) as operators on sequences |
| `Scanner` | one Scan (`scanner.go`) |
| `ParseCache` | the parse cache (`cache.go` of the parser) on `Heap` |
| `Watcher` | the watcher (`watch.go`) |
| `Graph` | the dependency graph and its three algorithms (`graph.go`) |
| `GraphReads` | the graph's lock, for concurrent readers and writers (`graph.go`, `export.go`) |
| `GraphStore` | the graph's SQLite store (`store.go`), and `Diff` |
| `Engine` | the incremental engine as operators (`engine.go`) |
| `DevLoop` | `effective-next dev` (`dev.go`) on `Engine` |
| `Database` | the tables and methods of the build database (`db.go`) |
| `Build` | `effective-next build` and `clean` (`build.go`, `clean.go`, manifest) on `Database` |
| `BinaryCache` | the binary cache (`cache.go`) and `cache purge` on `Database` |
| `Listing` | the order in which `filepath.Walk` and `os.ReadDir` list names (external), used by `Assets`, `Routes`, `Css` |
| `Plugins`, `Assets`, `Routes`, `Css`, `Timeline` | the packages of these names; `Timeline` is the build timeline and memory tracker of `tracing.go` |
| `Project` | the components that share no state, one moving per behaviour |
| `MC...` | constants and symmetry for TLC |
| `Heap_proofs` | theorems about `Heap`'s operators, for every order |
| `Scheduler_proofs` | theorems about `RunContract`, `Scheduler` and `PriorityScheduler` |
| `Files_proofs` | theorems about `Scanner` and `Watcher` |
| `Answers_proofs` | theorems about `Database`, `Css`, `Assets`, `Timeline` and `Routes` |
| `Project_proofs` | theorems about `GraphStore`, `Build`, `BinaryCache`, `Plugins`, `GraphReads`, and about the composition `Project` |
| `ParseCache_proofs`, `Graph_proofs`, `DevLoop_proofs` | theorems about the module of that name |

### Schedulers

State: `tasks` and `inDegree` are the scheduler's fields under its lock. `plan`, `deg`, `queue`,
`routines`, `wg` and `errCh` are the locals of a Run: the copy of the table, of the degrees, the
ready queue, the goroutines (in the order they were started, each with its place in its body), the
WaitGroup and the buffered error channel. `calls`, `runs` and the bounds `MaxCalls`, `MaxRuns`
only make the model finite.

`AddTask` and `Clear` are one step each (they hold the lock). `Run` is `RunBegin` (the section
under the lock, and the first fill of the queue in any map order), `Dispatch` (one turn of the
loop: pop, `wg.Add`, `go`, the inner loop over the dependents; `PriorityBegin` and
`PriorityDispatch` where the queue is a heap), the steps of the goroutines
(`FnStart`, `FnOk`, `FnFail`, `SendErr`) and `RunReturn` (`wg.Wait`, first error). The dispatch
loop and the goroutines interleave freely; the table may change at any point.

Left out: overlapping Runs (they share only `Task.Error`, which nothing reads), `Task.Error`
itself (the set `failed`), what tasks do, and the priority scheduler's worker count and
`activeWorkers`, which `Run` never reads: as many goroutines run at a time as there are ready
tasks (`steal.go:90`), and no wording of the code promises otherwise. A task's function is a step
that ends with or without an error.

`RunContract` states "launched", not "finished", for dependencies, because that is what the code
does: it lowers the degrees of the dependents as soon as the goroutine is started.

### Scanner

A node stands for its path and name; `Listing` is the tree. A scan whose root cannot be read has
failed from the start. `Exact` are the names a pattern equals, `DirOnly` the names of patterns with
a trailing slash, which the code tests differently in the root and below it. `RootEntry`,
`RootSend`, `StartWorkers` are the sequential first part of `Scan`; `Take`, `Entry`, `WalkEnd`,
`Offer`, `OfferEnd`, `Exit` are a worker's select loop; `Return` is the end of `dirWg.Wait`.
Directory entries come in any order. `Remove` is the environment: a file or a directory with all
below it disappears. A file that was listed and is gone when `e.Info` is called ends the program
(`phase = "panicked"`), as the nil `FileInfo` does in the code. `found` counts how often a file is
in the result; `walked`, `dropped` and `gone` are history. `FoundOnceAndWanted` (nothing found
twice, refused or ignored) is proved and, being what one worker's loop gives by itself, checked by
no run. File hashes and metadata, `ScanWithFilter` and the sorting helpers are left out.

### Parse cache

Items are numbered in the order they are made, so an item that left the cache remains
distinguishable while a `Get` holds it. `Get` is `GetLookup` (read lock), `GetCount` (write lock:
count the access, `heap.Fix`) and `GetReturn` (reads the result, no lock); `Put` is `PutOver` or
`PutNew` (with its eviction); `Remove`, `Clear` and `Invalidate` are one step each, the last in
any order of the map (`Orders`; each item goes by a `heap.Remove`, `Drop`). `LessAccessed` is the
order of the heap, by access counts, where the comments say recency (section 6): no property speaks
of which entry is evicted. `heap.Fix` with an index that is out of range ends the program
(`panicked`). `hits`, `misses` and `ParsedAt` are left out.

### Watcher

`loop` has its places: `TakeEvent`, `Callback` (locks, calls, unlocks), `Insert` (map write without
the lock), `Check` and `Assign` (the timer variable without the lock), and the two ways to its end.
A timer is `armed`, `fired` (its goroutine waits for the lock), `ranging`, `copied`, `replaced`,
`sending`, or `stopped`. An unlocked map write may or may not be seen by a goroutine that is ranging
over the map, or may end the program (`crashed`); so may a call on a timer variable that was reset
meanwhile. `raw` is fsnotify's channel, an input. `Receive` is the reader (`runDev`'s goroutine,
`dev.go:115-117`). `owed`, `due` and `missed` are history. Event types, `AddEvent`, `SetCallback`
and the registration of directories are left out. `Stop` is called only after `Start` succeeded, as
`runDev` does.

### Graph

An ID stands for a string and may or may not be a node: `AddEdge` takes any two strings, and
`runBuild` passes the text of an import as the target. `edges` and `reverse` are the two maps of
lists, repeated edges included; nodes are a set. Each algorithm holds the read lock from its first
step to its return, so only one is under way at a time and nothing changes meanwhile: a second
reader would not change what the first sees.

* `TopologicalSort`: `SortBegin` counts the degrees, `SortNext` is one turn of the loop (the queue
  is sorted, so it is a set whose least member is taken), `SortEnd` compares the lengths.
* `DetectCycles`: the recursion of `dfs` is a stack with, for each call on it, the edge it looks at
  next: `SearchRoot`, `SearchEdge` (a call, a cycle, or nothing), `SearchLeave`, `SearchEnd`. The
  outer loop takes the nodes in any order, as Go's maps do.
* `AffectedNodes`: `SpreadBegin`, `SpreadNext`, `SpreadEnd`; its queue is a set, since the sorted
  result does not depend on the order.

What they return is compared with definitions that have no algorithm in them: the least set closed
under the edges (`IsClosure`), a set of nodes none of which can come first (`Entangled`), a set in
which every node leads on (`Endless`; a finite graph has one if and only if it has a cycle).

### Graph reads

`GraphReads` abstracts a graph to a version number, which every `AddNode`, `AddEdge` and `Clear`
raises, and keeps the lock: `outer` and `inner` are the read locks a goroutine holds, a writer
announces itself, waits for the readers that are in, and lets no new one in, as Go's `RWMutex`
does. `Stats` and the exports take the read lock of the same graph twice, `Diff` that of two
graphs. Every version a call reads is one version (`ReadsWhole`), and goroutines can wait for each
other for ever only if one holds a first read lock and waits for a second while a writer stands
between (`StuckOnlyNested`); that case is reachable and is the hazard at `graph.go:359`.

### Engine and dev loop

The engine's maps are functions from paths to hashes; a file's contents stand for their hash.
`DevLoop` follows `runDev`: `ListFile`, `HashFile` and `FileInfo` are the three moments at which a
scan looks at a file (a file that vanished before the last ends the program), `ScanEnd` or
`ScanFails`. A file below the root (`InRoot` are those in it) may be missed without a word
(`MissFile`): its directory cannot be read (`scanner.go:65-67`) or it, or one above it, finds
`dirQueue` full (`:171-174`). With more directories in the root than the queue holds a scan never
returns (`ScanHangs`, `:156`): the first one hangs `runDev`, or ends the program because no other
goroutine is left, a later one the goroutine that reads events. Each scan may do any of these,
whatever the one before did; `FirstSnapshot`, `StartWatcher`, `StartChild`, `Notify`, `Terminate`,
`WaitReturns`, `WaitTimesOut`, `Return` are the main goroutine; `ReceiveEvent`, `Compare`,
`TakeSnapshot` the one that reads events. `Deliver` is what is left here of the watcher: a pending
path is sent or refused by the full channel; that its loop may lose a change (`Watcher`) is the
second disjunct of `Change`. `ChildExits` and `Interrupt` are the environment. `told` is what the
printed reports amount to. `excused` names the paths the property does not speak of, and nothing
else: changed before the watcher was started, lost by the watcher's loop, any path after a failed
scan, or a file the last scan missed, until the next scan begins. `CatchesUp` promises nothing once
a scan hangs (`consumer = "hung"`). A refused event excuses nothing: the channel is full of events
that each start a scan later, and this is what `SettledMeansCurrent` and its proof are about. The
crashes of the watcher's loop (`crashed` in `Watcher`), which end dev too, are left out here; as
does a scan's panic, they leave the child behind.

### Build database, build, binary cache

`Database` has one variable per table and one operator per method. A table with a primary key is a
function, the others are sequences in the order of their ids; a statement is one step.
`DbNext` is any caller together with `PurgeAll`, which empties one table after the other and may
be cut off between two. The tables `hashes` and `assets`, which it also empties, are written by
nothing. `dbLog` is history: one entry for each call, with the table and the key it is about and
the value written. What a read must answer is told from it alone (`LastWrite`, `Started`,
`FinishedAfter`). `Build` and `BinaryCache` use the operators inside their own actions.

`Build` has any number of processes in `runBuild`. `exists` and `cleans` are the directory
`.effective-next`: after a `clean` an open process writes to a file no name leads to. The manifest
is a sequence that says for each byte which build wrote it, because `os.WriteFile` truncates and
then writes, and two processes can overlap. Ids are clock readings that two processes may share. The
errors of `RecordStat` and `FinishBuild` are ignored, so each may write nothing. A write error of
the manifest is a warning only (`build.go:167`): after the file was emptied, any number of its first
bytes may have been written (`WriteManifest`). `clean` removes everything in one step, where the
code walks through the directory.

`BinaryCache` has several processes with a cache each on one directory and one database, in calls
that consist of their file and row steps, killed at any point, and `cache purge`, which deletes
rows only. `unsure` and `met` say which keys a call that was cut off, or two calls that met, left
open. That a write or an upsert fails is covered by a kill at that place, which leaves the same.

### Graph store

`Save` is a transaction: its deletes and inserts work on a copy that `commit` makes visible; only
one client has one. `Load` is two queries, `Clear` two statements, the counts one query each.
Graphs to save are `MCGraphs`: two with different nodes, hashes, edges, an edge twice with
different flags. `Diff` is part of the property: a loaded graph has no difference from the saved.

### Plugins, assets, routes, CSS, timeline

* `Plugins` keeps for each hook a backing array, a length and a capacity, as the slice has:
  `Unregister` shifts the elements in place, `Register` appends in place or into a new array,
  `Execute` reads the array of the slice it took under the lock, after it released the lock. An
  element that is just being overwritten may be read half old, half new, which ends the program.
* `Assets` has two goroutines and the workers. The first calls `Scan` and `Optimize`; the second
  calls `DeduplicateByHash` or `WriteMetadata`, also while `Optimize` runs, as
  `optimize_test.go:161-181` does: neither takes a lock. `Optimize` fills the channel before it starts
  its workers, each of which takes an index, hashes the file, and stores hash and result
  (`WorkerHashes`, `WorkerStoresHash`, `WorkerStoresResult`; the last also sets the file's hash to 0);
  after `wg.Wait` (`OptimizeWaits`) the hashes go to the files one by one (`OptimizeApplies`). The second
  goroutine looks at one file after the other, reads it and stores its hash
  (`HashMissingCheck`, `HashMissingRead`, `HashMissingStore`), then groups them (`GroupNext`). Files change
  and vanish between all these steps, so an older hash may be stored over a newer one. `Scan` runs
  alone: it appends to the list the others range over, and nothing in the repository runs it beside
  them.
* `Routes` has a step for each `os.Stat`, `os.ReadDir` and entry of a directory. `dirCalls` is the stack
  of the calls of `scanDir`, each with the layout it hands on and the entries it has yet to visit.
  `EditSite` creates or removes files between any two steps; `ReadDirFails` is the error return, which
  ends all of `Scan`, for any reason or none. A directory exists exactly while a file of the model is in
  it, at any depth: a directory that is removed during the scan may read as an error or as empty, and
  what is missing of an empty directory that stays is nothing but its name.
  `ReadDir`'s order decides which layout a file gets. `StatForManifest` is the second look at the
  routers, which may disagree with the first.
* `Css`: what the patterns find in a sheet is an input (`Sheets`); sheets are edited and removed
  between the calls.
* `Timeline`: phases of one name may be started several times before one ends, by several workers.

## 4. Runs

Twelve runs; each passing run lists one type invariant and properties that several steps, mostly of
several actors, must go together to violate. Each property has a mutant of the code that breaks
it (`PROJECT.json`, `mutants`; the operators marked "Wrong on purpose").

| Run | Expect | Bounds | What it shows |
|---|---|---|---|
| `MCScheduler` | pass | 3 IDs, lists of up to 2 (repeats, self, unregistered), 3 calls, 1 Run | all counts agree, nothing hangs, contract kept, Run returns |
| `MCPriorityScheduler` | pass | 3 IDs, 3 priorities, lists of up to 1, 3 calls, 2 Runs | highest priority first, contract kept over two Runs |
| `MCScanner` | pass | 6 directories with the root, 5 files, 3 workers, room for 2, 1 removal | only removals and the full channel lose anything; the Scan ends, and not before its workers are idle |
| `MCParseCache` | pass | 3 paths, 2 values, 2 getters, room for 2, 6 calls | map, heap and indices agree; hits are current |
| `MCWatcher` | pass | 3 changes of 3 paths (1 ignored), channel of 1, Stop at any time | what may be lost or delayed, and that nothing else is; Stop returns |
| `MCGraph` | pass | 3 IDs, up to 3 edges, any of the IDs nodes | order, cycles and affected nodes are what their definitions say |
| `MCDevLoop` | pass | 2 files, one below the root, 2 contents, 2 changes, room for 1 event | at rest the base agrees with the disk but for what the last scan missed; what is stale is caught up with unless a scan hangs; dev ends after its child was told to |
| `MCProject` | pass | per component, below | ten components, one moving per behaviour: builds, cache, store, graph reads, plugins, database, style sheets, assets, routes and timeline |
| `MCSchedulerOrder` | violation | 2 IDs, 2 calls | a task runs while its dependency is still running |
| `MCScannerDrops` | violation | as `MCScanner`, 1 worker | a directory the full channel refuses is missing from the result |
| `MCParseCachePanics` | violation | as `MCParseCache` | `Clear` between the two halves of `Get` leads to an index out of range |
| `MCWatcherTold` | violation | as `MCWatcher` | a change written to the map while a timer's goroutine copies it is never told |

Why the bounds are enough: with three IDs and two slots the lists contain every shape the degree
arithmetic distinguishes (no edge, one, a double edge, a self edge, an edge to a placeholder, a
chain, a join, a cycle), and one more call than two lets a task be re-registered or the table be
cleared during a Run. Three items make a heap with two levels whose root has two children. The
tree of `MCScanner` has two levels below the root, two subdirectories offered by one worker while
another exits, and a channel for fewer directories than can be waiting. Two cached paths and a
third force evictions while both getters hold items. Three changes are what the watcher needs for
one change in the map before, one during and one after a timer's critical section. Three edges on
three IDs are every loop, double edge, triangle, diamond without its tip and edge to an ID that is
no node, in every order of adding them.

Two files and two changes give the dev loop a change before, in and after each step of a scan, one
refused by the channel, one undone by the next, a deletion and a return. Every property of
`MCDevLoop` speaks of single paths, so the second file is there for what one path's change does to
the round of another; one of them is in the root, where scans miss nothing, one below it.

`Project` chooses in `Init` which component moves (`part`); the others keep their initial
state, so the number of states is the sum and not the product. In `MCProject`: 2 processes, 2 builds and 1
clean (both processes overlap at every pair of steps); 2 caches, one that compresses, 1 key and 4
calls (what puts, removes and purges do to one key is all they do); 3 plugins on one hook, 3
registrations, 1 `Execute` (arrays of length 1, 2 and 4, in place and reallocated); 2 store clients
and 4 calls (a `Save` and a `Clear` between the two queries of a `Load`); 3 goroutines, 2 graphs
and 3 calls (reader, writer, second lock); 3 database calls of each kind on 2 keys; 3 sheets and 4
edits or calls; 3 files (2 assets), 2 workers, 4 calls or changes of a file (a `Scan`, an
`Optimize` and a `DeduplicateByHash` beside it, and a change; a second `Scan` lists every file twice);
7 route files in every subset, in directories two levels deep, of both routers, and 2 edits (a layout
that comes and one that goes, before and after it is passed on); 2 workers, 2 phases, 3 ticks of
the clock. These are 898 thousand states, a little more than two minutes.

Five properties of this run, `ReadsExact`, `CssExact`, `AssetsExact`, `RoutesExact` and
`TimelineExact`, are of one component each, and each has its mutant: a `ClearDependencies` that
deletes by the target, a search for dependents that stops after one step, an `Optimize` that waits for the
channel to be empty instead of for its workers, a scan that passes no layout to subdirectories, and a
tracker that keeps its last snapshot as the peak.

Symmetry is used only in the runs without a liveness property (`MCPriorityScheduler`,
`MCParseCache`), over sets of model values the modules treat alike. `CHECK_DEADLOCK FALSE` stands
where the bounded system stops: all calls used up, the Scan returned, nobody changing files.

### Fairness

* Schedulers: weak fairness of `RunStep`. The Go scheduler runs a runnable goroutine eventually;
  that a task's function returns is an assumption about the caller. Nothing forces a caller to
  call `Run` again or to change the table.
* Scanner: weak fairness of the root's steps and of each worker: none waits for anything but the
  channel and the WaitGroup.
* Dev loop: weak fairness of the steps of a scan, of the main goroutine, of the goroutine that reads
  events and of the delivery of each pending path: they wait for nothing but what the model shows.
  A child to which SIGKILL was sent exits (`Killed`); one that only got SIGTERM need not. No
  fairness for changes, for the user's signal, or for the child's own exit.
* Watcher: weak fairness of the loop, of each timer's goroutine (timers fire), of the reader, and
  of a `Stop` that was called. No fairness for changes or for calling `Stop`.

## 5. Proofs

All theorems hold for every value of the constants that satisfies the named assumptions of the
module: sets of IDs, workers and timers are finite, bounds are natural numbers, marks such as `None`
or `NoError` differ from data, room and sizes are at least 1, the root of a tree is no entry of it,
`PluginsAssumption` gives each plugin one hook, `GraphsAssumption` gives each graph to save finite
lists, and the watcher has a timer for each change. What is listed in an order is a number that
stands for its name (`AssetsAssumption`, `RoutesAssumption`), hashes and sizes are positive numbers, the
directories of a route file are of any depth, and the keys of the binary cache are keys
of its database. TLC evaluates them on every run.

* **`Heap_proofs`** -- for every set ordered by `Less` (the strict part of a total preorder) and
  every sequence over it, `Push`, `PopRest`, `RemoveAt` and `Fix` keep the elements and leave a
  heap, `Heapify` leaves a heap alone, and nothing is above the top. `Up` and `Down` move one
  element along a path of the tree; that the path the recursive function computes hangs together
  (`IsPath`) is shown for its least, or greatest, place where it would not. `NearHeap` is a heap
  but for one place: `Fix` mends it whichever way the element changed, because what is below that
  place was not above what is over it.
* **`Scheduler_proofs`** -- first the contract by itself: what a Run that keeps it launches is, when
  it returns, the least saturated set of its table (`ExactByContract`), by the invariant that
  everything launched lies in every saturated set; and it returns an error iff a function it
  launched failed. Then what both schedulers share, `CoreInv`, in three layers: `TableInv` (types
  and consistency of the table, which `Snapshot` copies), `RunInv` (degree = number of slots whose
  task is not launched; launched tasks are closed under dependencies, each launched once) and
  `ReportInv` (WaitGroup = live goroutines, error channel = reported failures, no longer than the
  launched tasks). `CoreStep` is a step of either scheduler seen without its queue: it launches a
  launchable task, and returns only when there is none. That is what the queue must give, and the
  only thing that differs: `FifoInv` says that the FIFO queue holds the launchable tasks, each once;
  `PriorityInv` that the heap holds one item for each of them with the task's priority, and is a
  heap. From these follow `BookkeepingExact`, `ReportsExact`, `QueueIsHeap` (which no run checks: it
  is what `HighestFirst` rests on), and `HighestFirst` from `TopIsLeast`. None is inductive alone:
  the queue is exact because degrees account for slots, which needs that no task is dispatched
  twice, which needs that the queue is exact. Both schedulers implement `RunContract`
  (`ImplementsContractCorrect`, `PriorityImplementsContractCorrect`), and so `ExactAtReturn` holds
  of both.
* **`Files_proofs`**, the scanner -- `ScanTypeOK`, `QuietAtReturn`, `FoundOnceAndWanted` and
  `NothingElseLost` for every tree, pattern set, number of workers, capacity and number of removals.
  The inductive invariant `IInv` says where each node can be: `Origins` (whatever is waiting, held
  or walked is wanted), `OnePlace` (each directory is in one place only: not yet looked at, in the
  channel, in a worker's hands, walked or dropped), `NotLost` (each wanted entry of a walked
  directory is accounted for), `Phases` and `WorkersQuiet` (what each phase and each worker's state
  excludes; a worker that has exited holds nothing). The early exit of workers is harmless because a
  worker that is still walking takes what it offers itself; that is `WorkersQuiet` together with
  `OnePlace` at `Return`.

* **`Graph_proofs`** -- `TypeOK`, `SortCorrect`, `CyclesCorrect` and `AffectedCorrect` for every
  finite set of IDs and every sequence of `AddNode`, `AddEdge` and `Clear`. All rest on `GraphInv`
  (the reverse index has the same edges as the lists). `SortInv`: a degree is the number of edges
  from what is not sorted yet, so the queue is just what has none left; at the end the rest is a
  set none of which can come first. `SearchInv`: the stack is a path without repetition disjoint
  from what is done, every edge looked at leads to what was entered, and as long as no cycle was
  found what is done has none, because an edge from what is done never leads back to the stack.
  `SpreadInv`: what is affected lies in every set closed under the reversed edges, and is closed
  but for what the queue still holds. That the edges are finitely many, and that a non-empty
  set of IDs has a least member, are lemmas from finiteness alone.

* **`ParseCache_proofs`** -- `TypeOK`, `MapAndHeapAgree` and `ReturnsCurrent`.
  `CacheInv` is `TypeOK`, `HeapInv` (the array has no item twice, each is at its index, and it is
  a heap), `MapInv` (map and array have the same items; items are numbered as they are made) and
  `GetInv` (a `Get` between its locks holds an item that no path has but the one it asked
  for). The last is why `ReturnsCurrent` holds although the item may have been evicted and its
  path put again: numbers are never used twice, so the held item keeps the result it had. The
  array stays a heap although `Fix` may be called at the place of another item: the counted item is
  then in no array, and the heap `Fix` is given is one already. An index out of range ends the
  program (`panicked`), and the order of the array is claimed until then only; the rest always.
* **`Files_proofs`**, the watcher -- `TypeOK`, `LossAccounted`, `SentOnce` and `BatchTimedOnce`, for
  any number of changes. `WatchInv` adds to them where the loop and each timer can be (`LoopOK`,
  `TimersOK`), that a live timer is the one `batchTimer` names or the one the loop is about to
  assign (`LiveIsSet`), that changes, events and timers are counted against each other (`Counted`),
  and what is in the map while a goroutine holds the lock (`Copying`: it was copied, or came too
  late and is noted in `missed`). `LossAccounted` alone is not inductive because the goroutine
  replaces the map: only `Copying` tells that what it throws away was copied or noted.
* **`Project_proofs`** -- one inductive invariant per component, then the composition. `StoreInv`
  (graph store): the tables hold a graph that was saved, or the parts that a cut `Clear` left; a
  `Save` under way has inserted the first edges of its graph and of those with one key the first
  (`SavingOK`), a `Load` between its queries has the nodes unless somebody wrote. `BuildInv`: an id
  is one process's unless two started in the same tick (`IdsUnique`), an unfinished row has a
  process or was abandoned (`RowsOK`), statistics are written once before the row is finished
  (`StatsOK`), the manifest is empty while its one writer has it open (`ManifestOK`). Rows that
  nobody will finish can be told from those in progress only by the processes' places and ids, so
  `BuildsAccounted` is not inductive without `IdsOK`, `IdsUnique` and `RowsOK`. `CacheInv` (binary
  cache): two clients on one key have met and the key is unsure (`MeetOK`); what a client between
  two steps may rely on (`OpKnows`); there is a row exactly if something is put, and unless a client
  is midway file and row are of what was put last (`KeyOK`). `PluginInv`: each list holds the
  registered plugins of its hook, each once, but for the cell `Unregister` is filling (`ListOK`,
  `Gap`), no two hooks have one array, and the cells of a running `Execute`'s slice are as they were
  unless something was moved (`RunningOK`): an append in place writes only behind it, because no
  list over its array is shorter than its slice. `ReadsInv` (graph reads): each graph's announced
  writer is one goroutine that waits or writes, beside a writer that holds the lock nobody reads,
  half a change is there only while its writer holds the lock, a second lock is a lock of a graph.
  `ProjectInv` has the invariants of all ten components. The tables are shared by `Database`'s
  callers, the build command and the cache's clients, so it has `BuildInv` where the build command
  writes them, `CacheInv` where the cache's clients do, `DbInv` elsewhere, and says of each part
  which tables stay empty in it (`TablesOfThePart`). `OnePartMoves`: a step of the whole is a step
  of each component, or leaves it alone. From these follow `TypesOK`, `ReadsExact`
  (`ReadsExactCorrect`), the four of `AnswersCorrect` (`CssExact`, `AssetsExact`, `RoutesExact`,
  `TimelineExact`) and the five properties above for the composition.
* **`Answers_proofs`** -- what five components answer, each by itself. Some of their operators are recursive
  functions, over rows, names and rounds. What one of them computes is shown in two parts:
  that a function with the recursive equation exists, so that the definition's `CHOOSE` has it
  (`SumsExist`, `RoundsExist`), and that there is no least argument for which
  the claim fails (`LeastNat`); a listing has each name once, in their order (`InOrderIs`).
  `DbInv` (database): each row of a keyed table is the last write of its key that nothing deleted since,
  in the terms of the log, likewise the last row of a statistic or benchmark, and there is an
  increasing map from the rows of `history` to the calls that started them, under which a row is finished
  exactly if its id was finished afterwards (`HistoryOK`). The map is what makes `HistoryFails`, which
  counts rows, comparable with the log, which counts calls, across `PurgeAll` cut anywhere.
  `CssInv`: an entry of a file not edited since is the file as it is (`UpToDate`). That the
  breadth-first search in as many rounds as there are files reaches the least closed set
  (`SearchIs`) is a count: each round adds a file or is the last that does.
  `AssetInv`: the channel holds the jobs not taken, in order; each taken one has its result or
  just one worker, which hashed the file as it is unless it changed since (`WhileRunning`, `WorkerOK`); once
  `wg.Wait` is over nobody works (`WhileNotRunning`); between two calls every hash in the list is right,
  whichever goroutine put it there (`AssetListOK`), because what the second one is about to store was
  right when it was read (`OtherOK`), and a file that changed between that read and an `Optimize` stays in
  `changedAt`. Without an `Optimize` beside it the second goroutine leaves no file without a hash behind
  (`AloneOK`), which is what the groups rest on. `JobsOnce` is not inductive: it needs that the jobs in the
  channel are those after the ones taken.
  `TimelineInv`: workers may end each other's events, so no event has one worker. But there is an
  assignment of the phases in progress to events with their names and start times (`Begun`), which `End` of
  another worker's event exchanges, and each name has as many open events as phases in progress; the sum
  of what each event contributes, a duration or a start still to be paid for, is the time spent
  (`Ledger`). It is kept as long as no phase ended in the tick it began in (`sameTick`).
  `RoutesInv` speaks of the stack of the calls of `scanDir`: each call's entries are names in order of
  files that were there at some time, and a file that stayed is among them or before all of them
  (`CallRight`); a call made by another is for a directory that the other has already taken from its
  entries (`Inside`). So each source file that stayed is either found or still to come in just one call
  (`FoundRight`, `Pending`), and none is found twice. What a call passes on is the last layout listed before
  its next entry, but for those that came or went (`LastAt`): this is kept when an entry is visited
  (`LastAtNext`) and when a directory is entered (`LastAtInto`), however files are edited in between.

* **`DevLoop_proofs`** -- `TypeOK` and `SettledMeansCurrent` for every set of files and contents,
  any room in the channel and any number of changes. The invariant `DevInv` says where a change that
  the base does not have yet is: `DueOrSure` (a path that is not excused and not current is pending,
  or an event is in the channel, or the round under way will find it; a scan that misses the file
  makes it excused), `ToldIsKept` (what was reported to exist is in the base, or will be when the
  snapshot that follows is taken), `NotReadYet` (a scan has nothing of a path it has not read) and
  `BeforeTheFirst`. `SettledMeansCurrent` alone is not inductive: a round that ends says nothing
  about a change that came after its read, but for the event that change put behind it.

Only model-checked:

* Liveness (`RunTerminates`, `ScanEnds`, `StopEnds`, `CatchesUp`, `ShutdownEnds`), which
  rests on fairness.
* The four violations.

What a property excuses. Some hazards lead to wrong states in the code as it is. The property that
names such a hazard then excuses just those states, and says that nothing else is wrong; it does not say that
the code meets the hazard well. These are: unfinished rows of builds that gave up or were killed
(`BuildRowsSound`, `cli/build.go:99`); keys of the binary cache after a cut-off or overlapped call, until
they are written again (`CacheHitsSound`, `cache.go:100`); a `Load` that a `Save` ran into and a `Clear` cut in
half (`GraphStoreSound`, `store.go:132`, `:172`); an `Execute` that an `Unregister` ran into
(`PluginsRunRight`, `plugins.go:85`); groups made beside an `Optimize` (`AssetsExact`); the timer variable
that stays set (`BatchTimedOnce`; `ChangesToldEventually` shows what follows) and the crash of the loop
(`StopEnds`). The panic of a scan on a file that is gone (`scanner.go:84`) and the send that blocks
(`:156`) have no property of the scanner: the first ends the program, the second is beyond the run's bounds;
in `DevLoop` both are steps.

## 6. Disagreements between the code and its documentation

Shown by a violation run (`PROJECT.json`, `findings`):

* `scheduler.go:45` "Run executes all tasks in dependency order": dependents are released when a
  dependency is started (`:95`).
* `scanner.go:105` "returns all files found": a full `dirQueue` drops directories (`:173`).
* `cache.go:18` (parser) "thread-safe": `Clear` during a `Get` leaves an index out of range.
* `watch.go:28`: unlocked writes to the map and the timer variable lose or delay changes (`:143`).

Met while modelling, visible in the models, without a run of their own:

* A task on a cycle, or that depends on an ID without a function, is never executed and `Run`
  returns nil (`scheduler.go:80`); `ExactAtReturn` states exactly which tasks run.
* The worker count of `NewPriorityScheduler` has no effect (`steal.go:90`).
* With more directories in the root than `dirQueue` holds (64), `Scan` blocks before it starts a
  worker (`scanner.go:156`); `MCScanner` keeps within that limit (`QueueCap` is the number of the
  root's wanted directories).
* A file removed between listing and `e.Info` makes `Scan` panic (`scanner.go:84`, `:129`).
* The parse cache is "LRU" (`cache.go:18`), evicts "LRU entries" (`:87`) and has a heap "ordered by
  access time (least recently used first)" (`:190`). The code orders by access count (`Less`, `:196`)
  and pushes a new item with the count 0 before it evicts, so `Put` may evict what it has just
  stored, and an item read often long ago outlives one read just now. The model is of the code; no
  property passes judgement on the choice.
* The watcher's loop may call `Stop` on a timer variable that was just reset, or write the map
  while it is ranged over (`watch.go:116`, `:143`); a timer's goroutine may send after `Stop` has
  returned; `Stop` of a watcher that was not started waits for ever (`:90`).
* `TopologicalSort` "returns error if there is a cycle" (`graph.go:163`): it compares the number of
  sorted IDs with the number of nodes (`:201`), and sorted IDs need not be nodes. With an edge to
  an ID that is no node it fails without any cycle; with nodes `a`, `c` and edges `a -> a`,
  `c -> x` it returns `[c x]` and no error. `SortCorrect` speaks of errors only where all edges
  are between nodes.
* `DetectCycles` "finds all cycles" (`graph.go:208`): it reports one cycle for each edge back to
  the search's path, and which ones depends on the order of a map. `CyclesCorrect` says what holds.
* `Stats` takes the read lock it already holds a second time (`graph.go:359`), which waits for ever
  if a writer has asked for the lock in between.
* `Snapshot` never forgets deleted files (`engine.go:53`): a deleted file is reported as deleted
  in every later round, and one that is restored with the same contents is never reported again.
* The goroutine of `runDev` panics with the scan's nil `FileInfo` and leaves the child behind; a
  signal before `signal.Notify` does so too (`dev.go`). `ShutdownEnds` names the first case.
* `effective-next watch` starts no watcher (`cli/watch.go:58`): after "watching for changes" it waits
  for the signal only. The watcher registers no directories made after its `Start`
  (`watch/watch.go:79`): changes in them are never seen.
* `GetBuildHistory` fails as long as one unfinished build is in its window (`db.go:529`): `running`
  rows are left by every early return and kill between `StartBuild` and `FinishBuild`.
* `invokeNextBuild` looks for the binary before it looks at `--skip-next`, so the flag does not
  help where next is not installed.
* Two builds that start in the same tick share an id, and `FinishBuild` then finishes both rows
  (`db.go:489`); two that write the manifest at once may leave the tail of the longer one.
* `Get` of a cache without compression returns the compressed bytes another cache stored; `Purge`
  ignores files it cannot remove; `cache purge` leaves all files (`cli/cache.go`).
* `Clear` of the graph store and `PurgeAll` are no transactions; `Diff` does not see a node's new
  hash nor an edge that became dynamic.
* A layout is handed on only to what is listed after it (`routes.go:98`): `app/error.tsx` and a
  directory `app/about` do not get `app/layout.tsx`.
* `FindConflicts` "detects routes with the same path but different types" (`routes.go:247`); the code
  (`:250-259`) never compares types, so two pages of one directory count, and so do two files of one
  directory under `pages/`, whose paths lose their names. `RoutesExact` states only the direction the
  comment promises: a page and an API route of one path are both reported.
* `DeduplicateByHash` beside an `Optimize`, as the concurrency test runs them
  (`optimize_test.go:161-181`), groups by hashes that the workers have set to 0 (`optimize.go:65`): files
  with different contents may come out as duplicates, equal ones apart. `GroupsExact` excuses such calls.
* A second `Scan` of the asset optimizer lists every file twice, and files that cannot be read
  count as duplicates of each other.
* The CSS tracker keeps the entry of a file that was removed.

## 7. Not modelled

* **Parser, configuration, hashing**: pure functions of file contents or bytes. Their results are
  inputs of the models (the edges of a graph, what a sheet imports, a content as its hash).
* **Manifest**: `WriteJSON` is part of `Build`. The generator appends to slices; `ReadManifest` and
  `Diff` are pure functions no command calls.
* **Other commands**: `clean` and `cache purge` are modelled. `analyze`, `graph`, `doctor`,
  `cache stats` and `benchmark` print what they compute in one pass over what the other components
  return; `watch` scans once and waits for the signal.
* **Observability** but for the timeline and the memory tracker: spans, worker utilisation, the
  metrics collector and the build tracker append to slices that only tests and a summary line read.
* **Graph exports**: which lock they take and which version they read is in `GraphReads`; what they
  write is formatting.
* **File system layer**: a wrapper of `os` and an in-memory double; no package of the program
  imports it.
* **Doctor, test helpers**: independent checks of the environment; used by tests only.
* Within modelled parts: what each subsection of section 3 names as left out; the engine's `Clear`,
  which only tests call; in `Watcher` `AddEvent`, `SetCallback` and the registration of directories,
  in `Build` the order in which `clean` removes files, in `Assets` the metadata file and the sums,
  `Scan` beside another call, and SQLite itself, whose statements and transactions are taken to be
  atomic.
