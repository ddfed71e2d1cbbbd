-------------------------------- MODULE Scanner --------------------------------
(*****************************************************************************)
(* pkg/scanner/scanner.go: one Scan of a directory tree.  Scan reads the    *)
(* root by itself, puts the root's directories into a bounded channel before *)
(* any worker exists, then starts the workers; a worker takes a directory,   *)
(* walks it, offers its subdirectories to the channel without waiting, and   *)
(* exits when it finds the channel empty.                                    *)
(*                                                                           *)
(* A node stands for its path and its name.  The order in which a directory  *)
(* lists its entries is left open.  Files and directories may disappear      *)
(* while Scan runs.                                                          *)
(*****************************************************************************)
EXTENDS Integers, Sequences, FiniteSets, Functions

CONSTANTS Root,     \* the root directory
          Dirs,     \* the directories below it
          Files,    \* everything else below it
          Listing,  \* directory -> what it contains
          Exact,    \* names an ignore pattern equals
          DirOnly,  \* names an ignore pattern with a trailing slash is for
          Workers,  \* the worker goroutines
          QueueCap, \* capacity of dirQueue (64 in the code)
          MaxGone   \* bound: removals while Scan runs

Nodes == Dirs \cup Files

ASSUME TreeAssumption ==
    /\ Root \notin Nodes /\ Dirs \cap Files = {}
    /\ Listing \in [Dirs \cup {Root} -> SUBSET Nodes]
    /\ \A d, e \in Dirs \cup {Root} : d # e => Listing[d] \cap Listing[e] = {}
ASSUME WorkersAssumption == IsFiniteSet(Workers) /\ Workers # {}
ASSUME QueueCapAssumption == QueueCap \in Nat \ {0}
ASSUME MaxGoneAssumption == MaxGone \in Nat

VARIABLES phase,    \* "root", "scanning", "returned", "failed" or "panicked"
          rootTodo, \* entries of the root not yet looked at
          rootDirs, \* directories of the root not yet sent
          queue,    \* dirQueue
          st,       \* worker -> "idle", "walking", "pushing" or "exited"
          todo,     \* worker -> entries walkDir has not yet looked at
          subs,     \* worker -> subdirectories found, not yet offered
          found,    \* file -> how often it is in the result
          walked,   \* history: directories a worker has taken
          dropped,  \* history: directories the full channel refused
          gone      \* what was removed since Scan began

scanVars == <<phase, rootTodo, rootDirs, queue, st, todo, subs, found, walked, dropped, gone>>

--------------------------------------------------------------------------------
(* Ignore patterns                                                           *)

Matches(n, isDir) == n \in Exact \/ (isDir /\ n \in DirOnly)

\* MatchesPath tests every component of the path as a directory's name.  Those
\* above n were tested before their directory was walked.
MatchesPath(n) == Matches(n, TRUE)

\* What Scan keeps of the root, and walkDir of the other directories.
KeptInRoot(n) == ~Matches(n, n \in Dirs)

KeptBelow(n) == ~(Matches(n, n \in Dirs) \/ MatchesPath(n))

--------------------------------------------------------------------------------
\* os.ReadDir has read the root, or Scan has returned its error.
ScanInit ==
    /\ phase \in {"root", "failed"}
    /\ rootTodo = Listing[Root] /\ rootDirs = {} /\ queue = <<>>
    /\ st = [w \in Workers |-> "idle"]
    /\ todo = [w \in Workers |-> {}] /\ subs = [w \in Workers |-> {}]
    /\ found = [f \in Files |-> 0]
    /\ walked = {} /\ dropped = {} /\ gone = {}

\* Each node with all that is below it: the smallest set closed under Listing.
Subtree ==
    [n \in Nodes |->
        {m \in Nodes : \A S \in SUBSET Nodes :
            (n \in S /\ \A d \in S \cap Dirs : Listing[d] \subseteq S) => m \in S}]

\* Someone removes a file, or a directory and all it contains.
Remove(n) ==
    /\ phase \in {"root", "scanning"}
    /\ n \notin gone /\ Cardinality(gone) < MaxGone
    /\ gone' = gone \cup Subtree[n]
    /\ UNCHANGED <<phase, rootTodo, rootDirs, queue, st, todo, subs, found, walked, dropped>>

\* A file is put into the result, unless it is gone: e.Info then returns nil,
\* and info.Size() panics.
Report(f) ==
    IF f \in gone THEN phase' = "panicked" /\ UNCHANGED found
    ELSE found' = [found EXCEPT ![f] = @ + 1] /\ UNCHANGED phase

\* Scan looks at one entry of the root.
RootEntry(n) ==
    /\ phase = "root" /\ n \in rootTodo
    /\ rootTodo' = rootTodo \ {n}
    /\ \/ n \in Files /\ KeptInRoot(n) /\ Report(n) /\ UNCHANGED rootDirs
       \/ n \in Dirs /\ KeptInRoot(n) /\ rootDirs' = rootDirs \cup {n} /\ UNCHANGED <<phase, found>>
       \/ ~KeptInRoot(n) /\ UNCHANGED <<phase, rootDirs, found>>
    /\ UNCHANGED <<queue, st, todo, subs, walked, dropped, gone>>

\* Scan sends one directory of the root, and blocks while the channel is full.
RootSend(d) ==
    /\ phase = "root" /\ rootTodo = {} /\ d \in rootDirs
    /\ Len(queue) < QueueCap
    /\ queue' = Append(queue, d)
    /\ rootDirs' = rootDirs \ {d}
    /\ UNCHANGED <<phase, rootTodo, st, todo, subs, found, walked, dropped, gone>>

\* Scan starts the workers, or is done if the root has no directory.
StartWorkers ==
    /\ phase = "root" /\ rootTodo = {} /\ rootDirs = {}
    /\ phase' = IF queue = <<>> THEN "returned" ELSE "scanning"
    /\ UNCHANGED <<rootTodo, rootDirs, queue, st, todo, subs, found, walked, dropped, gone>>

--------------------------------------------------------------------------------
(* The workers                                                               *)

\* os.ReadDir: what the directory holds now, nothing if it cannot be read.
ReadDir(d) == IF d \in gone THEN {} ELSE Listing[d] \ gone

\* Wrong on purpose: the directory is looked at but left in the channel.
RestPeeked == queue

\* The channel after a receive.
Rest == Tail(queue)

\* A worker takes a directory and reads it.
Take(w) ==
    /\ phase = "scanning" /\ st[w] = "idle" /\ queue # <<>>
    /\ queue' = Rest
    /\ walked' = walked \cup {Head(queue)}
    /\ todo' = [todo EXCEPT ![w] = ReadDir(Head(queue))]
    /\ st' = [st EXCEPT ![w] = "walking"]
    /\ UNCHANGED <<phase, rootTodo, rootDirs, subs, found, dropped, gone>>

\* walkDir looks at one entry.
Entry(w, n) ==
    /\ phase = "scanning" /\ st[w] = "walking" /\ n \in todo[w]
    /\ todo' = [todo EXCEPT ![w] = @ \ {n}]
    /\ \/ n \in Files /\ KeptBelow(n) /\ Report(n) /\ UNCHANGED subs
       \/ n \in Dirs /\ KeptBelow(n) /\ subs' = [subs EXCEPT ![w] = @ \cup {n}]
          /\ UNCHANGED <<phase, found>>
       \/ ~KeptBelow(n) /\ UNCHANGED <<phase, subs, found>>
    /\ UNCHANGED <<rootTodo, rootDirs, queue, st, walked, dropped, gone>>

\* walkDir returns its subdirectories.
WalkEnd(w) ==
    /\ phase = "scanning" /\ st[w] = "walking" /\ todo[w] = {}
    /\ st' = [st EXCEPT ![w] = "pushing"]
    /\ UNCHANGED <<phase, rootTodo, rootDirs, queue, todo, subs, found, walked, dropped, gone>>

\* Wrong on purpose: one directory too many.
QueueHasRoomForOneMore == Len(queue) <= QueueCap

QueueHasRoom == Len(queue) < QueueCap

\* The worker offers a subdirectory: a full channel refuses it.
Offer(w, d) ==
    /\ phase = "scanning" /\ st[w] = "pushing" /\ d \in subs[w]
    /\ subs' = [subs EXCEPT ![w] = @ \ {d}]
    /\ IF QueueHasRoom
       THEN queue' = Append(queue, d) /\ UNCHANGED dropped
       ELSE dropped' = dropped \cup {d} /\ UNCHANGED queue
    /\ UNCHANGED <<phase, rootTodo, rootDirs, st, todo, found, walked, gone>>

\* Wrong on purpose: a worker walks one directory.
AfterWalkDone == "exited"

\* Where a worker goes when it has offered its subdirectories: to the select.
AfterWalk == "idle"

OfferEnd(w) ==
    /\ phase = "scanning" /\ st[w] = "pushing" /\ subs[w] = {}
    /\ st' = [st EXCEPT ![w] = AfterWalk]
    /\ UNCHANGED <<phase, rootTodo, rootDirs, queue, todo, subs, found, walked, dropped, gone>>

\* The select's default: the channel is empty, the worker exits.
Exit(w) ==
    /\ phase = "scanning" /\ st[w] = "idle" /\ queue = <<>>
    /\ st' = [st EXCEPT ![w] = "exited"]
    /\ UNCHANGED <<phase, rootTodo, rootDirs, queue, todo, subs, found, walked, dropped, gone>>

\* Wrong on purpose: Scan waits for one worker.
SomeExited == \E w \in Workers : st[w] = "exited"

\* dirWg.Wait lets Scan through.
AllExited == \A w \in Workers : st[w] = "exited"

Return ==
    /\ phase = "scanning" /\ AllExited
    /\ phase' = "returned"
    /\ UNCHANGED <<rootTodo, rootDirs, queue, st, todo, subs, found, walked, dropped, gone>>

RootStep ==
    \/ \E n \in Nodes : RootEntry(n) \/ RootSend(n)
    \/ StartWorkers
    \/ Return

WorkerStep(w) ==
    \/ Take(w) \/ WalkEnd(w) \/ OfferEnd(w) \/ Exit(w)
    \/ \E n \in Nodes : Entry(w, n) \/ Offer(w, n)

ScanNext ==
    \/ RootStep
    \/ \E w \in Workers : WorkerStep(w)
    \/ \E n \in Nodes : Remove(n)

ScanSpec == ScanInit /\ [][ScanNext]_scanVars

\* No goroutine of the scan is starved.
FairScanSpec == ScanSpec /\ WF_scanVars(RootStep) /\ \A w \in Workers : WF_scanVars(WorkerStep(w))

--------------------------------------------------------------------------------
(* What a scan should find: the wanted entries of the root, and those of the *)
(* directories it should find, but for the directories in Lost.              *)

Kept(d) == Listing[d] \ (Exact \cup (IF d = Root THEN DirOnly \cap Dirs ELSE DirOnly))

\* S has all that can be reached without entering a directory of Lost.
Complete(S, Lost) == \A d \in {Root} \cup ((S \cap Dirs) \ Lost) : Kept(d) \subseteq S

\* Everything in S can be reached by way of directories in S.
Grounded(S) == \A n \in S : \E d \in {Root} \cup (S \cap Dirs) : n \in Kept(d)

inResult == {f \in Files : found[f] > 0}

\* The types of the scan's state; the channel never exceeds its capacity.
ScanTypeOK ==
    /\ phase \in {"root", "scanning", "returned", "failed", "panicked"}
    /\ rootTodo \subseteq Nodes /\ rootDirs \subseteq Dirs
    /\ queue \in Seq(Dirs) /\ Len(queue) <= QueueCap
    /\ st \in [Workers -> {"idle", "walking", "pushing", "exited"}]
    /\ todo \in [Workers -> SUBSET Nodes] /\ subs \in [Workers -> SUBSET Dirs]
    /\ found \in [Files -> Nat]
    /\ walked \subseteq Dirs /\ dropped \subseteq Dirs /\ gone \subseteq Nodes

\* Whenever Scan is back, a file is missing only if it is gone or lies below a
\* directory that is gone or that the full channel refused: workers that exit
\* early, while others are still walking, lose nothing by that.
NothingElseLost ==
    phase = "returned" =>
        Complete(inResult \cup walked \cup dropped \cup gone, dropped \cup gone)

\* At any point no directory is walked after it was refused, no file is in the
\* result twice, and none that is ignored or below an ignored directory.
FoundOnceAndWanted ==
    /\ \A f \in Files : found[f] <= 1
    /\ walked \cap dropped = {}
    /\ Grounded(inResult \cup walked)

\* Scan returns with no worker still at work and no directory in the channel.
QuietAtReturn ==
    phase = "returned" =>
        queue = <<>> /\ \A w \in Workers : todo[w] = {} /\ subs[w] = {}

\* A Scan comes to an end: if the root has no more directories than the
\* channel holds, no worker, and not Scan, is left waiting.
ScanEnds == <>(phase \in {"returned", "failed", "panicked"})

\* "Scan runs the scanner and returns all files found" (scanner.go:105):
\* nothing that was there all the time is missing.
FindsAllFiles ==
    phase = "returned" => Complete(inResult \cup walked \cup gone, gone)
================================================================================
