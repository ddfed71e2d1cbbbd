------------------------------- MODULE DevLoop -------------------------------
(***************************************************************************)
(* `effective-next dev` (cli/dev.go): the first scan and snapshot, the     *)
(* watcher, the child process `next dev`, the goroutine that reads the     *)
(* watcher's events and keeps the engine's base hashes, and the shutdown.  *)
(* A file's contents stand for their hash.  The watcher is here what its   *)
(* own module leaves of it: a change is told by an event, which a full     *)
(* channel refuses, or is lost to the races of its loop.                   *)
(***************************************************************************)
EXTENDS Naturals, FiniteSets

CONSTANTS Paths,        \* the files of the project
          Contents,     \* what a file may hold
          InRoot,       \* those in the project's own directory, not below it
          NoFile,       \* what a path holds that is no file
          Zero,         \* the hash 0 of a file that cannot be read
          ChanCap,      \* room in the watcher's channel
          MaxChanges    \* bound: changes of the disk

ASSUME PathsAssumption == InRoot \subseteq Paths
ASSUME ContentsAssumption == NoFile # Zero /\ {NoFile, Zero} \cap Contents = {}
ASSUME ChanCapAssumption == ChanCap \in Nat \ {0}
ASSUME MaxChangesAssumption == MaxChanges \in Nat

VARIABLES
    disk,       \* what each path holds
    changes,    \* number of changes so far
    phase,      \* where runDev is
    base,       \* baseHashes of the engine
    consumer,   \* where the goroutine is that reads the events
    step,       \* how far the scan under way is with each path
    seen,       \* the files it has found, with their hashes
    pending,    \* changed paths the watcher has not sent yet
    events,     \* number of events in the watcher's channel
    child,      \* the child process
    sent,       \* the signals sent to it
    sigCh,      \* number of signals in sigCh
    told,       \* history: what the reports so far say each path holds
    excused     \* history: paths whose last change no scan is bound to see, or
                \* whose file the last scan missed

diskVars == <<disk, changes>>
engineVars == <<base, told>>
scanVars == <<step, seen>>
watchVars == <<pending, events>>
childVars == <<child, sent, sigCh>>
vars == <<diskVars, phase, engineVars, consumer, scanVars, watchVars, childVars, excused>>

E == INSTANCE Engine WITH NoHash <- NoFile

Ended == {"returned", "panicked", "killed"}
Watching == phase \in {"start", "notify", "running", "watchOnly", "waiting", "stopping"}

\* The goroutine runs from its start until the process ends.
Consuming == phase \in {"running", "waiting", "stopping"}

Hashes == Contents \cup {NoFile, Zero}

TypeOK ==
    /\ disk \in [Paths -> Contents \cup {NoFile}]
    /\ changes \in 0 .. MaxChanges
    /\ phase \in {"scan", "hung", "snapshot", "watch"} \cup Ended
                 \cup {"start", "notify", "running", "watchOnly", "waiting", "stopping"}
    /\ base \in [Paths -> Hashes]
    /\ consumer \in {"idle", "scan", "hung", "compare", "snapshot"}
    /\ step \in [Paths -> {"todo", "named", "hashed", "done"}]
    /\ seen \in [Paths -> Hashes]
    /\ pending \in SUBSET Paths
    /\ events \in 0 .. ChanCap
    /\ child \in {"none", "running", "exited"}
    /\ sent \in SUBSET {"TERM", "KILL"}
    /\ sigCh \in 0 .. 1
    /\ told \in [Paths -> Hashes]
    /\ excused \in SUBSET Paths

Init ==
    /\ disk \in [Paths -> Contents \cup {NoFile}]
    /\ changes = 0
    /\ phase = "scan"
    /\ base = E!NoEntries(Paths) /\ told = E!NoEntries(Paths)
    /\ consumer = "idle"
    /\ step = [p \in Paths |-> "todo"] /\ seen = E!NoEntries(Paths)
    /\ pending = {} /\ events = 0
    /\ child = "none" /\ sent = {} /\ sigCh = 0
    /\ excused = {}

-----------------------------------------------------------------------------
(* A scan, of runDev or of the goroutine: a path is named by the listing   *)
(* of its directory, then its contents are read, then its FileInfo, while  *)
(* the disk may change.  The files of the root come first.  A directory    *)
(* below it is missed, with all it holds, if it cannot be read or finds    *)
(* the queue of directories full.                                          *)

Scanning == phase = "scan" \/ (Consuming /\ consumer = "scan")

NewScan == step' = [p \in Paths |-> "todo"] /\ seen' = E!NoEntries(Paths)

RootDone == \A p \in InRoot : step[p] = "done"

\* What is no file when the directory is listed is not in the result.
ListFile(p) ==
    /\ Scanning /\ step[p] = "todo"
    /\ p \in InRoot \/ RootDone
    /\ step' = [step EXCEPT ![p] = IF disk[p] = NoFile THEN "done" ELSE "named"]
    /\ UNCHANGED <<diskVars, phase, engineVars, consumer, seen, watchVars, childVars, excused>>

\* The directory of an existing file is dropped by the full queue, like all
\* below it, or its ReadDir fails: nobody is told.
MissFile(p) ==
    /\ Scanning /\ step[p] = "todo" /\ p \notin InRoot /\ RootDone
    /\ disk[p] # NoFile
    /\ step' = [step EXCEPT ![p] = "done"]
    /\ excused' = excused \cup {p}
    /\ UNCHANGED <<diskVars, phase, engineVars, consumer, seen, watchVars, childVars>>

\* The root has more directories than the queue holds, and no worker is started
\* before the last one is sent: the scan never returns.  In the first one there is
\* no other goroutine, which may end the program.
ScanHangs ==
    /\ Scanning /\ RootDone
    /\ \A p \in Paths \ InRoot : step[p] = "todo"
    /\ IF phase = "scan" THEN phase' \in {"hung", "panicked"} /\ UNCHANGED consumer
                         ELSE consumer' = "hung" /\ UNCHANGED phase
    /\ UNCHANGED <<diskVars, engineVars, scanVars, watchVars, childVars, excused>>

\* A file that cannot be read has the hash 0.
HashFile(p) ==
    /\ Scanning /\ step[p] = "named"
    /\ seen' = [seen EXCEPT ![p] = IF disk[p] = NoFile THEN Zero ELSE disk[p]]
    /\ step' = [step EXCEPT ![p] = "hashed"]
    /\ UNCHANGED <<diskVars, phase, engineVars, consumer, watchVars, childVars, excused>>

\* The error of e.Info is ignored: the nil FileInfo of a removed file ends
\* the program.
FileInfo(p) ==
    /\ Scanning /\ step[p] = "hashed"
    /\ IF disk[p] = NoFile
       THEN phase' = "panicked" /\ UNCHANGED step
       ELSE step' = [step EXCEPT ![p] = "done"] /\ UNCHANGED phase
    /\ UNCHANGED <<diskVars, engineVars, consumer, seen, watchVars, childVars, excused>>

ScanEnd ==
    /\ Scanning
    /\ \A p \in Paths : step[p] = "done"
    /\ IF phase = "scan" THEN phase' = "snapshot" /\ UNCHANGED consumer
                         ELSE consumer' = "compare" /\ UNCHANGED phase
    /\ UNCHANGED <<diskVars, engineVars, scanVars, watchVars, childVars, excused>>

\* The root cannot be listed: runDev returns, the goroutine drops the event.
ScanFails ==
    /\ Scanning
    /\ \A p \in Paths : step[p] = "todo"
    /\ IF phase = "scan" THEN phase' = "returned" /\ UNCHANGED consumer
                         ELSE consumer' = "idle" /\ UNCHANGED phase
    /\ excused' = Paths
    /\ UNCHANGED <<diskVars, engineVars, scanVars, watchVars, childVars>>

-----------------------------------------------------------------------------
(* runDev                                                                  *)

FirstSnapshot ==
    /\ phase = "snapshot"
    /\ base' = E!Snapshot(base, seen)
    /\ told' = seen
    /\ phase' = "watch"
    /\ UNCHANGED <<diskVars, consumer, scanVars, watchVars, childVars, excused>>

\* The watcher's Start, which may fail, and the search for the binary of next.
StartWatcher ==
    /\ phase = "watch"
    /\ phase' \in {"start", "watchOnly", "returned"}
    /\ UNCHANGED <<diskVars, engineVars, consumer, scanVars, watchVars, childVars, excused>>

StartChild ==
    /\ phase = "start"
    /\ \/ phase' = "notify" /\ child' = "running"
       \/ phase' = "returned" /\ UNCHANGED child
    /\ UNCHANGED <<diskVars, engineVars, consumer, scanVars, watchVars, sent, sigCh, excused>>

\* signal.Notify, and the goroutine is started.
Notify ==
    /\ phase = "notify"
    /\ phase' = "running"
    /\ UNCHANGED <<diskVars, engineVars, consumer, scanVars, watchVars, childVars, excused>>

\* <-sigCh, and the child is asked to end.
Terminate ==
    /\ phase = "running"
    /\ sigCh = 1
    /\ sigCh' = 0
    /\ sent' = sent \cup {"TERM"}
    /\ phase' = "waiting"
    /\ UNCHANGED <<diskVars, engineVars, consumer, scanVars, watchVars, child, excused>>

WaitReturns ==
    /\ phase = "waiting"
    /\ child = "exited"
    /\ phase' = "stopping"
    /\ UNCHANGED <<diskVars, engineVars, consumer, scanVars, watchVars, childVars, excused>>

\* Wrong on purpose: the child is not killed when the five seconds are over.
WaitTimesOutOnly ==
    /\ phase = "waiting"
    /\ phase' = "stopping"
    /\ UNCHANGED <<diskVars, engineVars, consumer, scanVars, watchVars, childVars, excused>>

\* The five seconds are over.
WaitTimesOut ==
    /\ phase = "waiting"
    /\ sent' = sent \cup {"KILL"}
    /\ phase' = "stopping"
    /\ UNCHANGED <<diskVars, engineVars, consumer, scanVars, watchVars, child, sigCh, excused>>

\* w.Stop, and the process ends with whatever the goroutine was doing.
Return ==
    /\ phase = "stopping"
    /\ phase' = "returned"
    /\ UNCHANGED <<diskVars, engineVars, consumer, scanVars, watchVars, childVars, excused>>

-----------------------------------------------------------------------------
(* The goroutine                                                           *)

\* An event is received; without next's binary runDev itself only prints it.
ReceiveEvent ==
    /\ events > 0
    /\ \/ phase = "watchOnly" /\ UNCHANGED <<consumer, scanVars, excused>>
       \/ /\ Consuming /\ consumer = "idle"
          /\ consumer' = "scan"
          /\ NewScan
          /\ excused' = {}
    /\ events' = events - 1
    /\ UNCHANGED <<diskVars, phase, engineVars, pending, childVars>>

\* Wrong on purpose: a round that only deletes counts as a round without changes.
CompareIgnoresDeletes ==
    /\ Consuming /\ consumer = "compare"
    /\ LET found == E!ComputeChanges(base, seen) IN
       IF found.created \cup found.modified = {}
       THEN consumer' = "idle" /\ UNCHANGED told
       ELSE /\ told' = [p \in Paths |-> IF p \in E!AffectedFiles(found)
                                        THEN seen[p] ELSE told[p]]
            /\ consumer' = "snapshot"
    /\ UNCHANGED <<diskVars, phase, base, scanVars, watchVars, childVars, excused>>

\* The scan is compared with the base and what differs is reported.
Compare ==
    /\ Consuming /\ consumer = "compare"
    /\ LET found == E!ComputeChanges(base, seen) IN
       IF E!AffectedFiles(found) = {}
       THEN consumer' = "idle" /\ UNCHANGED told
       ELSE /\ told' = [p \in Paths |-> IF p \in E!AffectedFiles(found)
                                        THEN seen[p] ELSE told[p]]
            /\ consumer' = "snapshot"
    /\ UNCHANGED <<diskVars, phase, base, scanVars, watchVars, childVars, excused>>

TakeSnapshot ==
    /\ Consuming /\ consumer = "snapshot"
    /\ base' = E!Snapshot(base, seen)
    /\ consumer' = "idle"
    /\ UNCHANGED <<diskVars, phase, told, scanVars, watchVars, childVars, excused>>

-----------------------------------------------------------------------------
(* The watcher, the child and the user                                     *)

\* Wrong on purpose: the channel takes whatever is sent.
DeliverAlways(p) ==
    /\ Watching /\ p \in pending
    /\ pending' = pending \ {p}
    /\ events' = events + 1
    /\ UNCHANGED <<diskVars, phase, engineVars, consumer, scanVars, childVars, excused>>

\* An event of the batch is sent, or refused by the full channel.
Deliver(p) ==
    /\ Watching /\ p \in pending
    /\ pending' = pending \ {p}
    /\ events' = IF events < ChanCap THEN events + 1 ELSE events
    /\ UNCHANGED <<diskVars, phase, engineVars, consumer, scanVars, childVars, excused>>

\* A file is written, created or removed.  Before the watcher is started
\* nobody is told; afterwards its loop may lose the event.
Change(p) ==
    /\ changes < MaxChanges
    /\ phase \notin Ended
    /\ \E c \in (Contents \cup {NoFile}) \ {disk[p]} : disk' = [disk EXCEPT ![p] = c]
    /\ changes' = changes + 1
    /\ \/ Watching /\ pending' = pending \cup {p} /\ UNCHANGED excused
       \/ excused' = excused \cup {p} /\ UNCHANGED pending
    /\ UNCHANGED <<phase, engineVars, consumer, scanVars, events, childVars>>

\* The child ends by itself or because of a signal; it may ignore SIGTERM.
ChildExits ==
    /\ child = "running"
    /\ child' = "exited"
    /\ UNCHANGED <<diskVars, phase, engineVars, consumer, scanVars, watchVars, sent, sigCh, excused>>

\* The user's signal: before signal.Notify, and where nobody called it, it
\* ends the process; a second one finds sigCh full, or is read by nobody.
Interrupt ==
    /\ phase \notin Ended
    /\ IF Consuming THEN sigCh' = 1 /\ UNCHANGED phase
                    ELSE phase' = "killed" /\ UNCHANGED sigCh
    /\ UNCHANGED <<diskVars, engineVars, consumer, scanVars, watchVars, child, sent, excused>>

-----------------------------------------------------------------------------

Scan == \/ \E p \in Paths : ListFile(p) \/ MissFile(p) \/ HashFile(p) \/ FileInfo(p)
        \/ ScanHangs \/ ScanEnd \/ ScanFails
Main == FirstSnapshot \/ StartWatcher \/ StartChild \/ Notify \/ Terminate
        \/ WaitReturns \/ WaitTimesOut \/ Return
Consumer == ReceiveEvent \/ Compare \/ TakeSnapshot
Environment == ChildExits \/ Interrupt \/ \E p \in Paths : Change(p)

Next == Scan \/ Main \/ Consumer \/ (\E p \in Paths : Deliver(p)) \/ Environment

Killed == "KILL" \in sent /\ ChildExits

Spec == /\ Init /\ [][Next]_vars
        /\ WF_vars(Scan) /\ WF_vars(Main) /\ WF_vars(Consumer)
        /\ \A p \in Paths : WF_vars(Deliver(p))
        /\ WF_vars(Killed)

-----------------------------------------------------------------------------
(* Properties                                                              *)

\* The reports and the engine agree with the disk.  A deleted file stays in the base:
\* one that is restored with the contents it had is not reported again.
Current(p) ==
    IF disk[p] = NoFile THEN told[p] = NoFile
    ELSE base[p] = disk[p] /\ told[p] \in {disk[p], NoFile}

Settled == consumer = "idle" /\ events = 0 /\ pending = {}

\* When the watcher holds nothing, its channel is empty and the goroutine waits
\* for an event, the base agrees with the disk at every path (or the path was
\* reported as deleted), and so do the reports (but for a file that was restored as
\* it was), although the scans read the disk while it changed and the full channel
\* refused events.  Excused is a path changed before the watcher was started, one
\* whose event the watcher's loop lost, every path after a scan that failed, and a
\* file below the root that the last scan missed, until the next one begins.
SettledMeansCurrent ==
    Consuming /\ Settled => \A p \in Paths \ excused : Current(p)

Stale(p) == phase = "running" /\ p \notin excused /\ ~Current(p)

\* A path at which the base or the reports are behind the disk does not stay so
\* while dev runs: an event that is already under way leads to a scan that sees
\* the change, unless that scan misses the file or hangs.
CatchesUp == \A p \in Paths : Stale(p) ~> ~Stale(p) \/ consumer = "hung"

\* Once the user has asked for it, dev ends, and not before the child was told to
\* end: it has exited in the end even if it ignores SIGTERM.  Only the panic of a
\* scan in the goroutine leaves it behind.
ShutdownEnds ==
    phase = "running" /\ sigCh = 1 ~>
        \/ phase = "returned" /\ child = "exited" /\ "TERM" \in sent
        \/ phase = "panicked"

=============================================================================
