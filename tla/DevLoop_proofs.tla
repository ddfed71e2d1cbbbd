---------------------------- MODULE DevLoop_proofs ----------------------------
(***************************************************************************)
(* For any set of files, contents and changes and any capacity of the      *)
(* watcher's channel: when dev has nothing left to do, the engine's base   *)
(* agrees with the disk.                                                   *)
(***************************************************************************)
EXTENDS DevLoop, TLAPS

\* Another scan will begin: p waits to be sent, or an event waits to be read.
Due(p) == p \in pending \/ events > 0

\* What the scan under way has read of p is still so.
Read(p) ==
    /\ step[p] \in {"named", "hashed"} => disk[p] # NoFile
    /\ step[p] \in {"hashed", "done"} => seen[p] = disk[p]

\* Each stage hands on what the scan has read.
Scanned == phase = "snapshot" \/ (Consuming /\ consumer = "compare")
Sure(p) ==
    /\ Scanning => Read(p)
    /\ Scanned => seen[p] = disk[p]
    /\ Consuming /\ consumer = "snapshot" =>
        seen[p] = disk[p] /\ (seen[p] = NoFile => told[p] = NoFile)
    /\ phase \in {"watch", "start", "notify"} => Current(p)
    /\ Consuming /\ consumer = "idle" => Current(p)

DueOrSure == \A p \in Paths \ excused : Due(p) \/ Sure(p)

\* What a report says is there is what the base holds, or will hold.
ToldIsKept ==
    \A p \in Paths : told[p] # NoFile =>
        told[p] = IF consumer = "snapshot" /\ seen[p] # NoFile THEN seen[p] ELSE base[p]

\* A scan has nothing of a path whose contents it has not read.
NotReadYet == Scanning => \A p \in Paths : step[p] \in {"todo", "named"} => seen[p] = NoFile

\* Until the goroutine is started there is no report, and before the first snapshot
\* no base.
BeforeTheFirst ==
    /\ phase \in {"scan", "snapshot"} =>
            base = [p \in Paths |-> NoFile] /\ told = [p \in Paths |-> NoFile]
    /\ phase \in {"scan", "snapshot", "watch", "start", "notify", "watchOnly"} =>
            consumer = "idle"

DevInv == TypeOK /\ DueOrSure /\ ToldIsKept /\ NotReadYet /\ BeforeTheFirst

LEMMA DevInit == Init => DevInv
<1> SUFFICES ASSUME Init
             PROVE  DevInv
  OBVIOUS
<1> USE DEF Init
<1>1. TypeOK
  BY ChanCapAssumption, MaxChangesAssumption
     DEF TypeOK, Hashes, Ended, E!NoEntries
<1>2. DueOrSure
  BY DEF DueOrSure, Sure, Read, Scanning, Scanned, Consuming
<1>3. ToldIsKept /\ NotReadYet /\ BeforeTheFirst
  BY DEF ToldIsKept, NotReadYet, BeforeTheFirst, E!NoEntries
<1> QED
  BY <1>1, <1>2, <1>3 DEF DevInv

-----------------------------------------------------------------------------
(* The scan                                                                *)

LEMMA ListFileStep ==
    ASSUME DevInv, NEW p \in Paths, ListFile(p)
    PROVE  DevInv'
<1> USE DEF ListFile, DevInv, diskVars, engineVars, watchVars, childVars
<1>1. TypeOK'
  BY DEF TypeOK
<1>2. \A q \in Paths \ {p} : step'[q] = step[q]
  BY DEF TypeOK
<1>3. step'[p] = IF disk[p] = NoFile THEN "done" ELSE "named"
  BY DEF TypeOK
<1>4. seen[p] = NoFile
  BY DEF NotReadYet
<1>5. DueOrSure'
  <2> SUFFICES ASSUME NEW q \in Paths \ excused
               PROVE  (Due(q) \/ Sure(q))'
    BY DEF DueOrSure
  <2>1. Sure(q) => Sure(q)'
    BY <1>2, <1>3, <1>4 DEF Sure, Read, Scanning, Scanned, Consuming, Current
  <2> QED
    BY <2>1 DEF DueOrSure, Due
<1>6. ToldIsKept' /\ BeforeTheFirst'
  BY DEF ToldIsKept, BeforeTheFirst, Consuming
<1>7. NotReadYet'
  BY <1>2, <1>3, <1>4 DEF NotReadYet, Scanning, Consuming
<1> QED
  BY <1>1, <1>5, <1>6, <1>7

LEMMA MissFileStep ==
    ASSUME DevInv, NEW p \in Paths, MissFile(p)
    PROVE  DevInv'
<1> USE DEF MissFile, DevInv, diskVars, engineVars, watchVars, childVars
<1>1. TypeOK'
  BY DEF TypeOK
<1>2. \A q \in Paths \ {p} : step'[q] = step[q]
  BY DEF TypeOK
<1>3. step'[p] = "done"
  BY DEF TypeOK
<1>4. DueOrSure'
  <2> SUFFICES ASSUME NEW q \in Paths \ excused'
               PROVE  (Due(q) \/ Sure(q))'
    BY DEF DueOrSure
  <2>1. q \in Paths \ excused /\ q # p
    OBVIOUS
  <2>2. Sure(q) => Sure(q)'
    BY <1>2, <2>1 DEF Sure, Read, Scanning, Scanned, Consuming, Current
  <2> QED
    BY <2>1, <2>2 DEF DueOrSure, Due
<1>5. ToldIsKept' /\ BeforeTheFirst'
  BY DEF ToldIsKept, BeforeTheFirst, Consuming
<1>6. NotReadYet'
  BY <1>2, <1>3 DEF NotReadYet, Scanning, Consuming
<1> QED
  BY <1>1, <1>4, <1>5, <1>6

LEMMA ScanHangsStep ==
    ASSUME DevInv, ScanHangs
    PROVE  DevInv'
<1> USE DEF ScanHangs, DevInv, diskVars, engineVars, watchVars, childVars, scanVars
<1>1. TypeOK'
  BY DEF TypeOK, Ended
<1>2. DueOrSure'
  <2> SUFFICES ASSUME NEW q \in Paths \ excused
               PROVE  (Due(q) \/ Sure(q))'
    BY DEF DueOrSure
  <2>1. Sure(q) => Sure(q)'
    BY DEF Sure, Read, Scanning, Scanned, Consuming, Current, BeforeTheFirst
  <2> QED
    BY <2>1 DEF DueOrSure, Due
<1>3. ToldIsKept' /\ BeforeTheFirst'
  BY DEF ToldIsKept, BeforeTheFirst, Consuming, Scanning
<1>4. NotReadYet'
  BY DEF NotReadYet, Scanning, Consuming
<1> QED
  BY <1>1, <1>2, <1>3, <1>4

LEMMA HashFileStep ==
    ASSUME DevInv, NEW p \in Paths, HashFile(p)
    PROVE  DevInv'
<1> USE DEF HashFile, DevInv, diskVars, engineVars, watchVars, childVars
<1>1. TypeOK'
  BY DEF TypeOK, Hashes
<1>2. \A q \in Paths \ {p} : step'[q] = step[q] /\ seen'[q] = seen[q]
  BY DEF TypeOK
<1>3. step'[p] = "hashed" /\ seen'[p] = IF disk[p] = NoFile THEN Zero ELSE disk[p]
  BY DEF TypeOK
<1>5. DueOrSure'
  <2> SUFFICES ASSUME NEW q \in Paths \ excused
               PROVE  (Due(q) \/ Sure(q))'
    BY DEF DueOrSure
  <2>1. Sure(q) => Sure(q)'
    BY <1>2, <1>3, ContentsAssumption
       DEF Sure, Read, Scanning, Scanned, Consuming, Current, BeforeTheFirst
  <2> QED
    BY <2>1 DEF DueOrSure, Due
<1>6. ToldIsKept' /\ BeforeTheFirst'
  BY DEF ToldIsKept, BeforeTheFirst, Consuming, Scanning
<1>7. NotReadYet'
  BY <1>2, <1>3 DEF NotReadYet, Scanning, Consuming
<1> QED
  BY <1>1, <1>5, <1>6, <1>7

LEMMA FileInfoStep ==
    ASSUME DevInv, NEW p \in Paths, FileInfo(p)
    PROVE  DevInv'
<1> USE DEF FileInfo, DevInv, diskVars, engineVars, watchVars, childVars
<1>1. TypeOK'
  BY DEF TypeOK, Ended
<1>2. \A q \in Paths \ {p} : step'[q] = step[q]
  BY DEF TypeOK
<1>3. phase' = phase => step'[p] = "done"
  <2>1. phase # "panicked"
    BY DEF Scanning, Consuming
  <2> QED
    BY <2>1 DEF TypeOK
<1>5. DueOrSure'
  <2> SUFFICES ASSUME NEW q \in Paths \ excused
               PROVE  (Due(q) \/ Sure(q))'
    BY DEF DueOrSure
  <2>1. phase' = phase /\ Sure(q) => Sure(q)'
    BY <1>2, <1>3 DEF Sure, Read, Scanning, Scanned, Consuming, Current
  <2>2. phase' = "panicked" => Sure(q)'
    BY DEF Sure, Scanning, Scanned, Consuming
  <2> QED
    BY <2>1, <2>2 DEF DueOrSure, Due
<1>6. ToldIsKept' /\ BeforeTheFirst'
  BY DEF ToldIsKept, BeforeTheFirst, Consuming, Scanning
<1>7. NotReadYet'
  BY <1>2, <1>3 DEF NotReadYet, Scanning, Consuming
<1> QED
  BY <1>1, <1>5, <1>6, <1>7

LEMMA ScanEndStep ==
    ASSUME DevInv, ScanEnd
    PROVE  DevInv'
<1> USE DEF ScanEnd, DevInv, diskVars, engineVars, watchVars, childVars, scanVars
<1>1. TypeOK'
  BY DEF TypeOK
<1>5. DueOrSure'
  <2> SUFFICES ASSUME NEW q \in Paths \ excused
               PROVE  (Due(q) \/ Sure(q))'
    BY DEF DueOrSure
  <2>1. Sure(q) => Sure(q)'
    BY DEF Sure, Read, Scanning, Scanned, Consuming, Current
  <2> QED
    BY <2>1 DEF DueOrSure, Due
<1>6. ToldIsKept' /\ BeforeTheFirst'
  BY DEF ToldIsKept, BeforeTheFirst, Consuming, Scanning
<1>7. NotReadYet'
  BY DEF NotReadYet, Scanning, Consuming
<1> QED
  BY <1>1, <1>5, <1>6, <1>7

LEMMA ScanFailsStep ==
    ASSUME DevInv, ScanFails
    PROVE  DevInv'
<1> USE DEF ScanFails, DevInv, diskVars, engineVars, watchVars, childVars, scanVars
<1>1. TypeOK'
  BY DEF TypeOK, Ended
<1>5. DueOrSure'
  BY DEF DueOrSure
<1>6. ToldIsKept' /\ BeforeTheFirst'
  BY DEF ToldIsKept, BeforeTheFirst, Consuming, Scanning
<1>7. NotReadYet'
  BY DEF NotReadYet, Scanning, Consuming
<1> QED
  BY <1>1, <1>5, <1>6, <1>7

-----------------------------------------------------------------------------
(* runDev                                                                  *)

\* What a snapshot makes of the base.
LEMMA SnapshotAt ==
    ASSUME TypeOK, NEW p \in Paths
    PROVE  E!Snapshot(base, seen)[p] = IF seen[p] # NoFile THEN seen[p] ELSE base[p]
  BY DEF TypeOK, E!Snapshot

LEMMA SnapshotType ==
    ASSUME TypeOK
    PROVE  E!Snapshot(base, seen) \in [Paths -> Hashes]
  BY DEF TypeOK, E!Snapshot

LEMMA FirstSnapshotStep ==
    ASSUME DevInv, FirstSnapshot
    PROVE  DevInv'
<1> USE DEF FirstSnapshot, DevInv, diskVars, watchVars, childVars, scanVars
<1>1. TypeOK'
  BY SnapshotType DEF TypeOK
<1>2. \A p \in Paths : base'[p] = seen[p] /\ told'[p] = seen[p]
  BY SnapshotAt DEF BeforeTheFirst
<1>3. DueOrSure'
  <2> SUFFICES ASSUME NEW q \in Paths \ excused
               PROVE  (Due(q) \/ Sure(q))'
    BY DEF DueOrSure
  <2>1. Sure(q) => Sure(q)'
    BY <1>2 DEF Sure, Read, Scanning, Scanned, Consuming, Current
  <2> QED
    BY <2>1 DEF DueOrSure, Due
<1>4. ToldIsKept' /\ BeforeTheFirst'
  BY <1>2 DEF ToldIsKept, BeforeTheFirst
<1>5. NotReadYet'
  BY DEF NotReadYet, Scanning, Consuming
<1> QED
  BY <1>1, <1>3, <1>4, <1>5

LEMMA StartWatcherStep ==
    ASSUME DevInv, StartWatcher
    PROVE  DevInv'
<1> USE DEF StartWatcher, DevInv, diskVars, engineVars, watchVars, childVars, scanVars
<1>1. TypeOK'
  BY DEF TypeOK, Ended
<1>2. DueOrSure'
  <2> SUFFICES ASSUME NEW q \in Paths \ excused
               PROVE  (Due(q) \/ Sure(q))'
    BY DEF DueOrSure
  <2>1. Sure(q) => Sure(q)'
    BY DEF Sure, Read, Scanning, Scanned, Consuming, Current, BeforeTheFirst
  <2> QED
    BY <2>1 DEF DueOrSure, Due
<1>3. ToldIsKept' /\ BeforeTheFirst'
  BY DEF ToldIsKept, BeforeTheFirst, Consuming
<1>4. NotReadYet'
  BY DEF NotReadYet, Scanning, Consuming, BeforeTheFirst
<1> QED
  BY <1>1, <1>2, <1>3, <1>4

LEMMA StartChildStep ==
    ASSUME DevInv, StartChild
    PROVE  DevInv'
<1> USE DEF StartChild, DevInv, diskVars, engineVars, watchVars, childVars, scanVars
<1>1. TypeOK'
  BY DEF TypeOK, Ended
<1>2. DueOrSure'
  <2> SUFFICES ASSUME NEW q \in Paths \ excused
               PROVE  (Due(q) \/ Sure(q))'
    BY DEF DueOrSure
  <2>1. Sure(q) => Sure(q)'
    BY DEF Sure, Read, Scanning, Scanned, Consuming, Current, BeforeTheFirst
  <2> QED
    BY <2>1 DEF DueOrSure, Due
<1>3. ToldIsKept' /\ BeforeTheFirst'
  BY DEF ToldIsKept, BeforeTheFirst, Consuming
<1>4. NotReadYet'
  BY DEF NotReadYet, Scanning, Consuming, BeforeTheFirst
<1> QED
  BY <1>1, <1>2, <1>3, <1>4

LEMMA NotifyStep ==
    ASSUME DevInv, Notify
    PROVE  DevInv'
<1> USE DEF Notify, DevInv, diskVars, engineVars, watchVars, childVars, scanVars
<1>1. TypeOK'
  BY DEF TypeOK, Ended
<1>2. DueOrSure'
  <2> SUFFICES ASSUME NEW q \in Paths \ excused
               PROVE  (Due(q) \/ Sure(q))'
    BY DEF DueOrSure
  <2>1. Sure(q) => Sure(q)'
    BY DEF Sure, Read, Scanning, Scanned, Consuming, Current, BeforeTheFirst
  <2> QED
    BY <2>1 DEF DueOrSure, Due
<1>3. ToldIsKept' /\ BeforeTheFirst'
  BY DEF ToldIsKept, BeforeTheFirst, Consuming
<1>4. NotReadYet'
  BY DEF NotReadYet, Scanning, Consuming, BeforeTheFirst
<1> QED
  BY <1>1, <1>2, <1>3, <1>4

LEMMA TerminateStep ==
    ASSUME DevInv, Terminate
    PROVE  DevInv'
<1> USE DEF Terminate, DevInv, diskVars, engineVars, watchVars, childVars, scanVars
<1>1. TypeOK'
  BY DEF TypeOK, Ended
<1>2. DueOrSure'
  <2> SUFFICES ASSUME NEW q \in Paths \ excused
               PROVE  (Due(q) \/ Sure(q))'
    BY DEF DueOrSure
  <2>1. Sure(q) => Sure(q)'
    BY DEF Sure, Read, Scanning, Scanned, Consuming, Current, BeforeTheFirst
  <2> QED
    BY <2>1 DEF DueOrSure, Due
<1>3. ToldIsKept' /\ BeforeTheFirst'
  BY DEF ToldIsKept, BeforeTheFirst, Consuming
<1>4. NotReadYet'
  BY DEF NotReadYet, Scanning, Consuming, BeforeTheFirst
<1> QED
  BY <1>1, <1>2, <1>3, <1>4

LEMMA WaitReturnsStep ==
    ASSUME DevInv, WaitReturns
    PROVE  DevInv'
<1> USE DEF WaitReturns, DevInv, diskVars, engineVars, watchVars, childVars, scanVars
<1>1. TypeOK'
  BY DEF TypeOK, Ended
<1>2. DueOrSure'
  <2> SUFFICES ASSUME NEW q \in Paths \ excused
               PROVE  (Due(q) \/ Sure(q))'
    BY DEF DueOrSure
  <2>1. Sure(q) => Sure(q)'
    BY DEF Sure, Read, Scanning, Scanned, Consuming, Current, BeforeTheFirst
  <2> QED
    BY <2>1 DEF DueOrSure, Due
<1>3. ToldIsKept' /\ BeforeTheFirst'
  BY DEF ToldIsKept, BeforeTheFirst, Consuming
<1>4. NotReadYet'
  BY DEF NotReadYet, Scanning, Consuming, BeforeTheFirst
<1> QED
  BY <1>1, <1>2, <1>3, <1>4

LEMMA WaitTimesOutStep ==
    ASSUME DevInv, WaitTimesOut
    PROVE  DevInv'
<1> USE DEF WaitTimesOut, DevInv, diskVars, engineVars, watchVars, childVars, scanVars
<1>1. TypeOK'
  BY DEF TypeOK, Ended
<1>2. DueOrSure'
  <2> SUFFICES ASSUME NEW q \in Paths \ excused
               PROVE  (Due(q) \/ Sure(q))'
    BY DEF DueOrSure
  <2>1. Sure(q) => Sure(q)'
    BY DEF Sure, Read, Scanning, Scanned, Consuming, Current, BeforeTheFirst
  <2> QED
    BY <2>1 DEF DueOrSure, Due
<1>3. ToldIsKept' /\ BeforeTheFirst'
  BY DEF ToldIsKept, BeforeTheFirst, Consuming
<1>4. NotReadYet'
  BY DEF NotReadYet, Scanning, Consuming, BeforeTheFirst
<1> QED
  BY <1>1, <1>2, <1>3, <1>4

LEMMA ReturnStep ==
    ASSUME DevInv, Return
    PROVE  DevInv'
<1> USE DEF Return, DevInv, diskVars, engineVars, watchVars, childVars, scanVars
<1>1. TypeOK'
  BY DEF TypeOK, Ended
<1>2. DueOrSure'
  <2> SUFFICES ASSUME NEW q \in Paths \ excused
               PROVE  (Due(q) \/ Sure(q))'
    BY DEF DueOrSure
  <2>1. Sure(q) => Sure(q)'
    BY DEF Sure, Read, Scanning, Scanned, Consuming, Current, BeforeTheFirst
  <2> QED
    BY <2>1 DEF DueOrSure, Due
<1>3. ToldIsKept' /\ BeforeTheFirst'
  BY DEF ToldIsKept, BeforeTheFirst, Consuming
<1>4. NotReadYet'
  BY DEF NotReadYet, Scanning, Consuming, BeforeTheFirst
<1> QED
  BY <1>1, <1>2, <1>3, <1>4

-----------------------------------------------------------------------------
(* The goroutine                                                           *)

LEMMA ReceiveEventStep ==
    ASSUME DevInv, ReceiveEvent
    PROVE  DevInv'
<1> USE DEF ReceiveEvent, DevInv, diskVars, engineVars, childVars, scanVars
<1>1. TypeOK'
  <2>1. events' \in 0 .. ChanCap
    BY ChanCapAssumption DEF TypeOK
  <2> QED
    BY <2>1 DEF TypeOK, NewScan, Hashes, E!NoEntries
<1>2. CASE phase = "watchOnly"
  BY <1>1, <1>2 DEF DueOrSure, Sure, Scanning, Scanned, Consuming, ToldIsKept, NotReadYet,
                    BeforeTheFirst
<1>3. CASE Consuming
  <2>1. /\ consumer = "idle" /\ consumer' = "scan" /\ phase' = phase
        /\ step' = [p \in Paths |-> "todo"] /\ seen' = [p \in Paths |-> NoFile]
    BY <1>3 DEF Consuming, NewScan, E!NoEntries
  <2>2. DueOrSure'
    BY <2>1, <1>3 DEF DueOrSure, Sure, Read, Scanning, Scanned, Consuming
  <2>3. ToldIsKept' /\ NotReadYet' /\ BeforeTheFirst'
    BY <2>1, <1>3 DEF ToldIsKept, NotReadYet, BeforeTheFirst, Consuming
  <2> QED
    BY <1>1, <2>2, <2>3
<1> QED
  BY <1>2, <1>3

\* A path is affected if the base and the scan differ at it.
LEMMA AffectedAt ==
    ASSUME TypeOK, NEW p \in Paths
    PROVE  p \in E!AffectedFiles(E!ComputeChanges(base, seen)) <=> base[p] # seen[p]
  BY DEF TypeOK, E!AffectedFiles, E!ComputeChanges, E!EntriesOf

LEMMA CompareStep ==
    ASSUME DevInv, Compare
    PROVE  DevInv'
<1> DEFINE affected == E!AffectedFiles(E!ComputeChanges(base, seen))
<1> USE DEF DevInv
<1>1. /\ Consuming /\ consumer = "compare"
      /\ UNCHANGED <<disk, changes, phase, base, step, seen, pending, events, child, sent,
                     sigCh, excused>>
      /\ \/ affected = {} /\ consumer' = "idle" /\ told' = told
         \/ /\ told' = [p \in Paths |-> IF p \in affected THEN seen[p] ELSE told[p]]
            /\ consumer' = "snapshot"
  BY DEF Compare, diskVars, scanVars, watchVars, childVars
<1>2. \A p \in Paths : p \in affected <=> base[p] # seen[p]
  BY AffectedAt
<1> HIDE DEF affected
<1>3. TypeOK'
  BY <1>1 DEF TypeOK
<1>4. \A p \in Paths : told[p] # NoFile => told[p] = base[p]
  BY <1>1 DEF ToldIsKept
<1>5. DueOrSure'
  <2> SUFFICES ASSUME NEW q \in Paths \ excused
               PROVE  (Due(q) \/ Sure(q))'
    BY <1>1 DEF DueOrSure
  <2>1. Sure(q) => seen[q] = disk[q]
    BY <1>1 DEF Sure, Scanned
  <2>2. CASE affected = {} /\ consumer' = "idle" /\ told' = told
    BY <1>1, <1>2, <1>4, <2>1, <2>2
       DEF DueOrSure, Due, Sure, Scanning, Scanned, Consuming, Current
  <2>3. CASE /\ told' = [p \in Paths |-> IF p \in affected THEN seen[p] ELSE told[p]]
             /\ consumer' = "snapshot"
    BY <1>1, <1>2, <1>4, <2>1, <2>3
       DEF DueOrSure, Due, Sure, Scanning, Scanned, Consuming
  <2> QED
    BY <1>1, <2>2, <2>3
<1>6. ToldIsKept'
  BY <1>1, <1>2, <1>4 DEF ToldIsKept, Consuming
<1>7. NotReadYet' /\ BeforeTheFirst'
  BY <1>1 DEF NotReadYet, BeforeTheFirst, Scanning, Consuming
<1> QED
  BY <1>3, <1>5, <1>6, <1>7

LEMMA TakeSnapshotStep ==
    ASSUME DevInv, TakeSnapshot
    PROVE  DevInv'
<1> USE DEF TakeSnapshot, DevInv, diskVars, watchVars, childVars, scanVars
<1>1. TypeOK'
  BY SnapshotType DEF TypeOK
<1>2. \A p \in Paths : base'[p] = IF seen[p] # NoFile THEN seen[p] ELSE base[p]
  BY SnapshotAt
<1>3. DueOrSure'
  <2> SUFFICES ASSUME NEW q \in Paths \ excused
               PROVE  (Due(q) \/ Sure(q))'
    BY DEF DueOrSure
  <2>1. Sure(q) => Sure(q)'
    BY <1>2 DEF Sure, Scanning, Scanned, Consuming, Current, ToldIsKept
  <2> QED
    BY <2>1 DEF DueOrSure, Due
<1>4. ToldIsKept'
  BY <1>2 DEF ToldIsKept, Consuming
<1>5. NotReadYet' /\ BeforeTheFirst'
  BY DEF NotReadYet, BeforeTheFirst, Scanning, Consuming
<1> QED
  BY <1>1, <1>3, <1>4, <1>5

-----------------------------------------------------------------------------
(* The watcher, the child and the user                                     *)

LEMMA DeliverStep ==
    ASSUME DevInv, NEW p \in Paths, Deliver(p)
    PROVE  DevInv'
<1> USE DEF Deliver, DevInv, diskVars, engineVars, childVars, scanVars
<1>1. events' \in 1 .. ChanCap
  BY ChanCapAssumption DEF TypeOK
<1>2. TypeOK'
  BY <1>1 DEF TypeOK
<1>3. DueOrSure'
  BY <1>1 DEF DueOrSure, Due
<1>4. ToldIsKept' /\ NotReadYet' /\ BeforeTheFirst'
  BY DEF ToldIsKept, NotReadYet, BeforeTheFirst, Scanning, Consuming
<1> QED
  BY <1>2, <1>3, <1>4

LEMMA ChangeStep ==
    ASSUME DevInv, NEW p \in Paths, Change(p)
    PROVE  DevInv'
<1> USE DEF Change, DevInv, engineVars, childVars, scanVars
<1>1. TypeOK'
  <2>1. changes' \in 0 .. MaxChanges
    BY MaxChangesAssumption DEF TypeOK
  <2>2. disk' \in [Paths -> Contents \cup {NoFile}] /\ excused' \in SUBSET Paths
    BY DEF TypeOK
  <2> QED
    BY <2>1, <2>2 DEF TypeOK
<1>2. \A q \in Paths \ {p} : disk'[q] = disk[q]
  BY DEF TypeOK
<1>3. DueOrSure'
  <2> SUFFICES ASSUME NEW q \in Paths \ excused'
               PROVE  (Due(q) \/ Sure(q))'
    BY DEF DueOrSure
  <2>1. CASE q = p
    BY <2>1 DEF Due
  <2>2. CASE q # p
    <3>1. Due(q) => Due(q)'
      BY DEF Due
    <3>2. Sure(q) => Sure(q)'
      BY <2>2, <1>2 DEF Sure, Read, Scanning, Scanned, Consuming, Current
    <3>3. q \in Paths \ excused
      OBVIOUS
    <3> QED
      BY <3>1, <3>2, <3>3 DEF DueOrSure
  <2> QED
    BY <2>1, <2>2
<1>4. ToldIsKept' /\ NotReadYet' /\ BeforeTheFirst'
  BY DEF ToldIsKept, NotReadYet, BeforeTheFirst, Scanning, Consuming
<1> QED
  BY <1>1, <1>3, <1>4

LEMMA ChildExitsStep ==
    ASSUME DevInv, ChildExits
    PROVE  DevInv'
<1> USE DEF ChildExits, DevInv, diskVars, engineVars, watchVars, childVars, scanVars
<1>1. TypeOK'
  BY DEF TypeOK, Ended
<1>2. DueOrSure'
  <2> SUFFICES ASSUME NEW q \in Paths \ excused
               PROVE  (Due(q) \/ Sure(q))'
    BY DEF DueOrSure
  <2>1. Sure(q) => Sure(q)'
    BY DEF Sure, Read, Scanning, Scanned, Consuming, Current, BeforeTheFirst
  <2> QED
    BY <2>1 DEF DueOrSure, Due
<1>3. ToldIsKept' /\ BeforeTheFirst'
  BY DEF ToldIsKept, BeforeTheFirst, Consuming
<1>4. NotReadYet'
  BY DEF NotReadYet, Scanning, Consuming, BeforeTheFirst
<1> QED
  BY <1>1, <1>2, <1>3, <1>4

LEMMA InterruptStep ==
    ASSUME DevInv, Interrupt
    PROVE  DevInv'
<1> USE DEF Interrupt, DevInv, diskVars, engineVars, watchVars, childVars, scanVars
<1>1. TypeOK'
  BY DEF TypeOK, Ended
<1>2. DueOrSure'
  <2> SUFFICES ASSUME NEW q \in Paths \ excused
               PROVE  (Due(q) \/ Sure(q))'
    BY DEF DueOrSure
  <2>1. Sure(q) => Sure(q)'
    BY DEF Sure, Read, Scanning, Scanned, Consuming, Current, BeforeTheFirst
  <2> QED
    BY <2>1 DEF DueOrSure, Due
<1>3. ToldIsKept' /\ BeforeTheFirst'
  BY DEF ToldIsKept, BeforeTheFirst, Consuming
<1>4. NotReadYet'
  BY DEF NotReadYet, Scanning, Consuming, BeforeTheFirst
<1> QED
  BY <1>1, <1>2, <1>3, <1>4

-----------------------------------------------------------------------------

LEMMA DevStep == DevInv /\ [Next]_vars => DevInv'
<1> SUFFICES ASSUME DevInv, [Next]_vars
             PROVE  DevInv'
  OBVIOUS
<1>1. CASE UNCHANGED vars
  BY <1>1 DEF vars, diskVars, engineVars, watchVars, childVars, scanVars, DevInv, TypeOK,
              DueOrSure, Due, Sure, Read, Scanning, Scanned, Consuming, Current, ToldIsKept,
              NotReadYet, BeforeTheFirst
<1>2. CASE Scan
  BY <1>2, ListFileStep, MissFileStep, HashFileStep, FileInfoStep, ScanHangsStep, ScanEndStep,
     ScanFailsStep DEF Scan
<1>3. CASE Main
  BY <1>3, FirstSnapshotStep, StartWatcherStep, StartChildStep, NotifyStep, TerminateStep,
     WaitReturnsStep, WaitTimesOutStep, ReturnStep DEF Main
<1>4. CASE Consumer
  BY <1>4, ReceiveEventStep, CompareStep, TakeSnapshotStep DEF Consumer
<1>5. CASE Environment \/ \E p \in Paths : Deliver(p)
  BY <1>5, DeliverStep, ChangeStep, ChildExitsStep, InterruptStep DEF Environment
<1> QED
  BY <1>1, <1>2, <1>3, <1>4, <1>5 DEF Next

\* Whatever a path holds, p is either about to be scanned again or every stage of the
\* loop agrees with the disk about it.
THEOREM DevInvCorrect == Spec => []DevInv
<1>1. Init => DevInv
  BY DevInit
<1>2. DevInv /\ [Next]_vars => DevInv'
  BY DevStep
<1> QED
  BY <1>1, <1>2, PTL DEF Spec

\* The variables of the dev loop (dev.go, engine.go) have their types: the channels of
\* events and signals never hold more than their capacity.
THEOREM TypeCorrect == Spec => []TypeOK
<1>1. DevInv => TypeOK
  BY DEF DevInv
<1> QED
  BY <1>1, DevInvCorrect, PTL

\* When no event is on its way and the goroutine of runDev waits for one, the base
\* hashes of the engine and its reports agree with the disk.
THEOREM SettledMeansCurrentCorrect == Spec => []SettledMeansCurrent
<1>1. DevInv => SettledMeansCurrent
  BY DEF DevInv, DueOrSure, Due, Sure, Settled, SettledMeansCurrent
<1> QED
  BY <1>1, DevInvCorrect, PTL
=============================================================================
