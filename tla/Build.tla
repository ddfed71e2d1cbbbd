-------------------------------- MODULE Build --------------------------------
(***************************************************************************)
(* `effective-next build` (cli/build.go) and `clean` (cli/clean.go): any   *)
(* number of processes on one project directory, which share its build     *)
(* database and the manifest, and may be killed at any point.              *)
(*                                                                         *)
(* What a build computes without touching anything shared is one step:     *)
(* the graph, the parsed imports, the routes and the manifest.  The        *)
(* manifest is as long as the scan found files.                            *)
(***************************************************************************)
EXTENDS Database

CONSTANTS Procs,        \* processes
          MaxFound,     \* bound: files a scan finds
          MaxBuilds,    \* bound: builds started
          MaxCleans     \* bound: cleans

ASSUME BuildBounds == MaxFound \in Nat /\ MaxBuilds \in Nat /\ MaxCleans \in Nat

VARIABLES
    at,         \* where each process is in runBuild
    build,      \* its locals: build id, files found, entries of its manifest,
                \* the database and the manifest file it has open
    started,    \* number of builds started, and the clock
    exists,     \* the directory .effective-next exists
    cleans,     \* number of cleans: a database opened before is another file
    manifest,   \* manifest.json: for each byte, the build that wrote it
    abandoned,  \* history: builds whose process went away before FinishBuild, or for
                \* which FinishBuild failed
    ended,      \* history: what the runs of an id told FinishBuild
    shared,     \* history: ids that two builds drew
    torn        \* history: the manifest was written by two at once, or not to its end

buildVars == <<at, build, started, exists, cleans, manifest, abandoned, ended, shared, torn>>
unusedTables == <<fileRows, depRows, routeRows, cacheEntries, benchRows, purging, dbLog>>

NoBuild == [id |-> 0, found |-> 0, entries |-> 0, db |-> 0, file |-> 0]
NoManifest == <<>>

BuildTypeOK ==
    /\ at \in [Procs -> {"idle", "open", "scan", "create", "write", "schedule", "next"}]
    /\ \A p \in Procs : /\ build[p].id \in 0 .. started /\ build[p].found \in 0 .. MaxFound
                        /\ build[p].entries \in 0 .. MaxFound + 1
                        /\ build[p].db \in 0 .. cleans /\ build[p].file \in 0 .. cleans
    /\ started \in 0 .. MaxBuilds /\ cleans \in 0 .. MaxCleans
    /\ exists \in BOOLEAN /\ torn \in BOOLEAN
    /\ \A i \in DOMAIN manifest : manifest[i] \in [id : 1 .. started, of : 1 .. MaxFound + 1]
    /\ abandoned \subseteq 1 .. started /\ shared \subseteq 1 .. started
    /\ \A i \in DOMAIN history :
            history[i].status \in {"running", "dry-run", "failed", "success"}

BuildInit ==
    /\ at = [p \in Procs |-> "idle"] /\ build = [p \in Procs |-> NoBuild]
    /\ started = 0 /\ exists = FALSE /\ cleans = 0
    /\ manifest = NoManifest
    /\ abandoned = {} /\ ended = {} /\ shared = {} /\ torn = FALSE

Goto(p, place) == at' = [at EXCEPT ![p] = place]

\* The process has open what the path names now: after a clean it writes to a
\* database no name leads to.
OnThisDatabase(p) == build[p].db = cleans

\* Between emptying the manifest that is there now and writing it.
Writing(p) == at[p] = "write" /\ build[p].file = cleans

-----------------------------------------------------------------------------

\* The directory is made, the database opened and migrated.
OpenDatabase(p) ==
    /\ at[p] = "idle" /\ started < MaxBuilds
    /\ exists' = TRUE
    /\ build' = [build EXCEPT ![p] = [NoBuild EXCEPT !.db = cleans]]
    /\ Goto(p, "open")
    /\ UNCHANGED <<started, cleans, manifest, abandoned, ended, shared, torn, history, statRows>>

\* The id is the clock's: another process may have started in the same tick.
BeginBuild(p) ==
    /\ at[p] = "open" /\ started < MaxBuilds
    /\ \E id \in {started + 1} \cup {build[q].id : q \in {r \in Procs : at[r] = "scan"}} :
        /\ build' = [build EXCEPT ![p].id = id]
        /\ shared' = IF id > started THEN shared ELSE shared \cup {id}
        /\ IF OnThisDatabase(p) THEN StartBuild(id) ELSE UNCHANGED history
    /\ started' = started + 1
    /\ Goto(p, "scan")
    /\ UNCHANGED <<exists, cleans, manifest, abandoned, ended, torn, statRows>>

\* Returns without a FinishBuild.
GiveUp(p) ==
    /\ Goto(p, "idle")
    /\ build' = [build EXCEPT ![p] = NoBuild]
    /\ abandoned' = abandoned \cup ({build[p].id} \ {0})

\* The scan fails, or finds no file, and the build is over; or it finds some.
\* Graph, imports, routes, engine and manifest are then the process's own: failures
\* to parse are warnings, and so are those to find the routes, which leave them out.
ScanAndPrepare(p) ==
    /\ at[p] = "scan"
    /\ \/ GiveUp(p)
       \/ \E n \in 1 .. MaxFound, routes \in 0 .. 1 :
            /\ build' = [build EXCEPT ![p].found = n, ![p].entries = n + routes]
            /\ Goto(p, "create") /\ UNCHANGED abandoned
    /\ UNCHANGED <<started, exists, cleans, manifest, ended, shared, torn, history, statRows>>

\* os.WriteFile empties the file first; without the directory, or if it cannot
\* be written, there is a warning.
CreateManifest(p) ==
    /\ at[p] = "create"
    /\ \/ /\ exists
          /\ manifest' = <<>>
          /\ torn' = \E q \in Procs \ {p} : Writing(q)
          /\ build' = [build EXCEPT ![p].file = cleans]
          /\ Goto(p, "write")
       \/ Goto(p, "schedule") /\ UNCHANGED <<manifest, torn, build>>
    /\ UNCHANGED <<started, exists, cleans, abandoned, ended, shared, history, statRows>>

\* What a process writes over the bytes that are there: n of the bytes of its manifest.
Over(m, id, of, n) ==
    [i \in 1 .. IF n > Len(m) THEN n ELSE Len(m) |-> IF i <= n THEN [id |-> id, of |-> of] ELSE m[i]]

\* The bytes are written from the start of the file: those of a longer manifest
\* that another process wrote in between stay behind them.  If the write fails there
\* is a warning, and only the first bytes, or none, are in the file.
WriteManifest(p) ==
    /\ at[p] = "write"
    /\ IF Writing(p)
       THEN \E n \in 0 .. build[p].entries :
            /\ manifest' = Over(manifest, build[p].id, build[p].entries, n)
            /\ torn' = (torn \/ n < build[p].entries \/ \E q \in Procs \ {p} : Writing(q))
       ELSE UNCHANGED <<manifest, torn>>
    /\ Goto(p, "schedule")
    /\ UNCHANGED <<build, started, exists, cleans, abandoned, ended, shared, history, statRows>>

\* The scheduler's five tasks do nothing and cannot fail.  Nobody looks whether
\* the row was written.
RunTasksAndRecord(p) ==
    /\ at[p] = "schedule"
    /\ \/ OnThisDatabase(p) /\ RecordStat(build[p].id, "files_scanned", build[p].found)
       \/ UNCHANGED statRows
    /\ Goto(p, "next")
    /\ UNCHANGED <<build, started, exists, cleans, manifest, abandoned, ended, shared, torn, history>>

\* Without a binary there is an error, whether next is to be skipped or not.
NextBuildResults(found, skip) ==
    IF ~found THEN {"failed"} ELSE IF skip THEN {"success"} ELSE {"failed", "success"}

\* With --dry-run next is not invoked.  Only a success has metrics.  Nobody looks
\* whether the row was written.
InvokeNextAndFinish(p) ==
    /\ at[p] = "next"
    /\ \E dry, found, skip \in BOOLEAN :
       \E status \in IF dry THEN {"dry-run"} ELSE NextBuildResults(found, skip) :
        LET scanned == IF status = "success" THEN build[p].found ELSE 0 IN
        /\ \/ /\ OnThisDatabase(p) /\ FinishBuild(build[p].id, status, scanned)
              /\ UNCHANGED abandoned
           \/ UNCHANGED history /\ abandoned' = abandoned \cup {build[p].id}
        /\ ended' = ended \cup {[id |-> build[p].id, status |-> status, scanned |-> scanned]}
    /\ Goto(p, "idle")
    /\ build' = [build EXCEPT ![p] = NoBuild]
    /\ UNCHANGED <<started, exists, cleans, manifest, shared, torn, statRows>>

-----------------------------------------------------------------------------

\* A process is killed.
Kill(p) ==
    /\ at[p] # "idle"
    /\ GiveUp(p)
    /\ torn' = (torn \/ Writing(p))
    /\ UNCHANGED <<started, exists, cleans, manifest, ended, shared, history, statRows>>

\* `clean` removes the directory, the database and the manifest in it.
Clean ==
    /\ exists /\ cleans < MaxCleans
    /\ exists' = FALSE
    /\ cleans' = cleans + 1
    /\ manifest' = NoManifest
    /\ torn' = FALSE
    /\ history' = <<>> /\ statRows' = <<>>
    /\ UNCHANGED <<at, build, started, abandoned, ended, shared>>

BuildNext ==
    /\ \/ \E p \in Procs :
            \/ OpenDatabase(p) \/ BeginBuild(p) \/ ScanAndPrepare(p)
            \/ CreateManifest(p) \/ WriteManifest(p) \/ RunTasksAndRecord(p)
            \/ InvokeNextAndFinish(p) \/ Kill(p)
       \/ Clean
    /\ UNCHANGED unusedTables

BuildSpec == DbInit /\ BuildInit /\ [][BuildNext]_<<dbVars, buildVars>>

-----------------------------------------------------------------------------
(* Properties                                                              *)

\* A row that was never finished, which makes the history unreadable, is that of
\* a build still under way on this database, or of one whose process was killed or
\* found nothing to build, or whose FinishBuild failed; a finished row says what
\* its build told it; and if the build succeeded and its statistics were written,
\* they agree with its row.  Only builds that drew the same id may have each
\* other's results.
RowsTellTheirBuilds ==
    \A i \in DOMAIN history :
        LET row == history[i] IN
        /\ ~row.finished =>
            \/ row.id \in abandoned
            \/ \E p \in Procs : build[p].id = row.id /\ OnThisDatabase(p)
        /\ row.finished =>
            [id |-> row.id, status |-> row.status, scanned |-> row.scanned] \in ended
        /\ row.finished /\ row.id \notin shared =>
            /\ row.id \notin abandoned
            /\ \A p \in Procs : build[p].id # row.id
            /\ row.status = "success" /\ GetStats(row.id) # NoRows =>
                    GetStats(row.id)["files_scanned"] = row.scanned

\* While nobody writes it, the manifest is all of what one build wrote, unless two
\* wrote it at once, or the last to empty it was killed before it had written or
\* could not write all of it.
ManifestWhole ==
    ~torn /\ (\A p \in Procs : ~Writing(p)) =>
        \A i \in DOMAIN manifest : manifest[i] = manifest[1] /\ Len(manifest) = manifest[1].of

BuildsAccounted == RowsTellTheirBuilds /\ ManifestWhole

=============================================================================
