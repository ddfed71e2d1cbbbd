------------------------------- MODULE Routes -------------------------------
(***************************************************************************)
(* The route scanner (routes.go).  A source file is a record of its router *)
(* (the directory app or pages), the names of the directories below it and *)
(* its own name.  Names are numbers in the order in which ReadDir lists    *)
(* them; NameKind says what a name stands for.  Files come and go between  *)
(* two calls of os.Stat or os.ReadDir.                                     *)
(***************************************************************************)
EXTENDS Listing

CONSTANTS RouteNames,   \* numbers
          NameKind,     \* "dir", "dynamic" (a directory with brackets), "layout",
                        \* "page", "route", "middleware", "special" (error, loading,
                        \* not-found, template, metadata), "component" (any other
                        \* source file) or "none" (not .tsx, .ts, .jsx or .js)
          SiteFiles,    \* the files that may exist
          MaxSiteEdits  \* bound: edits

VARIABLES
    site,       \* the files that exist
    routeStep,  \* where GenerateManifest is
    router,     \* the router whose turn it is
    dirCalls,   \* the calls of scanDir: the directory, the layout to pass on and
                \* the entries still to be visited
    foundRoutes,    \* the routes so far
    routeList,  \* what Scan returned, in its order
    routeManifest,
    siteEdits,
    stayed, seen    \* history: the files that were there all the time since the last
                    \* Scan began until it ended, and those that were at some time

scanVars == <<routeStep, router, dirCalls, foundRoutes>>
routesVars == <<site, scanVars, routeList, routeManifest, siteEdits, stayed, seen>>

NoLayout == {}      \* a route's layout is at most one file
Routers == {"app", "pages"}
IsDirectory(n) == NameKind[n] \in {"dir", "dynamic"}
PathTo(f) == Append(f.dirs, f.name)
NoRoutes == [routes |-> {}, total |-> 0, app |-> FALSE, pages |-> FALSE]

ASSUME RoutesAssumption ==
    /\ RouteNames \subseteq Nat /\ MaxSiteEdits \in Nat /\ IsFiniteSet(SiteFiles)
    /\ SiteFiles \subseteq [router : Routers, dirs : Seq(RouteNames), name : RouteNames]
    /\ \A f \in SiteFiles : /\ ~IsDirectory(f.name)
                            /\ \A i \in DOMAIN f.dirs : IsDirectory(f.dirs[i])

RouteType(n) ==
    CASE NameKind[n] = "route" -> "api-route"
      [] NameKind[n] = "component" -> "page"
      [] OTHER -> NameKind[n]

\* parentPath is empty in every call: only pages and API routes have the path of
\* their directory, and the middleware that of the root.
RoutePath(f) ==
    CASE RouteType(f.name) \in {"page", "api-route"} -> <<"/", f.dirs>>
      [] NameKind[f.name] = "middleware"             -> <<"/", <<>>>>
      [] OTHER                                       -> <<"">>

\* Whether the path has brackets in it.
IsDynamic(f) ==
    RoutePath(f) = <<"/", f.dirs>> /\ \E i \in DOMAIN f.dirs : NameKind[f.dirs[i]] = "dynamic"

ParseFile(f, parentLayout) ==
    [file |-> f, type |-> RouteType(f.name), path |-> RoutePath(f),
     layout |-> parentLayout, dynamic |-> IsDynamic(f)]

\* What a directory lists, in the order of ReadDir.
EntryNames(r, dirs) ==
    LET n == Len(dirs) IN
    {PathTo(f)[n + 1] : f \in {g \in site :
        g.router = r /\ Len(PathTo(g)) > n /\ SubSeq(PathTo(g), 1, n) = dirs}}
ReadDirNames(r, dirs) == InOrder(EntryNames(r, dirs))

HasRouter(r) == \E f \in site : f.router = r

\* The children of each layout: the routes that name it, in the order of the scan.
ChildrenOf(f, found) ==
    LET order == InOrder({i \in DOMAIN found : found[i].layout = {f}})
    IN  [n \in DOMAIN order |-> found[order[n]].file]
WithChildren(found) ==
    [i \in DOMAIN found |-> [route |-> found[i],
        children |-> IF found[i].type = "layout" THEN ChildrenOf(found[i].file, found) ELSE <<>>]]

FilterByType(found, type) == SelectSeq(found, LAMBDA r : r.route.type = type)

\* Pages and API routes that share their path.
FindConflicts(found) ==
    LET served == {i \in DOMAIN found : found[i].route.type \in {"page", "api-route"}}
    IN  {found[i].route : i \in {j \in served :
            \E k \in served \ {j} : found[k].route.path = found[j].route.path}}

RoutesInit ==
    /\ site \in SUBSET SiteFiles
    /\ routeStep = "idle" /\ router = "app" /\ dirCalls = <<>> /\ foundRoutes = <<>>
    /\ routeList = <<>> /\ routeManifest = NoRoutes /\ siteEdits = 0
    /\ stayed = {} /\ seen = {}

-----------------------------------------------------------------------------

Scanning == routeStep \in {"stat", "read", "scan"}

\* The environment: a file is created or removed.
EditSite ==
    /\ siteEdits < MaxSiteEdits /\ siteEdits' = siteEdits + 1
    /\ \E f \in SiteFiles : site' = IF f \in site THEN site \ {f} ELSE site \cup {f}
    /\ stayed' = IF Scanning THEN stayed \cap site' ELSE stayed
    /\ seen' = IF Scanning THEN seen \cup site' ELSE seen
    /\ UNCHANGED <<scanVars, routeList, routeManifest>>

ScanRoutesBegin ==
    /\ routeStep \in {"idle", "done", "failed"}
    /\ routeStep' = "stat" /\ router' = "app"
    /\ dirCalls' = <<>> /\ foundRoutes' = <<>>
    /\ routeList' = <<>> /\ routeManifest' = NoRoutes
    /\ stayed' = site /\ seen' = site
    /\ UNCHANGED <<site, siteEdits>>

\* From app to pages, and from pages to the end of Scan.
NextRouter ==
    IF router = "app"
    THEN routeStep' = "stat" /\ router' = "pages" /\ UNCHANGED routeList
    ELSE routeStep' = "manifest" /\ router' = "app" /\ routeList' = WithChildren(foundRoutes)

StatRouter ==
    /\ routeStep = "stat"
    /\ IF HasRouter(router) THEN routeStep' = "read" /\ UNCHANGED <<router, routeList>>
       ELSE NextRouter
    /\ UNCHANGED <<site, dirCalls, foundRoutes, routeManifest, siteEdits, stayed, seen>>

\* Wrong on purpose: the layout is not passed on to the directories.
ScanDirAnew(calls, dirs, parentLayout) ==
    dirCalls' = Append(calls, [dirs |-> dirs, layout |-> NoLayout,
                               names |-> ReadDirNames(router, dirs)])

\* scanDir calls ReadDir first.
ScanDir(calls, dirs, parentLayout) ==
    dirCalls' = Append(calls, [dirs |-> dirs, layout |-> parentLayout,
                               names |-> ReadDirNames(router, dirs)])

ScanRouter ==
    /\ routeStep = "read"
    /\ routeStep' = "scan"
    /\ ScanDir(<<>>, <<>>, NoLayout)
    /\ UNCHANGED <<site, router, foundRoutes, routeList, routeManifest, siteEdits, stayed, seen>>

Top == dirCalls[Len(dirCalls)]
Entry == Head(Top.names)
AtEntry == routeStep = "scan" /\ dirCalls # <<>> /\ Top.names # <<>>

\* A file: if it is a layout it is passed on to what comes after it, files and
\* directories alike.
ScanFile ==
    /\ AtEntry /\ ~IsDirectory(Entry)
    /\ LET f == [router |-> router, dirs |-> Top.dirs, name |-> Entry] IN
       /\ foundRoutes' = IF NameKind[Entry] = "none" THEN foundRoutes
                         ELSE Append(foundRoutes, ParseFile(f, Top.layout))
       /\ dirCalls' = [dirCalls EXCEPT ![Len(dirCalls)] =
            [dirs |-> Top.dirs, names |-> Tail(Top.names),
             layout |-> IF NameKind[Entry] = "layout" THEN {f} ELSE Top.layout]]
    /\ UNCHANGED <<site, routeStep, router, routeList, routeManifest, siteEdits, stayed, seen>>

ScanSubdirectory ==
    /\ AtEntry /\ IsDirectory(Entry)
    /\ ScanDir([dirCalls EXCEPT ![Len(dirCalls)].names = Tail(@)],
               Append(Top.dirs, Entry), Top.layout)
    /\ UNCHANGED <<site, routeStep, router, foundRoutes, routeList, routeManifest, siteEdits,
                   stayed, seen>>

\* A directory that is gone, or cannot be read, ends all of it: Scan returns an error.
ReadDirFails ==
    /\ routeStep = "read" \/ (AtEntry /\ IsDirectory(Entry))
    /\ routeStep' = "failed"
    /\ UNCHANGED <<site, router, dirCalls, foundRoutes, routeList, routeManifest, siteEdits,
                   stayed, seen>>

ScanDirReturns ==
    /\ routeStep = "scan" /\ dirCalls # <<>> /\ Top.names = <<>>
    /\ dirCalls' = SubSeq(dirCalls, 1, Len(dirCalls) - 1)
    /\ IF Len(dirCalls) = 1 THEN NextRouter ELSE UNCHANGED <<routeStep, router, routeList>>
    /\ UNCHANGED <<site, foundRoutes, routeManifest, siteEdits, stayed, seen>>

\* GenerateManifest looks for both routers again.  Its routes are sorted by their
\* paths, those of one path in any order.
StatForManifest ==
    /\ routeStep = "manifest"
    /\ IF router = "app"
       THEN /\ routeManifest' = [routes |-> {routeList[i] : i \in DOMAIN routeList},
                                 total |-> Len(routeList), app |-> HasRouter("app"), pages |-> FALSE]
            /\ router' = "pages" /\ UNCHANGED routeStep
       ELSE /\ routeManifest' = [routeManifest EXCEPT !.pages = HasRouter("pages")]
            /\ routeStep' = "done" /\ UNCHANGED router
    /\ UNCHANGED <<site, dirCalls, foundRoutes, routeList, siteEdits, stayed, seen>>

GenerateManifest ==
    \/ ScanRoutesBegin \/ StatRouter \/ ScanRouter \/ ScanFile \/ ScanSubdirectory
    \/ ReadDirFails \/ ScanDirReturns \/ StatForManifest

RoutesNext == EditSite \/ GenerateManifest

RoutesSpec == RoutesInit /\ [][RoutesNext]_routesVars

RoutesTypeOK ==
    /\ siteEdits \in 0 .. MaxSiteEdits
    /\ routeStep \in {"idle", "stat", "read", "scan", "manifest", "done", "failed"}
    /\ router \in Routers
    /\ site \subseteq SiteFiles /\ stayed \subseteq seen /\ seen \subseteq SiteFiles
    /\ \A k \in DOMAIN dirCalls : dirCalls[k].layout \subseteq seen
    /\ \A i \in DOMAIN foundRoutes :
        foundRoutes[i].file \in seen /\ foundRoutes[i].layout \subseteq seen

-----------------------------------------------------------------------------
(* Properties                                                              *)

\* Of these files, the layouts that come before f on the way from its router's
\* directory to it.
LayoutsBefore(f, files) ==
    {l \in files :
        /\ NameKind[l.name] = "layout" /\ l.router = f.router
        /\ Len(l.dirs) <= Len(f.dirs) /\ SubSeq(f.dirs, 1, Len(l.dirs)) = l.dirs
        /\ l.name < PathTo(f)[Len(l.dirs) + 1]}

NotAfter(l, last) ==
    Len(l.dirs) < Len(last.dirs) \/ (l.dirs = last.dirs /\ l.name <= last.name)

\* Its layout is the last of those that stayed, or one that came or went during the
\* scan and is after that.
LayoutIsLast(r) ==
    LET always == LayoutsBefore(r.file, stayed)
        sometimes == LayoutsBefore(r.file, seen)
    IN  IF r.layout = NoLayout THEN always = {}
        ELSE \E last \in sometimes : r.layout = {last} /\ \A l \in always : NotAfter(l, last)

\* A scan during which files come and go finds every source file once that stayed,
\* and no other than was there at some time; its layout is the last one on the way
\* to it that is listed before it (a directory or a file whose name sorts before
\* "layout" does not get the layout beside it); each layout has as children exactly
\* the routes that name it; and a page and an API route that stayed in directories
\* of the same names, in one router or two, are both reported as conflicts.
RoutesExact ==
    routeStep = "done" =>
        /\ {f \in stayed : NameKind[f.name] # "none"}
                \subseteq {routeList[i].route.file : i \in DOMAIN routeList}
        /\ \A i \in DOMAIN routeList :
            LET r == routeList[i].route
                kids == routeList[i].children
            IN  /\ r.file \in seen /\ NameKind[r.file.name] # "none"
                /\ \A j \in DOMAIN routeList : routeList[j].route.file = r.file => j = i
                /\ LayoutIsLast(r)
                /\ {kids[n] : n \in DOMAIN kids}
                        = {q.route.file : q \in {routeList[j] : j \in {k \in DOMAIN routeList :
                                                    routeList[k].route.layout = {r.file}}}}
                /\ \A m, n \in DOMAIN kids : kids[m] = kids[n] => m = n
        /\ \A f, g \in stayed :
            f.dirs = g.dirs /\ RouteType(f.name) = "page" /\ RouteType(g.name) = "api-route" =>
                {f, g} \subseteq {r.file : r \in FindConflicts(routeList)}

=============================================================================
