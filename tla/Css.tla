-------------------------------- MODULE Css ---------------------------------
(***************************************************************************)
(* The CSS tracker (css.go): which style sheets import which, and which    *)
(* ones a change affects.  The tracker keeps what it read when a file was  *)
(* tracked; files are edited, created and removed meanwhile.               *)
(***************************************************************************)
EXTENDS Listing

CONSTANTS CssPaths,
          FileTypeOf,       \* the type that each path's extension stands for
          ModulePaths,      \* the paths that end in .module.css (.scss, .sass)
          Sheets,           \* contents: imports in their order and @tailwind
          NoSheet,          \* no such file, or it cannot be read
          MaxEdits          \* bound: edits

ASSUME CssAssumption ==
    /\ IsFiniteSet(CssPaths) /\ MaxEdits \in Nat
    /\ \A s \in Sheets : /\ s.tailwind \in BOOLEAN
                        /\ Len(s.imports) \in Nat /\ DOMAIN s.imports = 1 .. Len(s.imports)

VARIABLES
    sheets,     \* the files
    trackedCss, \* Tracker.files
    walk,       \* the files TrackDirectory has still to track
    edits,
    editedCss   \* history: files whose content was not tracked since its last edit

cssVars == <<sheets, trackedCss, walk, edits, editedCss>>

\* An import is written as a URL, as a package (~name), which stays as it is and is
\* no file's path, or as a relative path, which is joined to the directory of the
\* file.  Those of URLs are left out.
ExtractImports(sheet) ==
    LET kept == InOrder({n \in DOMAIN sheet.imports : sheet.imports[n].kind # "url"})
    IN  [n \in DOMAIN kept |-> sheet.imports[kept[n]].target]

Analyzed(p) ==
    [path |-> p, type |-> FileTypeOf[p], imports |-> ExtractImports(sheets[p]),
     tailwind |-> sheets[p].tailwind, module |-> p \in ModulePaths]

CssInit ==
    /\ sheets = [p \in CssPaths |-> NoSheet]
    /\ trackedCss = [p \in {} |-> p]
    /\ walk = {} /\ edits = 0 /\ editedCss = {}

\* The environment: a file is edited, created or removed.
EditSheet(p) ==
    /\ edits < MaxEdits
    /\ edits' = edits + 1
    /\ \E sheet \in (Sheets \cup {NoSheet}) \ {sheets[p]} :
        sheets' = [sheets EXCEPT ![p] = sheet]
    /\ editedCss' = editedCss \cup {p}
    /\ UNCHANGED <<trackedCss, walk>>

\* A file that cannot be read is an error and keeps its old entry.
Track(p) ==
    IF sheets[p] = NoSheet THEN UNCHANGED <<trackedCss, editedCss>>
    ELSE /\ trackedCss' = [q \in DOMAIN trackedCss \cup {p} |->
                            IF q = p THEN Analyzed(p) ELSE trackedCss[q]]
         /\ editedCss' = editedCss \ {p}

TrackFile(p) == walk = {} /\ Track(p) /\ UNCHANGED <<sheets, walk, edits>>

\* TrackDirectory tracks the files it finds one by one.
TrackDirectory ==
    /\ walk = {}
    /\ walk' = {p \in CssPaths : sheets[p] # NoSheet}
    /\ UNCHANGED <<sheets, trackedCss, edits, editedCss>>

TrackFound(p) == p \in walk /\ walk' = walk \ {p} /\ Track(p) /\ UNCHANGED <<sheets, edits>>

CssNext ==
    \/ TrackDirectory
    \/ \E p \in CssPaths : EditSheet(p) \/ TrackFile(p) \/ TrackFound(p)

Imported(p) ==
    IF p \in DOMAIN trackedCss
    THEN {trackedCss[p].imports[n] : n \in DOMAIN trackedCss[p].imports} ELSE {}

ListCss == {trackedCss[p] : p \in DOMAIN trackedCss}

CssDependents(path) == {f.path : f \in {g \in ListCss : path \in Imported(g.path)}}

\* Wrong on purpose: only what imports the file itself.
DirectlyAffected(path) == {path} \cup CssDependents(path)

\* The breadth-first search has seen everything after as many rounds as there are
\* tracked files.
CssAffected(path) ==
    LET rounds == Cardinality(DOMAIN trackedCss)
        Seen[n \in 0 .. rounds] ==
            IF n = 0 THEN {path}
            ELSE Seen[n - 1] \cup UNION {CssDependents(q) : q \in Seen[n - 1]}
    IN  Seen[rounds]

HasTailwind == \E f \in ListCss : f.tailwind
HasModules == \E f \in ListCss : f.module

CssStats ==
    [files |-> Cardinality(ListCss), tailwind |-> HasTailwind, modules |-> HasModules,
     scss |-> \E f \in ListCss : f.type \in {"scss", "sass"},
     types |-> [t \in {f.type : f \in ListCss} |-> Cardinality({f \in ListCss : f.type = t})]]

CssTypeOK ==
    /\ sheets \in [CssPaths -> Sheets \cup {NoSheet}]
    /\ DOMAIN trackedCss \subseteq CssPaths
    /\ \A p \in DOMAIN trackedCss :
        trackedCss[p].path = p /\ trackedCss[p].tailwind \in BOOLEAN
    /\ walk \subseteq CssPaths /\ edits \in 0 .. MaxEdits /\ editedCss \subseteq CssPaths

CssSpec == CssInit /\ [][CssNext]_cssVars

-----------------------------------------------------------------------------
(* Properties                                                              *)

\* The relative and package imports of a file on the disk.
ImportsOnDisk(p) ==
    IF sheets[p] = NoSheet THEN {}
    ELSE {i.target : i \in {j \in {sheets[p].imports[n] : n \in DOMAIN sheets[p].imports} :
                                j.kind # "url"}}

\* A change of path affects it and whatever imports an affected file: the files in
\* every set that has the path and is closed under importing.
AffectedOnDisk(path) ==
    {q \in CssPaths : \A s \in SUBSET CssPaths :
        (path \in s /\ \A x \in CssPaths : ImportsOnDisk(x) \cap s # {} => x \in s) => q \in s}

\* Once every file was tracked after its last edit, the tracker's answers are those
\* of the files: what a change affects, through cycles and chains of any length,
\* and the use of Tailwind.  An entry is out of date only for a file that was edited
\* or removed since.
CssExact ==
    /\ \A p \in DOMAIN trackedCss \ editedCss : trackedCss[p] = Analyzed(p)
    /\ editedCss = {} =>
        /\ \A p \in CssPaths : CssAffected(p) = AffectedOnDisk(p)
        /\ HasTailwind = \E p \in CssPaths : sheets[p] # NoSheet /\ sheets[p].tailwind
        /\ CssStats.files = Cardinality({p \in CssPaths : sheets[p] # NoSheet})

=============================================================================
