----------------------------- MODULE GraphReads -----------------------------
(***************************************************************************)
(* The lock of a Graph (graph.go, export.go), for goroutines that read and *)
(* change the same graphs.  Most readers take the read lock once.  Stats   *)
(* and the exports call another reading method while they hold it, and     *)
(* Diff takes the locks of two graphs.  What they read is a version: every *)
(* AddNode, AddEdge and Clear makes a new one.  The lock is Go's RWMutex:  *)
(* a writer that waits lets no new reader in, and when it leaves, all      *)
(* readers that wait go first.                                             *)
(***************************************************************************)
EXTENDS Naturals, FiniteSets

CONSTANTS Goroutines,
          GraphNames,
          MaxLockCalls,     \* bound: calls
          NoWriter, NoNested

ASSUME GraphReadsAssumption ==
    NoWriter \notin Goroutines /\ NoNested \notin GraphNames /\ MaxLockCalls \in Nat

VARIABLES
    thread,     \* where each goroutine is, and the versions it has read
    pending,    \* the writer that waits for a graph's readers, or writes
    version,
    halfDone,   \* graphs whose edges have an edge that `reverse` has not yet
    lockCalls

readVars == <<thread, pending, version, halfDone, lockCalls>>

Idle == [at |-> "idle"]

\* A thread holds a first read lock on `outer`, and when it is "inner" a second one
\* on `inner`.
Holding == {"outer", "blockedInner", "inner", "after"}
HasRead(t, g) ==
    \/ thread[t].at \in Holding /\ thread[t].outer = g
    \/ thread[t].at = "inner" /\ thread[t].inner = g

GraphReadsInit ==
    /\ thread = [t \in Goroutines |-> Idle]
    /\ pending = [g \in GraphNames |-> NoWriter]
    /\ version = [g \in GraphNames |-> 0]
    /\ halfDone = {} /\ lockCalls = 0

ReaderState ==
    [at : Holding \cup {"blockedOuter"}, outer : GraphNames,
     inner : GraphNames \cup {NoNested}, saw : Nat, sawInner : Nat]
WriterState == [at : {"queued", "waiting", "writing"}, graph : GraphNames]

GraphReadsTypeOK ==
    /\ thread \in [Goroutines -> ReaderState \cup WriterState \cup {Idle}]
    /\ pending \in [GraphNames -> Goroutines \cup {NoWriter}]
    /\ version \in [GraphNames -> Nat]
    /\ halfDone \subseteq GraphNames /\ lockCalls \in 0 .. MaxLockCalls

NextLockCall(t) ==
    /\ thread[t] = Idle /\ lockCalls < MaxLockCalls
    /\ lockCalls' = lockCalls + 1

Becomes(t, state) == thread' = [thread EXCEPT ![t] = state]

\* A call takes its first read lock.  `nested` is where it takes a second one: in
\* the same graph (Stats, ExportDOT, ExportJSON, ExportMermaid), in another or the
\* same (Diff), or nowhere.
ReadBegin(t, g, nested) ==
    /\ NextLockCall(t)
    /\ Becomes(t, [at |-> IF pending[g] = NoWriter THEN "outer" ELSE "blockedOuter",
                   outer |-> g, inner |-> nested, saw |-> version[g], sawInner |-> 0])
    /\ UNCHANGED <<pending, version, halfDone>>

\* EdgeCount or Nodes is called, or Diff's second lock taken.
ReadNested(t) ==
    /\ thread[t].at = "outer" /\ thread[t].inner \in GraphNames
    /\ LET g == thread[t].inner IN
       Becomes(t, [thread[t] EXCEPT
            !.at = IF pending[g] = NoWriter THEN "inner" ELSE "blockedInner",
            !.sawInner = version[g]])
    /\ UNCHANGED <<pending, version, halfDone, lockCalls>>

ReadNestedEnds(t) ==
    /\ thread[t].at = "inner"
    /\ Becomes(t, [thread[t] EXCEPT !.at = "after"])
    /\ UNCHANGED <<pending, version, halfDone, lockCalls>>

ReadEnds(t) ==
    /\ \/ thread[t].at = "after"
       \/ thread[t].at = "outer" /\ thread[t].inner = NoNested
    /\ Becomes(t, Idle)
    /\ UNCHANGED <<pending, version, halfDone, lockCalls>>

\* Wrong on purpose: the graph is changed under its read lock.
WriteUnderReadLock(t, g) ==
    /\ NextLockCall(t)
    /\ pending' = [pending EXCEPT ![g] = t]
    /\ Becomes(t, [at |-> "writing", graph |-> g])
    /\ UNCHANGED <<version, halfDone>>

\* Lock: one writer at a time announces itself, the others queue ...
WriteBegin(t, g) ==
    /\ NextLockCall(t)
    /\ Becomes(t, [at |-> IF pending[g] = NoWriter THEN "waiting" ELSE "queued",
                   graph |-> g])
    /\ pending' = [pending EXCEPT ![g] = IF @ = NoWriter THEN t ELSE @]
    /\ UNCHANGED <<version, halfDone>>

WriteAnnounced(t) ==
    /\ thread[t].at = "queued" /\ pending[thread[t].graph] = NoWriter
    /\ pending' = [pending EXCEPT ![thread[t].graph] = t]
    /\ Becomes(t, [thread[t] EXCEPT !.at = "waiting"])
    /\ UNCHANGED <<version, halfDone, lockCalls>>

\* ... and it goes on when the last reader has left.
WriteLocked(t) ==
    /\ thread[t].at = "waiting"
    /\ \A u \in Goroutines : ~HasRead(u, thread[t].graph)
    /\ Becomes(t, [thread[t] EXCEPT !.at = "writing"])
    /\ UNCHANGED <<pending, version, halfDone, lockCalls>>

\* AddEdge appends to `edges` and then to `reverse`.
AddEdgeHalf(t) ==
    /\ thread[t].at = "writing"
    /\ thread[t].graph \notin halfDone
    /\ halfDone' = halfDone \cup {thread[t].graph}
    /\ UNCHANGED <<thread, pending, version, lockCalls>>

\* The change is complete.  Unlock lets in the readers that wait.
WriteEnds(t) ==
    /\ thread[t].at = "writing"
    /\ LET g == thread[t].graph IN
        /\ version' = [version EXCEPT ![g] = @ + 1]
        /\ halfDone' = halfDone \ {g}
        /\ pending' = [pending EXCEPT ![g] = NoWriter]
        /\ thread' = [u \in Goroutines |->
            IF u = t THEN Idle
            ELSE IF thread[u].at = "blockedOuter" /\ thread[u].outer = g
                 THEN [thread[u] EXCEPT !.at = "outer", !.saw = version[g] + 1]
            ELSE IF thread[u].at = "blockedInner" /\ thread[u].inner = g
                 THEN [thread[u] EXCEPT !.at = "inner", !.sawInner = version[g] + 1]
            ELSE thread[u]]
    /\ UNCHANGED lockCalls

GraphReadsNext ==
    \E t \in Goroutines :
        \/ \E g \in GraphNames :
            \/ WriteBegin(t, g)
            \/ \E nested \in GraphNames \cup {NoNested} : ReadBegin(t, g, nested)
        \/ ReadNested(t) \/ ReadNestedEnds(t) \/ ReadEnds(t)
        \/ WriteAnnounced(t) \/ WriteLocked(t) \/ AddEdgeHalf(t) \/ WriteEnds(t)

GraphReadsSpec == GraphReadsInit /\ [][GraphReadsNext]_readVars

-----------------------------------------------------------------------------
(* Properties                                                              *)

\* Everything a call reads is one version of the graph, no half of a change: both
\* counts of Stats, the nodes and the edges of an export, both graphs of a Diff
\* from the moment it has their locks.
ReadsWhole ==
    \A t \in Goroutines :
        /\ thread[t].at \in Holding =>
            thread[t].saw = version[thread[t].outer] /\ thread[t].outer \notin halfDone
        /\ thread[t].at = "inner" =>
            thread[t].sawInner = version[thread[t].inner] /\ thread[t].inner \notin halfDone

\* Whom a goroutine that cannot go on is waiting for.
WaitsFor(t) ==
    CASE thread[t].at = "blockedOuter" -> {pending[thread[t].outer]}
      [] thread[t].at = "blockedInner" -> {pending[thread[t].inner]}
      [] thread[t].at = "queued"       -> {pending[thread[t].graph]} \ {NoWriter}
      [] thread[t].at = "waiting"      -> {u \in Goroutines : HasRead(u, thread[t].graph)}
      [] OTHER                         -> {}

\* Goroutines wait for each other for ever only if one of them waits for a second
\* read lock while it holds a first one, and another is a writer: without a writer,
\* or with calls that lock once, every call ends.
StuckOnlyNested ==
    \A s \in (SUBSET Goroutines) \ {{}} :
        (\A t \in s : WaitsFor(t) \cap s # {}) =>
            /\ \E t \in s : thread[t].at = "blockedInner"
            /\ \E t \in s : thread[t].at = "waiting"

GraphReadsSound == ReadsWhole /\ StuckOnlyNested

=============================================================================
