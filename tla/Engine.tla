------------------------------- MODULE Engine -------------------------------
(***************************************************************************)
(* The incremental engine (engine.go) as operators on its base hashes.     *)
(* Base hashes and scans are functions from paths to hashes, NoHash where  *)
(* the map has no entry.                                                   *)
(***************************************************************************)

CONSTANT NoHash

EntriesOf(m) == {p \in DOMAIN m : m[p] # NoHash}

NoEntries(Paths) == [p \in Paths |-> NoHash]

ComputeChanges(base, current) ==
    [created  |-> EntriesOf(current) \ EntriesOf(base),
     modified |-> {p \in EntriesOf(current) \cap EntriesOf(base) :
                        base[p] # current[p]},
     deleted  |-> EntriesOf(base) \ EntriesOf(current)]

\* The engine's own graph never gets a node: what is affected is what changed.
AffectedFiles(changes) == changes.created \cup changes.modified \cup changes.deleted

\* Wrong on purpose: an entry that is there is not overwritten.
SnapshotKeepsOld(base, current) ==
    [p \in DOMAIN base |-> IF base[p] = NoHash THEN current[p] ELSE base[p]]

\* Entries are added or overwritten, never removed.
Snapshot(base, current) ==
    [p \in DOMAIN base |-> IF current[p] # NoHash THEN current[p] ELSE base[p]]

=============================================================================
