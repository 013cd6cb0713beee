--------------------------- MODULE SnapshotDelta ---------------------------
(***************************************************************************)
(* Deltas between snapshots (internal/snapshot/delta.go) and what the Go    *)
(* client makes of put and patch events (sdk/go/pennant/client.go).         *)
(*                                                                         *)
(* Snapshots follow each other, and each is sent to a client that has the   *)
(* one before, as a patch or as a whole.  Whether a delta is above 30% of   *)
(* the snapshot depends on sizes in bytes, and is a choice here.  An item   *)
(* is the JSON of a flag or of a segment.                                   *)
(***************************************************************************)
EXTENDS Naturals

CONSTANTS
  ItemKeys,   \* keys of flags and of segments
  Items,      \* contents of a flag or of a segment
  NoItem,     \* the key is not in the map
  NoSnap,     \* nil
  MaxVersion  \* bound on the version

ASSUME DeltaAssumption ==
  /\ NoItem \notin Items
  /\ MaxVersion \in Nat
  /\ NoSnap \notin [version : Nat, flags : [ItemKeys -> Items \cup {NoItem}],
                    segments : [ItemKeys -> Items \cup {NoItem}], publishedAt : Nat,
                    checksum : [ItemKeys -> Items \cup {NoItem}]
                                 \X [ItemKeys -> Items \cup {NoItem}]]

VARIABLES
  published,   \* the snapshot published last
  current      \* Client.snap

deltaVars == <<published, current>>

ItemMaps == [ItemKeys -> Items \cup {NoItem}]

\* The checksum is over the content.
Snapshot(version, flags, segments) ==
  [version |-> version, flags |-> flags, segments |-> segments, publishedAt |-> version,
   checksum |-> <<flags, segments>>]

-----------------------------------------------------------------------------
\* Mutant: an item that was there before is not compared.
Upserted_NewOnly(from, to) ==
  {k \in ItemKeys : to[k] # NoItem /\ from[k] = NoItem}

\* Keys that are new or whose JSON differs.
Upserted(from, to) ==
  {k \in ItemKeys : to[k] # NoItem /\ (from[k] = NoItem \/ from[k] # to[k])}

Deleted(from, to) == {k \in ItemKeys : from[k] # NoItem /\ to[k] = NoItem}

ComputeDelta(from, to) ==
  [toVersion        |-> to.version,
   checksum         |-> to.checksum,
   upsertedFlags    |-> [k \in Upserted(from.flags, to.flags) |-> to.flags[k]],
   deletedFlags     |-> Deleted(from.flags, to.flags),
   upsertedSegments |-> [k \in Upserted(from.segments, to.segments) |-> to.segments[k]],
   deletedSegments  |-> Deleted(from.segments, to.segments)]

\* Copy, then upsert, then delete.
Patched(base, upserts, deletes) ==
  [k \in ItemKeys |-> CASE k \in deletes                          -> NoItem
                        [] k \notin deletes /\ k \in DOMAIN upserts -> upserts[k]
                        [] OTHER                                  -> base[k]]

\* The time of publication stays that of the base.
ApplyDelta(base, delta) ==
  [version     |-> delta.toVersion,
   flags       |-> Patched(base.flags, delta.upsertedFlags, delta.deletedFlags),
   segments    |-> Patched(base.segments, delta.upsertedSegments, delta.deletedSegments),
   publishedAt |-> base.publishedAt,
   checksum    |-> delta.checksum]

-----------------------------------------------------------------------------
DeltaInit ==
  /\ \E fs, ss \in ItemMaps : published = Snapshot(0, fs, ss)
  /\ current = NoSnap

\* handleEvent: "put".
HandlePut ==
  /\ current = NoSnap
  /\ current' = published
  /\ UNCHANGED published

NextSnapshot(fs, ss) == Snapshot(published.version + 1, fs, ss)

PublishWhole(fs, ss) ==
  /\ published.version < MaxVersion
  /\ published' = NextSnapshot(fs, ss)
  /\ current' = NextSnapshot(fs, ss)

\* handleEvent: "patch", which is ignored by a client without a snapshot.
PublishPatch(fs, ss) ==
  /\ published.version < MaxVersion
  /\ published' = NextSnapshot(fs, ss)
  /\ current' = IF current = NoSnap THEN NoSnap
                ELSE ApplyDelta(current, ComputeDelta(published, NextSnapshot(fs, ss)))

DeltaNext ==
  \/ HandlePut
  \/ \E fs, ss \in ItemMaps : PublishWhole(fs, ss) \/ PublishPatch(fs, ss)

DeltaSpec == DeltaInit /\ [][DeltaNext]_deltaVars

-----------------------------------------------------------------------------
\* Type invariant of the two snapshots.
DeltaTypeOK ==
  LET Snapshots == [version : Nat, flags : ItemMaps, segments : ItemMaps,
                    publishedAt : Nat, checksum : ItemMaps \X ItemMaps]
  IN  published \in Snapshots /\ current \in Snapshots \cup {NoSnap}

\* A client that follows a series of patches and snapshots has the content, the
\* version and the checksum of the last one, whatever was added, changed,
\* deleted or added again on the way: a delta loses nothing, and the checksum
\* that the client takes from it is that of what it then has
\* (internal/snapshot/delta.go:70-73).
PatchesFollow ==
  current # NoSnap =>
    /\ current.flags = published.flags /\ current.segments = published.segments
    /\ current.version = published.version
    /\ current.checksum = <<current.flags, current.segments>>
=============================================================================
