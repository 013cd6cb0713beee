--------------------------- MODULE SnapshotContent ---------------------------
(***************************************************************************)
(* The content of a snapshot (internal/snapshot/types.go) as revisions: the  *)
(* flags of the project, its segments, and the flag configs of the           *)
(* environment.  Two snapshots evaluate alike when they hold the same        *)
(* revisions; key, salt and rule data are below this abstraction.            *)
(***************************************************************************)
EXTENDS Naturals

Contents == [flags : Nat, segments : Nat, config : Nat]

NoContent == [flags |-> 0, segments |-> 0, config |-> 0]

ContentOf(snap) ==
  [flags |-> snap.flags, segments |-> snap.segments, config |-> snap.config]

\* Content a is at least as recent as content b, in every part.
AtLeast(a, b) ==
  /\ a.flags >= b.flags
  /\ a.segments >= b.segments
  /\ a.config >= b.config
=============================================================================
