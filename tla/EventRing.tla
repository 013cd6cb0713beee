------------------------------ MODULE EventRing ------------------------------
(***************************************************************************)
(* The replay buffer of an environment: internal/stream/ring.go.           *)
(*                                                                         *)
(* A ring is a record with the fields of the Go struct; slots are numbered  *)
(* from 0, as in the code.  A message is any record with a field "version": *)
(* the ring never looks at the rest of it.  Every method runs under the     *)
(* ring's mutex, so each one is an operator: RingAppend maps a ring to a    *)
(* ring, Since reads one.                                                   *)
(***************************************************************************)
EXTENDS Integers, Sequences

CONSTANT RingCap            \* the capacity given to NewEventRing (256 in hub.go)

ASSUME RingCapAssumption == RingCap \in Nat \ {0}

\* The zero Message that fills the slots of a new ring.
EmptySlot == [version |-> 0]

NewEventRing ==
  [buf    |-> [i \in 0 .. RingCap - 1 |-> EmptySlot],
   head   |-> 0,
   count  |-> 0,
   minVer |-> 0,
   maxVer |-> 0]

-----------------------------------------------------------------------------
\* Mutant: minVer is taken from the entry just written.
OldestVersion_Newest(r, buf, head, count, msg) ==
  IF count = RingCap THEN msg.version
  ELSE IF count = 1 THEN msg.version
  ELSE r.minVer

\* Mutant: minVer is not moved when the ring overwrites.
OldestVersion_Stuck(r, buf, head, count, msg) ==
  IF count = 1 THEN msg.version ELSE r.minVer

\* The version that becomes minVer: that of the OLDEST entry (the new head of
\* a full ring).  It is the smallest version of the ring only when messages
\* arrive in version order.
OldestVersion(r, buf, head, count, msg) ==
  IF count = RingCap THEN buf[head].version
  ELSE IF count = 1 THEN msg.version
  ELSE r.minVer

\* Mutant: count keeps growing once the ring is full.
NextCount_Unbounded(r) == r.count + 1

NextCount(r) == IF r.count < RingCap THEN r.count + 1 ELSE r.count

\* Append overwrites the slot at head.
RingAppend(r, msg) ==
  LET buf   == [r.buf EXCEPT ![r.head] = msg]
      head  == (r.head + 1) % RingCap
      count == NextCount(r)
  IN  [buf    |-> buf,
       head   |-> head,
       count  |-> count,
       minVer |-> OldestVersion(r, buf, head, count, msg),
       maxVer |-> IF msg.version > r.maxVer THEN msg.version ELSE r.maxVer]

-----------------------------------------------------------------------------
\* Mutant: the walk starts one slot late.
Start_OffByOne(r) == (r.head - r.count + 1 + RingCap) % RingCap

Start(r) == (r.head - r.count + RingCap) % RingCap

\* The entries from oldest to newest, as the loop of Since visits them.
Walk(r) == [i \in 1 .. r.count |-> r.buf[(Start(r) + i - 1) % RingCap]]

\* out, the messages of q that are newer than version, in the order of q.
NewerThan(q, version) ==
  LET out[i \in 0 .. Len(q)] ==
        IF i = 0 THEN <<>>
        ELSE IF q[i].version > version THEN Append(out[i - 1], q[i]) ELSE out[i - 1]
  IN  out[Len(q)]

\* Since(version): ok = FALSE asks the caller for a full snapshot.
Since(r, version) ==
  IF r.count = 0 THEN [ok |-> TRUE, msgs |-> <<>>]
  ELSE IF version < r.minVer - 1 THEN [ok |-> FALSE, msgs |-> <<>>]
  ELSE IF version >= r.maxVer THEN [ok |-> TRUE, msgs |-> <<>>]
  ELSE [ok |-> TRUE, msgs |-> NewerThan(Walk(r), version)]
=============================================================================
