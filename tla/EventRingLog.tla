---------------------------- MODULE EventRingLog ----------------------------
(***************************************************************************)
(* One ring and the log of everything ever appended to it.  The log is a    *)
(* history variable: the reference against which Since is judged.           *)
(*                                                                         *)
(* Versions are given to Append in any order and may repeat: concurrent     *)
(* handlers increment the version and call Publish in separate steps        *)
(* (api/server.go, publishFlagChange), and two projects that use the same   *)
(* environment key share a ring (stream/hub.go keys rings by envKey).       *)
(***************************************************************************)
EXTENDS EventRing

CONSTANT MaxAppends         \* bound on the length of the log
CONSTANT MaxVersion         \* bound on the versions that are appended

ASSUME LogAssumption == MaxAppends \in Nat /\ MaxVersion \in Nat

VARIABLES ring, log

vars == <<ring, log>>

Versions == 1 .. MaxVersion
Messages == [version : Versions]

Init ==
  /\ ring = NewEventRing
  /\ log = <<>>

Publish(msg) ==
  /\ Len(log) < MaxAppends
  /\ ring' = RingAppend(ring, msg)
  /\ log' = Append(log, msg)

Next == \E msg \in Messages : Publish(msg)

Spec == Init /\ [][Next]_vars

-----------------------------------------------------------------------------
\* TypeOK: head and count stay within the capacity however often Append
\* overwrites, so every slot that Append and Since index exists.
TypeOK ==
  /\ log \in Seq(Messages)
  /\ ring \in [buf    : [0 .. RingCap - 1 -> [version : 0 .. MaxVersion]],
               head   : 0 .. RingCap - 1,
               count  : 0 .. RingCap,
               minVer : 0 .. MaxVersion,
               maxVer : 0 .. MaxVersion]

\* How many entries of the log are no longer in the ring.
Evicted == Len(log) - ring.count

\* Window: the ring holds exactly the last entries of the log, and Since
\* walks them in the order in which they were published (ring.go, the slot
\* arithmetic of Append and of the loop in Since).
Window ==
  /\ ring.count = IF Len(log) < RingCap THEN Len(log) ELSE RingCap
  /\ \A i \in 1 .. ring.count : Walk(ring)[i] = log[Evicted + i]

\* Messages were published in version order.
Ordered == \A i, j \in 1 .. Len(log) : i < j => log[i].version < log[j].version

\* NothingMissed: when Since accepts a version, no message that was evicted
\* from the ring is newer than that version, so a client that resumes from it
\* misses nothing (the guard version < minVer-1 of ring.go).  It needs
\* messages in version order.
NothingMissed ==
  Ordered => \A v \in 0 .. MaxVersion :
               Since(ring, v).ok =>
                 \A i \in 1 .. Evicted : log[i].version <= v

\* ReplayExact: for messages in version order, an accepted Since returns
\* exactly the messages of the whole log that are newer, which are its end, in
\* the order in which they were published.
ReplayExact ==
  Ordered => \A v \in 0 .. MaxVersion :
               Since(ring, v).ok =>
                 \E j \in 0 .. Len(log) :
                   /\ \A i \in 1 .. Len(log) : log[i].version > v <=> i > j
                   /\ Since(ring, v).msgs = SubSeq(log, j + 1, Len(log))

\* Versions without gaps, as one handler at a time produces them.
GapFree == \A i \in 1 .. Len(log) - 1 : log[i + 1].version = log[i].version + 1

\* RefusedIffEvicted: for gap-free versions Since refuses a version exactly
\* when its successor was published before the oldest retained message, the
\* boundary that TestRing_ReplayWindow probes at one point.
RefusedIffEvicted ==
  (GapFree /\ log # <<>>) =>
    \A v \in 0 .. MaxVersion :
      Since(ring, v).ok <=>
        \/ v >= log[Len(log)].version
        \/ \E i \in Evicted + 1 .. Len(log) : log[i].version = v + 1
=============================================================================
