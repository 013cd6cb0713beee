--------------------------- MODULE EventRingProofs ---------------------------
(***************************************************************************)
(* Proofs about the replay ring, for every capacity and every bound.        *)
(*                                                                         *)
(* Window is not inductive as it stands: Walk goes through two remainders,  *)
(* and nothing in it ties minVer and maxVer to the log.  RingInv says where *)
(* the i-th newest message is with at most one wrap (SlotOf) and adds what   *)
(* the two version fields stand for.                                        *)
(***************************************************************************)
EXTENDS EventRingLog, EventRingSlots, UpToInduction, SequenceTheorems

CountInv == ring.count = IF Len(log) < RingCap THEN Len(log) ELSE RingCap

SlotInv ==
  \A i \in 1 .. ring.count : ring.buf[SlotOf(ring.head, i)] = log[Len(log) + 1 - i]

MinInv == ring.count > 0 => ring.minVer = log[Evicted + 1].version

MaxInv == \A i \in 1 .. Len(log) : log[i].version <= ring.maxVer

RingInv == TypeOK /\ CountInv /\ SlotInv /\ MinInv /\ MaxInv

-----------------------------------------------------------------------------
\* Every entry of the log has a version.
LEMMA LogVersion ==
  ASSUME log \in Seq(Messages), NEW i \in 1 .. Len(log)
  PROVE  log[i].version \in 1 .. MaxVersion
<1>1. log[i] \in Messages
  OBVIOUS
<1> QED BY <1>1 DEF Messages, Versions

-----------------------------------------------------------------------------
LEMMA InitRingInv == Init => RingInv
<1> SUFFICES ASSUME Init PROVE RingInv
  OBVIOUS
<1> USE RingCapAssumption, LogAssumption DEF Init, NewEventRing, EmptySlot
<1>1. TypeOK
  BY DEF TypeOK, Messages, Versions
<1>2. CountInv /\ SlotInv /\ MinInv /\ MaxInv
  BY DEF CountInv, SlotInv, MinInv, MaxInv
<1> QED BY <1>1, <1>2 DEF RingInv

LEMMA NextRingInv == RingInv /\ [Next]_vars => RingInv'
<1> SUFFICES ASSUME RingInv, [Next]_vars PROVE RingInv'
  OBVIOUS
<1> USE RingCapAssumption, LogAssumption
<1>1. CASE UNCHANGED vars
  BY <1>1 DEF RingInv, TypeOK, CountInv, SlotInv, MinInv, MaxInv, Evicted, vars
<1>2. ASSUME NEW msg \in Messages, Publish(msg) PROVE RingInv'
  <2> DEFINE head2 == (ring.head + 1) % RingCap
             buf2  == [ring.buf EXCEPT ![ring.head] = msg]
             cnt2  == NextCount(ring)
  <2>1. /\ ring.head \in 0 .. RingCap - 1
        /\ ring.count \in 0 .. RingCap
        /\ ring.buf \in [0 .. RingCap - 1 -> [version : 0 .. MaxVersion]]
        /\ ring.minVer \in 0 .. MaxVersion
        /\ ring.maxVer \in 0 .. MaxVersion
        /\ log \in Seq(Messages)
        /\ Len(log) \in Nat
    BY DEF RingInv, TypeOK
  <2>2. /\ ring'.head = head2
        /\ ring'.buf = buf2
        /\ ring'.count = cnt2
        /\ ring'.minVer = OldestVersion(ring, buf2, head2, cnt2, msg)
        /\ ring'.maxVer = IF msg.version > ring.maxVer THEN msg.version ELSE ring.maxVer
        /\ log' = Append(log, msg)
    BY <1>2 DEF Publish, RingAppend
  <2>3. /\ head2 \in 0 .. RingCap - 1
        /\ head2 = (ring.head + 1) % RingCap
    BY <2>1, SMTT(30)
  <2>4. /\ cnt2 \in 1 .. RingCap
        /\ cnt2 = IF ring.count < RingCap THEN ring.count + 1 ELSE ring.count
    BY <2>1, SMTT(30) DEF NextCount
  <2>5. /\ msg.version \in 1 .. MaxVersion
        /\ msg \in [version : 0 .. MaxVersion]
    BY DEF Messages, Versions
  <2>6. buf2 \in [0 .. RingCap - 1 -> [version : 0 .. MaxVersion]]
    BY <2>1, <2>5
  <2>7. /\ Len(log') = Len(log) + 1
        /\ log'[Len(log) + 1] = msg
        /\ \A i \in 1 .. Len(log) : log'[i] = log[i]
        /\ log' \in Seq(Messages)
    BY <2>1, <2>2
  <2> HIDE DEF head2, buf2, cnt2
  <2>8. CountInv'
    BY <2>1, <2>2, <2>4, <2>7 DEF RingInv, CountInv
  <2>9. SlotInv'
    <3> SUFFICES ASSUME NEW i \in 1 .. cnt2
                 PROVE  buf2[SlotOf(head2, i)] = log'[Len(log') + 1 - i]
      BY <2>2 DEF SlotInv
    <3>0. i \in 1 .. RingCap
      BY <2>4
    <3>1. CASE i = 1
      <4>1. SlotOf(head2, i) = ring.head
        BY <3>0, <3>1, <2>1, <2>3, SlotShift
      <4> QED BY <4>1, <3>1, <2>1, <2>7 DEF buf2
    <3>2. CASE i # 1
      <4>1. /\ SlotOf(head2, i) = SlotOf(ring.head, i - 1)
            /\ SlotOf(ring.head, i - 1) # ring.head
            /\ SlotOf(ring.head, i - 1) \in 0 .. RingCap - 1
        BY <3>0, <3>2, <2>1, <2>3, SlotShift
      <4>1a. i - 1 \in 1 .. ring.count
        BY <3>2, <2>1, <2>4
      <4>2. buf2[SlotOf(head2, i)] = ring.buf[SlotOf(ring.head, i - 1)]
        BY <4>1, <2>1 DEF buf2
      <4>3. ring.buf[SlotOf(ring.head, i - 1)] = log[Len(log) + 1 - (i - 1)]
        BY <4>1a DEF RingInv, SlotInv
      <4>4. /\ Len(log) + 1 - (i - 1) \in 1 .. Len(log)
            /\ Len(log) + 1 - (i - 1) = Len(log) + 2 - i
        BY <4>1a, <2>1 DEF RingInv, CountInv
      <4>5. Len(log') + 1 - i = Len(log) + 2 - i
        BY <2>1, <2>4, <2>7
      <4> QED BY <4>2, <4>3, <4>4, <4>5, <2>7
    <3> QED BY <3>1, <3>2
  <2>10. MinInv'
    <3> SUFFICES OldestVersion(ring, buf2, head2, cnt2, msg)
                   = log'[Len(log') - cnt2 + 1].version
      BY <2>2 DEF MinInv, Evicted
    <3>1. CASE cnt2 = RingCap
      <4>1. SlotOf(head2, RingCap) = head2
        BY <2>3, SlotOldest
      <4>2. \A i \in 1 .. cnt2 : buf2[SlotOf(head2, i)] = log'[Len(log') + 1 - i]
        BY <2>9, <2>2 DEF SlotInv
      <4>3. buf2[head2] = log'[Len(log') + 1 - RingCap]
        BY <4>1, <4>2, <3>1, <2>4
      <4>4. Len(log') + 1 - RingCap = Len(log') - cnt2 + 1
        BY <3>1, <2>1, <2>7
      <4> QED BY <4>3, <4>4, <3>1 DEF OldestVersion
    <3>2. CASE cnt2 # RingCap /\ cnt2 = 1
      <4>1. Len(log) = 0
        BY <3>2, <2>1, <2>4 DEF RingInv, CountInv
      <4> QED BY <4>1, <3>2, <2>7 DEF OldestVersion
    <3>3. CASE cnt2 # RingCap /\ cnt2 # 1
      <4>1. /\ ring.count = Len(log)
            /\ ring.count > 0
            /\ cnt2 = Len(log) + 1
        BY <3>3, <2>1, <2>4 DEF RingInv, CountInv
      <4>2. ring.minVer = log[1].version
        BY <4>1 DEF RingInv, MinInv, Evicted
      <4>3. 1 \in 1 .. Len(log)
        BY <4>1, <2>1
      <4>4. log'[1] = log[1]
        BY <4>3, <2>7
      <4>5. Len(log') - cnt2 + 1 = 1
        BY <4>1, <2>1, <2>7
      <4> QED BY <4>2, <4>4, <4>5, <3>3 DEF OldestVersion
    <3> QED BY <3>1, <3>2, <3>3
  <2>11. MaxInv'
    <3> SUFFICES ASSUME NEW i \in 1 .. Len(log')
                 PROVE  log'[i].version <= ring'.maxVer
      BY DEF MaxInv
    <3>1. CASE i = Len(log) + 1
      BY <3>1, <2>1, <2>2, <2>5, <2>7
    <3>2. CASE i \in 1 .. Len(log)
      <4>1. log[i].version <= ring.maxVer /\ log[i].version \in Int
        BY <3>2, <2>1, LogVersion DEF RingInv, MaxInv
      <4> QED BY <4>1, <3>2, <2>1, <2>2, <2>5, <2>7, SMTT(30)
    <3> QED BY <3>1, <3>2, <2>1, <2>7
  <2>12. TypeOK'
    <3>1. OldestVersion(ring, buf2, head2, cnt2, msg) \in 0 .. MaxVersion
      BY <2>1, <2>3, <2>5, <2>6 DEF OldestVersion
    <3>2. ring' = [buf |-> buf2, head |-> head2, count |-> cnt2,
                   minVer |-> ring'.minVer, maxVer |-> ring'.maxVer]
      BY <1>2 DEF Publish, RingAppend, buf2, head2, cnt2
    <3>3. ring'.maxVer \in 0 .. MaxVersion
      BY <2>1, <2>2, <2>5
    <3> QED BY <3>1, <3>2, <3>3, <2>2, <2>3, <2>4, <2>6, <2>7, SMTT(30) DEF TypeOK
  <2> QED BY <2>8, <2>9, <2>10, <2>11, <2>12 DEF RingInv
<1> QED BY <1>1, <1>2 DEF Next

\* The inductive invariant holds in every reachable state.
THEOREM RingInvariant == Spec => []RingInv
BY InitRingInv, NextRingInv, PTL DEF Spec

-----------------------------------------------------------------------------
\* What the invariant says about the walk of Since.
LEMMA WalkIsLogSuffix == RingInv => Window
<1> SUFFICES ASSUME RingInv PROVE Window
  OBVIOUS
<1> USE RingCapAssumption
<1>1. /\ ring.head \in 0 .. RingCap - 1
      /\ ring.count \in 0 .. RingCap
      /\ Len(log) \in Nat
      /\ ring.count = IF Len(log) < RingCap THEN Len(log) ELSE RingCap
  BY DEF RingInv, TypeOK, CountInv
<1>2. SUFFICES ASSUME NEW i \in 1 .. ring.count
               PROVE  Walk(ring)[i] = log[Evicted + i]
  BY <1>1 DEF Window
<1>4. (Start(ring) + i - 1) % RingCap = SlotOf(ring.head, ring.count + 1 - i)
  BY <1>1, <1>2, WalkSlot DEF Start
<1>5. ring.count + 1 - i \in 1 .. ring.count
  BY <1>1, <1>2
<1>6. Walk(ring)[i] = ring.buf[SlotOf(ring.head, ring.count + 1 - i)]
  BY <1>2, <1>4 DEF Walk
<1>7. Walk(ring)[i] = log[Len(log) + 1 - (ring.count + 1 - i)]
  BY <1>5, <1>6 DEF RingInv, SlotInv
<1> QED BY <1>7, <1>1, <1>2 DEF Evicted

\* Window for every capacity: the ring is the suffix of the log of published
\* messages, and Since walks it oldest first.
THEOREM WindowTheorem == Spec => []Window
BY RingInvariant, WalkIsLogSuffix, PTL

\* An accepted version is at least the version before the oldest message.
LEMMA AcceptedVersions == RingInv => NothingMissed
<1> SUFFICES ASSUME RingInv, Ordered,
                    NEW v \in 0 .. MaxVersion, Since(ring, v).ok,
                    NEW i \in 1 .. Evicted
             PROVE  log[i].version <= v
  BY DEF NothingMissed
<1> USE RingCapAssumption, LogAssumption
<1>1. /\ ring.count \in 0 .. RingCap
      /\ Len(log) \in Nat
      /\ log \in Seq(Messages)
      /\ ring.minVer \in 0 .. MaxVersion
      /\ ring.count = IF Len(log) < RingCap THEN Len(log) ELSE RingCap
  BY DEF RingInv, TypeOK, CountInv
<1>2. ring.count > 0 /\ Evicted + 1 \in 1 .. Len(log) /\ i \in 1 .. Len(log)
  BY <1>1 DEF Evicted
<1>3. ring.minVer = log[Evicted + 1].version
  BY <1>2 DEF RingInv, MinInv
<1>4. log[i].version < ring.minVer /\ log[i].version \in Int
  <2>0. Evicted \in Int
    BY <1>1 DEF Evicted
  <2>1. i < Evicted + 1
    BY <2>0
  <2> QED BY <2>1, <1>1, <1>2, <1>3, LogVersion DEF Ordered
<1>5. ~ (v < ring.minVer - 1)
  BY <1>1, <1>2 DEF Since
<1> QED BY <1>1, <1>4, <1>5

\* NothingMissed for every capacity: resuming from an accepted version never
\* skips an evicted message, as long as messages are published in order.
THEOREM NothingMissedTheorem == Spec => []NothingMissed
BY RingInvariant, AcceptedVersions, PTL

\* Type correctness of the ring, the first conjunct of the invariant.
THEOREM RingTypeCorrect == Spec => []TypeOK
<1>1. RingInv => TypeOK
  BY DEF RingInv
<1> QED BY <1>1, RingInvariant, PTL

-----------------------------------------------------------------------------
(***************************************************************************)
(* What Since returns.                                                      *)
(***************************************************************************)
LEMMA NoMessages ==
  ASSUME NEW S
  PROVE  <<>> \in Seq(S)
OBVIOUS

\* The values that out goes through in the loop of Since (ring.go:57-65).
LEMMA NewerThanRuns ==
  ASSUME NEW S, NEW q \in Seq(S), NEW v
  PROVE  \E f \in [0 .. Len(q) -> Seq(S)] :
           /\ f[0] = <<>> /\ NewerThan(q, v) = f[Len(q)]
           /\ \A i \in 1 .. Len(q) :
                f[i] = IF q[i].version > v THEN Append(f[i - 1], q[i]) ELSE f[i - 1]
<1> DEFINE n == Len(q)
           step(g, i) == IF i = 0 THEN <<>>
                         ELSE IF q[i].version > v THEN Append(g[i - 1], q[i]) ELSE g[i - 1]
           out == CHOOSE g : g = [i \in 0 .. n |-> step(g, i)]
<1>0. n \in Nat
  OBVIOUS
<1>1. PICK d : d = [x \in Seq(S) \X (1 .. n) |->
                      IF q[x[2]].version > v THEN Append(x[1], q[x[2]]) ELSE x[1]]
  OBVIOUS
<1>2. d \in Bodies(n, Seq(S))
  BY <1>1 DEF Bodies
<1>3. PICK f : f \in Runs(n, Seq(S), <<>>, d)
  BY <1>0, <1>2, NoMessages, DefinedUpTo
<1>4. f \in [0 .. n -> Seq(S)] /\ f[0] = <<>>
  BY <1>3 DEF Runs
<1>5. ASSUME NEW i \in 1 .. n
      PROVE  f[i] = IF q[i].version > v THEN Append(f[i - 1], q[i]) ELSE f[i - 1]
  <2>1. f[i] = d[<<f[i - 1], i>>]
    BY <1>3 DEF Runs
  <2>2. <<f[i - 1], i>> \in Seq(S) \X (1 .. n)
    BY <1>0, <1>4
  <2> QED
    BY <1>1, <2>1, <2>2
<1>6. \A i \in 0 .. n : f[i] = step(f, i)
  <2> SUFFICES ASSUME NEW i \in 0 .. n, i # 0 PROVE f[i] = step(f, i)
    BY <1>4
  <2>1. i \in 1 .. n
    BY <1>0
  <2> QED
    BY <1>5, <2>1
<1>7. f = [i \in 0 .. n |-> step(f, i)]
  <2> HIDE DEF step
  <2> QED
    BY <1>4, <1>6
<1>8. out = [i \in 0 .. n |-> step(out, i)]
  <2> HIDE DEF step, n
  <2> QED
    BY <1>7, Zenon
<1>9. NewerThan(q, v) = out[n]
  BY DEF NewerThan
<1> HIDE DEF out
<1>10. out = f
  <2> HIDE DEF n
  <2>1. out = [i \in 0 .. n |-> out[i]] /\ f = [i \in 0 .. n |-> f[i]] /\ out[0] = f[0]
    BY <1>0, <1>4, <1>8
  <2>2. ASSUME NEW i \in 1 .. n, out[i - 1] = f[i - 1] PROVE out[i] = f[i]
    <3>1. i \in 0 .. n /\ i # 0
      BY <1>0
    <3>2. out[i] = step(out, i) /\ f[i] = step(f, i)
      BY <1>6, <1>8, <3>1
    <3> QED
      BY <2>2, <3>1, <3>2
  <2>3. Alike(n, out, f)
    BY <2>1, <2>2 DEF Alike
  <2> QED
    BY <1>0, <2>3, SameUpTo
<1> QED
  BY <1>4, <1>5, <1>9, <1>10

\* If the newer messages are the end of q, the loop of Since returns that end.
LEMMA NewerIsEnd ==
  ASSUME NEW S, NEW q \in Seq(S), NEW v, NEW o \in 0 .. Len(q),
         \A i \in 1 .. Len(q) : q[i].version > v <=> i > o
  PROVE  NewerThan(q, v) = SubSeq(q, o + 1, Len(q))
<1>1. PICK f \in [0 .. Len(q) -> Seq(S)] :
           /\ f[0] = <<>> /\ NewerThan(q, v) = f[Len(q)]
           /\ \A i \in 1 .. Len(q) :
                f[i] = IF q[i].version > v THEN Append(f[i - 1], q[i]) ELSE f[i - 1]
  BY NewerThanRuns
<1>2. PICK n : n = Len(q)
  OBVIOUS
<1>3. n \in Nat /\ o \in 0 .. n
  BY <1>2
<1> DEFINE T == {i \in 0 .. n : f[i] = SubSeq(q, o + 1, i)}
<1>4. 0 \in T
  <2>1. SubSeq(q, o + 1, 0) = <<>>
    BY <1>3, SubSeqEmpty
  <2> QED
    BY <1>1, <1>3, <2>1
<1>5. ASSUME NEW i \in 0 .. n, i \in T, i < n PROVE i + 1 \in T
  <2>1. i + 1 \in 1 .. n /\ i + 1 \in 0 .. n /\ (i + 1) - 1 = i
    BY <1>3, <1>5
  <2>2. f[i + 1] = IF q[i + 1].version > v THEN Append(f[i], q[i + 1]) ELSE f[i]
    BY <1>1, <1>2, <2>1
  <2>3. CASE i + 1 > o
    <3>1. f[i + 1] = Append(SubSeq(q, o + 1, i), q[i + 1])
      BY <1>2, <1>5, <2>1, <2>2, <2>3
    <3>2. o + 1 \in 1 .. Len(q) /\ i + 1 \in o + 1 .. Len(q)
      BY <1>2, <1>3, <2>1, <2>3
    <3>3. SubSeq(q, o + 1, i + 1) = SubSeq(q, o + 1, (i + 1) - 1) \o <<q[i + 1]>>
      BY <3>2, SubSeqRecursiveSecond
    <3>4. SubSeq(q, o + 1, i) \in Seq(S) /\ q[i + 1] \in S
      <4>1. \A m \in o + 1 .. i : q[m] \in S
        BY <1>2, <1>3, <2>1
      <4>2. o + 1 \in Int /\ i \in Int
        BY <1>3
      <4> QED
        BY <1>2, <2>1, <4>1, <4>2, SubSeqProperties
    <3>5. SubSeq(q, o + 1, i) \o <<q[i + 1]>> = Append(SubSeq(q, o + 1, i), q[i + 1])
      BY <3>4, AppendIsConcat
    <3> QED
      BY <2>1, <3>1, <3>3, <3>5
  <2>4. CASE ~ (i + 1 > o)
    <3>1. f[i + 1] = SubSeq(q, o + 1, i)
      BY <1>2, <1>5, <2>1, <2>2, <2>4
    <3>2. SubSeq(q, o + 1, i) = <<>> /\ SubSeq(q, o + 1, i + 1) = <<>>
      <4>1. i < o + 1 /\ i + 1 < o + 1 /\ i \in Int /\ i + 1 \in Int /\ o + 1 \in Int
        BY <1>3, <2>1, <2>4
      <4> QED
        BY <4>1, SubSeqEmpty
    <3> QED
      BY <2>1, <3>1, <3>2
  <2> QED
    BY <2>3, <2>4
<1> HIDE DEF T
<1>6. \A i \in 0 .. n : i \in T
  BY <1>3, <1>4, <1>5, UpTo
<1>7. n \in T
  BY <1>3, <1>6
<1> QED
  BY <1>1, <1>2, <1>7 DEF T

\* Messages in version order that are newer than v are the end of the log.
LEMMA NewerLogIsEnd ==
  ASSUME log \in Seq(Messages), Ordered, NEW v \in Nat
  PROVE  \E j \in 0 .. Len(log) : \A i \in 1 .. Len(log) : log[i].version > v <=> i > j
<1> DEFINE Newer == {i \in 1 .. Len(log) : log[i].version > v}
<1>0. Len(log) \in Nat /\ \A i \in 1 .. Len(log) : log[i].version \in Nat
  BY LogVersion, LogAssumption
<1>1. CASE Newer = {}
  <2>1. \A i \in 1 .. Len(log) : ~ (log[i].version > v) /\ ~ (i > Len(log))
    BY <1>0, <1>1
  <2>2. Len(log) \in 0 .. Len(log)
    BY <1>0
  <2> QED
    BY <2>1, <2>2
<1>2. CASE Newer # {}
  <2>1. Newer \subseteq Nat
    OBVIOUS
  <2> HIDE DEF Newer
  <2>2. PICK m \in Newer : \A i \in Newer : m <= i
    BY <1>2, <2>1, LeastNumber
  <2> USE DEF Newer
  <2>3. m \in 1 .. Len(log) /\ log[m].version > v /\ m - 1 \in 0 .. Len(log)
    BY <1>0, <2>2
  <2>4. ASSUME NEW i \in 1 .. Len(log) PROVE log[i].version > v <=> i > m - 1
    <3>1. CASE i < m
      BY <1>0, <2>2, <2>3, <3>1
    <3>2. CASE i = m
      BY <1>0, <2>3, <3>2
    <3>3. CASE m < i
      <4>1. log[m].version < log[i].version
        BY <2>3, <3>3 DEF Ordered
      <4>2. log[m].version \in Nat /\ log[i].version \in Nat
        BY <1>0, <2>3
      <4> QED
        BY <1>0, <2>3, <3>3, <4>1, <4>2
    <3> QED
      BY <1>0, <2>3, <3>1, <3>2, <3>3
  <2> QED
    BY <2>3, <2>4
<1> QED
  BY <1>1, <1>2

\* The ring has all of that end if Since accepts v, as nothing that was evicted is newer.
LEMMA AcceptedReplays == RingInv => ReplayExact
<1> SUFFICES ASSUME RingInv, Ordered, NEW v \in 0 .. MaxVersion, Since(ring, v).ok
             PROVE  \E j \in 0 .. Len(log) :
                      /\ \A i \in 1 .. Len(log) : log[i].version > v <=> i > j
                      /\ Since(ring, v).msgs = SubSeq(log, j + 1, Len(log))
  BY DEF ReplayExact
<1> USE RingCapAssumption, LogAssumption
<1>1. /\ ring.count \in 0 .. RingCap /\ ring.count \in Nat /\ Len(log) \in Nat /\ v \in Nat
      /\ log \in Seq(Messages)
      /\ ring.maxVer \in Nat
      /\ ring.count = IF Len(log) < RingCap THEN Len(log) ELSE RingCap
  BY DEF RingInv, TypeOK, CountInv
<1>2. PICK j \in 0 .. Len(log) : \A i \in 1 .. Len(log) : log[i].version > v <=> i > j
  BY <1>1, NewerLogIsEnd
<1>3. SUFFICES Since(ring, v).msgs = SubSeq(log, j + 1, Len(log))
  BY <1>2
<1>4. CASE j = Len(log) /\ Since(ring, v).msgs = <<>>
  <2>1. j + 1 \in Int /\ Len(log) \in Int /\ Len(log) < j + 1
    BY <1>1, <1>4
  <2> QED
    BY <1>4, <2>1, SubSeqEmpty
<1>5. CASE ring.count = 0
  BY <1>1, <1>4, <1>5 DEF Since
<1>6. CASE ring.count # 0 /\ v >= ring.maxVer
  <2>1. j = Len(log)
    <3> SUFFICES ASSUME j # Len(log) PROVE FALSE
      OBVIOUS
    <3>1. Len(log) \in 1 .. Len(log) /\ Len(log) > j
      BY <1>1, <1>2
    <3>2. log[Len(log)].version \in Nat /\ log[Len(log)].version <= ring.maxVer
      BY <1>1, <3>1, LogVersion DEF RingInv, MaxInv
    <3> QED
      BY <1>1, <1>2, <1>6, <3>1, <3>2
  <2> QED
    BY <1>1, <1>4, <1>6, <2>1 DEF Since
<1>7. CASE ring.count # 0 /\ ~ (v >= ring.maxVer)
  <2>1. PICK q, n, x : q = Walk(ring) /\ n = ring.count /\ x = Evicted
    OBVIOUS
  <2>2. Since(ring, v).msgs = NewerThan(q, v)
    BY <1>7, <2>1 DEF Since
  <2>3. x \in Nat /\ Len(log) = x + n /\ n \in Nat
    BY <1>1, <2>1 DEF Evicted
  <2>4. q \in Seq(Messages) /\ Len(q) = n /\ \A i \in 1 .. n : q[i] = log[x + i]
    <3>1. \A i \in 1 .. n : q[i] = log[x + i]
      BY <2>1, WalkIsLogSuffix DEF Window
    <3>2. \A i \in 1 .. n : x + i \in 1 .. Len(log)
      BY <2>3
    <3>3. \A i \in 1 .. n : q[i] \in Messages
      BY <1>1, <3>1, <3>2
    <3>4. q = [i \in 1 .. n |-> q[i]]
      BY <2>1 DEF Walk
    <3> QED
      BY <2>3, <3>1, <3>3, <3>4, SMTT(30)
  <2>5. x <= j
    <3> SUFFICES ASSUME j < x PROVE FALSE
      BY <1>2, <2>3
    <3>1. x \in 1 .. Evicted /\ x \in 1 .. Len(log)
      BY <1>1, <2>1, <2>3
    <3>2. log[x].version <= v
      BY <3>1, AcceptedVersions DEF NothingMissed
    <3>3. log[x].version \in Nat
      BY <1>1, <3>1, LogVersion
    <3> QED
      BY <1>1, <1>2, <3>1, <3>2, <3>3
  <2>6. PICK o : o = j - x
    OBVIOUS
  <2>7. o \in 0 .. Len(q) /\ j = x + o
    BY <1>2, <2>3, <2>4, <2>5, <2>6
  <2>8. ASSUME NEW i \in 1 .. Len(q) PROVE q[i].version > v <=> i > o
    <3>1. x + i \in 1 .. Len(log) /\ q[i] = log[x + i] /\ (i > o <=> x + i > j)
      BY <2>3, <2>4, <2>7
    <3> QED
      BY <1>2, <3>1
  <2>9. NewerThan(q, v) = SubSeq(q, o + 1, Len(q))
    BY <2>4, <2>7, <2>8, NewerIsEnd
  <2>10. SubSeq(q, o + 1, n) = SubSeq(log, j + 1, Len(log))
    <3>1. PICK s, t : s = SubSeq(q, o + 1, n) /\ t = SubSeq(log, j + 1, Len(log))
      OBVIOUS
    <3>2. o \in Nat /\ o <= n /\ o + 1 \in Int /\ j + 1 \in Int /\ n \in Int /\ Len(log) \in Int
      BY <1>1, <2>3, <2>4, <2>7
    <3>3. s \in Seq(Messages) /\ Len(s) = n - o /\ \A i \in 1 .. n - o : s[i] = q[o + i]
      <4>1. \A i \in o + 1 .. n : q[i] \in Messages
        BY <2>4, <3>2
      <4>2. /\ s \in Seq(Messages) /\ Len(s) = IF o + 1 <= n THEN n - (o + 1) + 1 ELSE 0
            /\ \A i \in 1 .. n - (o + 1) + 1 : s[i] = q[(o + 1) + i - 1]
        BY <3>1, <3>2, <4>1, SubSeqProperties
      <4>3. n - (o + 1) + 1 = n - o /\ (~ (o + 1 <= n) => n - o = 0)
        BY <2>3, <3>2
      <4>4. \A i \in 1 .. n - o : (o + 1) + i - 1 = o + i
        BY <2>3, <3>2
      <4> QED
        BY <4>2, <4>3, <4>4
    <3>4. t \in Seq(Messages) /\ Len(t) = n - o /\ \A i \in 1 .. n - o : t[i] = log[x + (o + i)]
      <4>1. \A i \in j + 1 .. Len(log) : log[i] \in Messages
        BY <1>1, <2>3, <2>7, <3>2
      <4>2. /\ t \in Seq(Messages) /\ Len(t) = IF j + 1 <= Len(log) THEN Len(log) - (j + 1) + 1 ELSE 0
            /\ \A i \in 1 .. Len(log) - (j + 1) + 1 : t[i] = log[(j + 1) + i - 1]
        BY <3>1, <3>2, <4>1, SubSeqProperties
      <4>3. Len(log) - (j + 1) + 1 = n - o /\ (~ (j + 1 <= Len(log)) => n - o = 0)
        BY <2>3, <2>7, <3>2
      <4>4. \A i \in 1 .. n - o : (j + 1) + i - 1 = x + (o + i)
        BY <2>3, <2>7, <3>2
      <4> QED
        BY <4>2, <4>3, <4>4
    <3>5. \A i \in 1 .. n - o : o + i \in 1 .. n
      BY <2>3, <3>2
    <3>6. \A i \in 1 .. n - o : s[i] = t[i]
      BY <2>4, <3>3, <3>4, <3>5
    <3>7. s = t
      BY <3>3, <3>4, <3>6, SeqEqual
    <3> QED
      BY <3>1, <3>7
  <2> QED
    BY <2>2, <2>4, <2>9, <2>10
<1> QED
  BY <1>5, <1>6, <1>7

\* ReplayExactTheorem: for every capacity and every log in version order, a version that
\* Since accepts is answered with exactly the newer messages of the whole log, in order
\* (ring.go, the loop of Since over slots that wrap around).
THEOREM ReplayExactTheorem == Spec => []ReplayExact
BY RingInvariant, AcceptedReplays, PTL

-----------------------------------------------------------------------------
\* Versions without gaps count up from the first.
LEMMA GapFreeVersions ==
  ASSUME log \in Seq(Messages), GapFree, log # <<>>, NEW i \in 1 .. Len(log)
  PROVE  log[i].version = log[1].version + i - 1
<1>1. PICK n, a : n = Len(log) - 1 /\ a = log[1].version
  OBVIOUS
<1>2. n \in Nat /\ Len(log) = n + 1 /\ a \in Nat
  <2>1. Len(log) \in Nat /\ Len(log) # 0 /\ 1 \in 1 .. Len(log)
    OBVIOUS
  <2> QED
    BY <1>1, <2>1, LogVersion, LogAssumption
<1> DEFINE T == {m \in 0 .. n : log[m + 1].version = a + m}
<1>3. 0 \in T
  BY <1>1, <1>2
<1>4. ASSUME NEW m \in 0 .. n, m \in T, m < n PROVE m + 1 \in T
  <2>1. m + 1 \in 1 .. Len(log) - 1 /\ m + 1 \in 0 .. n
    BY <1>2, <1>4
  <2>2. log[(m + 1) + 1].version = log[m + 1].version + 1
    BY <2>1 DEF GapFree
  <2> QED
    BY <1>2, <1>4, <2>1, <2>2
<1> HIDE DEF T
<1>5. \A m \in 0 .. n : m \in T
  BY <1>2, <1>3, <1>4, UpTo
<1>6. i - 1 \in 0 .. n /\ (i - 1) + 1 = i
  BY <1>2
<1>7. log[(i - 1) + 1].version = a + (i - 1)
  BY <1>5, <1>6 DEF T
<1> QED
  BY <1>1, <1>2, <1>6, <1>7

LEMMA RefusedBelow == RingInv => RefusedIffEvicted
<1> SUFFICES ASSUME RingInv, GapFree, log # <<>>, NEW v \in 0 .. MaxVersion
             PROVE  Since(ring, v).ok <=>
                      \/ v >= log[Len(log)].version
                      \/ \E i \in Evicted + 1 .. Len(log) : log[i].version = v + 1
  BY DEF RefusedIffEvicted
<1> USE RingCapAssumption, LogAssumption
<1>1. PICK n, x, a : n = Len(log) /\ x = Evicted /\ a = log[1].version
  OBVIOUS
<1>2. /\ ring.count \in Nat /\ ring.count > 0 /\ n \in Nat /\ n > 0 /\ x \in Nat /\ x + 1 <= n
      /\ log \in Seq(Messages) /\ v \in Nat
  <2>1. /\ ring.count \in 0 .. RingCap /\ log \in Seq(Messages) /\ Len(log) \in Nat
        /\ Len(log) # 0 /\ ring.count = IF Len(log) < RingCap THEN Len(log) ELSE RingCap
    BY DEF RingInv, TypeOK, CountInv
  <2> QED
    BY <1>1, <2>1 DEF Evicted
<1>3. a \in Nat /\ \A i \in 1 .. n : log[i].version = a + i - 1
  BY <1>1, <1>2, LogVersion, GapFreeVersions
<1>4. ring.minVer = a + x
  <2>1. ring.minVer = log[x + 1].version
    BY <1>1, <1>2 DEF RingInv, MinInv
  <2>2. x + 1 \in 1 .. n
    BY <1>2
  <2>3. log[x + 1].version = a + (x + 1) - 1
    BY <1>3, <2>2
  <2> QED
    BY <1>2, <1>3, <2>1, <2>3
<1>5. Since(ring, v).ok <=> ~ (v < a + x - 1)
  <2>1. ring.count # 0
    BY <1>2
  <2>2. ASSUME v < ring.minVer - 1 PROVE ~ Since(ring, v).ok
    <3>1. Since(ring, v) = [ok |-> FALSE, msgs |-> <<>>]
      BY <2>1, <2>2, Zenon DEF Since
    <3> QED
      BY <3>1
  <2>3. ASSUME ~ (v < ring.minVer - 1) PROVE Since(ring, v).ok
    <3>1. PICK m : Since(ring, v) = [ok |-> TRUE, msgs |-> m]
      BY <2>1, <2>3, Zenon DEF Since
    <3> QED
      BY <3>1
  <2>4. Since(ring, v).ok <=> ~ (v < ring.minVer - 1)
    BY <2>2, <2>3, Zenon
  <2>5. v < ring.minVer - 1 <=> v < a + x - 1
    BY <1>2, <1>3, <1>4
  <2> QED
    BY <2>4, <2>5, Zenon
<1>6. log[Len(log)].version = a + n - 1
  <2>1. n \in 1 .. n
    BY <1>2
  <2> QED
    BY <1>1, <1>3, <2>1
<1>7. (\E i \in x + 1 .. n : log[i].version = v + 1) <=> a + x <= v + 1 /\ v + 1 <= a + n - 1
  <2>1. ASSUME NEW i \in x + 1 .. n, log[i].version = v + 1
        PROVE  a + x <= v + 1 /\ v + 1 <= a + n - 1
    <3>1. i \in 1 .. n
      BY <1>2
    <3>2. log[i].version = a + i - 1
      BY <1>3, <3>1
    <3> QED
      BY <1>2, <1>3, <2>1, <3>1, <3>2
  <2>2. ASSUME a + x <= v + 1, v + 1 <= a + n - 1
        PROVE  \E i \in x + 1 .. n : log[i].version = v + 1
    <3>1. PICK i : i = v + 2 - a
      OBVIOUS
    <3>2. i \in x + 1 .. n /\ i \in 1 .. n
      BY <1>2, <1>3, <2>2, <3>1
    <3>3. log[i].version = a + i - 1
      BY <1>3, <3>2
    <3> QED
      BY <1>2, <1>3, <3>1, <3>2, <3>3
  <2> QED
    BY <2>1, <2>2
<1>8. ~ (v < a + x - 1) <=> v >= a + n - 1 \/ (a + x <= v + 1 /\ v + 1 <= a + n - 1)
  BY <1>2, <1>3
<1> QED
  BY <1>1, <1>5, <1>6, <1>7, <1>8

\* RefusedIffEvicted for every capacity: with versions that have no gaps, Since asks for a
\* full snapshot exactly when a message that the client needs was evicted (the guard
\* version < minVer - 1 of ring.go, neither one too low nor one too high).
THEOREM RefusedIffEvictedTheorem == Spec => []RefusedIffEvicted
BY RingInvariant, RefusedBelow, PTL
=============================================================================
