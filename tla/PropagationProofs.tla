-------------------------- MODULE PropagationProofs --------------------------
(***************************************************************************)
(* Proofs about Propagation, for any number of projects, environments,      *)
(* management requests, connections and clients, and any capacities.        *)
(***************************************************************************)
EXTENDS Propagation, EventRingSlots

\* The messages of a ring are in the slots that Since visits.
RingHolds(r, S) == \A i \in 1 .. r.count : r.buf[SlotOf(r.head, i)] \in S

-----------------------------------------------------------------------------
(***************************************************************************)
(* The inductive invariant.  LabelsAreHonest speaks of the snapshots that   *)
(* clients hold; to be preserved it has to be known of every place that a   *)
(* snapshot passes through, and of a snapshot that is still being built.    *)
(***************************************************************************)
SoundSnapshots == {x \in Snapshots : Sound(x)}
SoundMessages  == {m \in Messages : Sound(m.snap)}

Building == {"build", "flags", "segments", "config", "built"}
Drafting == Building \ {"build"}

\* What a version promised is still in the store.
HistoryInv ==
  \A s \in Scopes :
    /\ Len(committed[s]) = versions[s]
    /\ \A v \in 1 .. versions[s] : AtLeast(Content(s), committed[s][v])

\* Handlers work on environments that exist.
ScopeInv ==
  /\ \A k \in Conns : pc[k] # "idle" => scope[k] \in Scopes
  /\ \A w \in Writers :
       /\ pc[w] # "idle" =>
            /\ scope[w] \in Projects \X (EnvKeys \cup {Nil})
            /\ \A e \in todo[w] : <<scope[w][1], e>> \in Scopes
       /\ pc[w] \in Building => scope[w] \in Scopes
       /\ pc[w] # "publishing" => targets[w] = {}

\* The parts of a draft that have been read are as recent as its label says.
DraftOK(q) ==
  /\ draft[q] \in Snapshots
  /\ ScopeOf(draft[q]) = scope[q]
  /\ draft[q].version <= versions[scope[q]]
  /\ AtLeast(Content(scope[q]), ContentOf(draft[q]))
  /\ \A v \in 1 .. draft[q].version :
       /\ pc[q] # "flags" =>
            draft[q].flags >= committed[scope[q]][v].flags
       /\ pc[q] \in {"config", "built"} =>
            draft[q].segments >= committed[scope[q]][v].segments
       /\ pc[q] = "built" =>
            draft[q].config >= committed[scope[q]][v].config

DraftInv == \A q \in Procs : pc[q] \in Drafting => DraftOK(q)

RingInv ==
  /\ \A e \in EnvKeys : rings[e] # Nil => RingHolds(rings[e], SoundMessages)
  /\ \A k \in Conns : pc[k] = "replay" => rings[scope[k][2]] # Nil

\* Everything on its way to a client is sound.
TransitInv ==
  /\ \A w \in Writers : targets[w] # {} => draft[w] \in SoundSnapshots
  /\ ch \in [Conns -> Seq(SoundMessages)]
  /\ pending \in [Conns -> Seq(SoundMessages)]
  /\ \A k \in Conns : pc[k] = "replaying" => pending[k] # <<>>
  /\ wire \in [Conns -> Seq(SoundSnapshots)]
  /\ view \in [Clients -> SoundSnapshots \cup {Nil}]

HonestInv ==
  /\ TypeOK
  /\ HistoryInv
  /\ ScopeInv
  /\ DraftInv
  /\ RingInv
  /\ TransitInv

-----------------------------------------------------------------------------
LEMMA RingAppendType ==
  ASSUME NEW r \in Rings, NEW m \in Messages
  PROVE  RingAppend(r, m) \in Rings
<1> USE RingCapAssumption
<1> DEFINE buf2  == [r.buf EXCEPT ![r.head] = m]
           head2 == (r.head + 1) % RingCap
           cnt2  == NextCount(r)
           min2  == OldestVersion(r, buf2, head2, cnt2, m)
           max2  == IF m.version > r.maxVer THEN m.version ELSE r.maxVer
<1>1. /\ r.head \in 0 .. RingCap - 1
      /\ r.count \in 0 .. RingCap
      /\ r.buf \in [0 .. RingCap - 1 -> Messages \cup {EmptySlot}]
      /\ r.minVer \in Nat
      /\ r.maxVer \in Nat
      /\ m.version \in Nat
  BY DEF Rings, Messages
<1>2. buf2 \in [0 .. RingCap - 1 -> Messages \cup {EmptySlot}]
  BY <1>1
<1>3. head2 \in 0 .. RingCap - 1
  BY <1>1
<1>4. cnt2 \in 0 .. RingCap
  BY <1>1 DEF NextCount
<1>5. \A x \in Messages \cup {EmptySlot} : x.version \in Nat
  BY DEF Messages, EmptySlot
<1>6. buf2[head2].version \in Nat
  BY <1>2, <1>3, <1>5
<1>7. min2 \in Nat
  BY <1>1, <1>6 DEF OldestVersion
<1>8. max2 \in Nat
  BY <1>1
<1>9. RingAppend(r, m) = [buf |-> buf2, head |-> head2, count |-> cnt2,
                          minVer |-> min2, maxVer |-> max2]
  BY DEF RingAppend
<1> HIDE DEF buf2, head2, cnt2, min2, max2
<1> QED BY <1>2, <1>3, <1>4, <1>7, <1>8, <1>9 DEF Rings

LEMMA RingAppendHolds ==
  ASSUME NEW r \in Rings, NEW m, NEW S, m \in S, RingHolds(r, S)
  PROVE  RingHolds(RingAppend(r, m), S)
<1> USE RingCapAssumption
<1>1. /\ r.head \in 0 .. RingCap - 1
      /\ r.count \in 0 .. RingCap
      /\ r.buf \in [0 .. RingCap - 1 -> Messages \cup {EmptySlot}]
  BY DEF Rings
<1> DEFINE buf2  == [r.buf EXCEPT ![r.head] = m]
           head2 == (r.head + 1) % RingCap
           cnt2  == NextCount(r)
<1>2. /\ RingAppend(r, m).buf = buf2
      /\ RingAppend(r, m).head = head2
      /\ RingAppend(r, m).count = cnt2
  BY DEF RingAppend
<1>3. cnt2 \in 1 .. RingCap /\ cnt2 <= r.count + 1
  BY <1>1 DEF NextCount
<1>4. head2 \in 0 .. RingCap - 1 /\ head2 = (r.head + 1) % RingCap
  BY <1>1
<1> HIDE DEF buf2, head2, cnt2
<1>5. SUFFICES ASSUME NEW i \in 1 .. cnt2 PROVE buf2[SlotOf(head2, i)] \in S
  BY <1>2 DEF RingHolds
<1>6. i \in 1 .. RingCap
  BY <1>3, <1>5
<1>7. CASE i = 1
  <2>1. SlotOf(head2, i) = r.head
    BY <1>1, <1>4, <1>6, <1>7, SlotShift
  <2> QED BY <2>1, <1>1 DEF buf2
<1>8. CASE i # 1
  <2>1. /\ SlotOf(head2, i) = SlotOf(r.head, i - 1)
        /\ SlotOf(r.head, i - 1) # r.head
        /\ SlotOf(r.head, i - 1) \in 0 .. RingCap - 1
    BY <1>1, <1>4, <1>6, <1>8, SlotShift
  <2>2. i - 1 \in 1 .. r.count
    BY <1>1, <1>3, <1>5, <1>8
  <2> QED BY <2>1, <2>2, <1>1 DEF RingHolds, buf2
<1> QED BY <1>7, <1>8

LEMMA NewRingHolds ==
  ASSUME NEW S
  PROVE  NewEventRing \in Rings /\ RingHolds(NewEventRing, S)
BY RingCapAssumption DEF NewEventRing, Rings, RingHolds

LEMMA WalkHolds ==
  ASSUME NEW r \in Rings, NEW S, RingHolds(r, S)
  PROVE  Walk(r) \in Seq(S) /\ Len(Walk(r)) = r.count
<1> USE RingCapAssumption
<1>1. /\ r.head \in 0 .. RingCap - 1
      /\ r.count \in 0 .. RingCap
      /\ r.count \in Nat
  BY DEF Rings
<1>2. ASSUME NEW i \in 1 .. r.count
      PROVE  r.buf[(Start(r) + i - 1) % RingCap] \in S
  <2>1. (Start(r) + i - 1) % RingCap = SlotOf(r.head, r.count + 1 - i)
    BY <1>1, WalkSlot DEF Start
  <2>2. r.count + 1 - i \in 1 .. r.count
    BY <1>1
  <2> QED BY <2>1, <2>2 DEF RingHolds
<1> QED BY <1>1, <1>2 DEF Walk

-----------------------------------------------------------------------------
(***************************************************************************)
(* Sound is preserved because the store only moves forward.                 *)
(***************************************************************************)
Grows ==
  \A s \in Scopes :
    /\ versions[s] <= versions'[s]
    /\ AtLeast(Content(s)', Content(s))
    /\ \A v \in 1 .. versions[s] : committed'[s][v] = committed[s][v]

LEMMA ContentType ==
  ASSUME StoreType, NEW s \in Scopes
  PROVE  /\ Content(s) \in Contents
         /\ s[1] \in Projects
         /\ s[2] \in EnvKeys
         /\ s = <<s[1], s[2]>>
<1>1. s \in Projects \X EnvKeys
  BY PropagationAssumption
<1>2. s[1] \in Projects /\ s[2] \in EnvKeys /\ s = <<s[1], s[2]>>
  BY <1>1
<1> QED BY <1>2 DEF StoreType, Content, Contents

LEMMA AtLeastRefl ==
  ASSUME NEW a \in Contents
  PROVE  AtLeast(a, a)
BY DEF Contents, AtLeast

LEMMA AtLeastTrans ==
  ASSUME NEW a \in Contents, NEW b \in Contents, NEW c \in Contents,
         AtLeast(a, b), AtLeast(b, c)
  PROVE  AtLeast(a, c)
BY DEF Contents, AtLeast

LEMMA ContentOfType ==
  ASSUME NEW x \in Snapshots
  PROVE  ContentOf(x) \in Contents /\ x.version \in Nat
BY DEF Snapshots, ContentOf, Contents

\* A step that does not write the store.
LEMMA StoreUnchangedGrows ==
  ASSUME StoreType, UNCHANGED storeVars
  PROVE  Grows
<1> SUFFICES ASSUME NEW s \in Scopes
             PROVE  /\ versions[s] <= versions'[s]
                    /\ AtLeast(Content(s)', Content(s))
                    /\ \A v \in 1 .. versions[s] : committed'[s][v] = committed[s][v]
  BY DEF Grows
<1>1. Content(s)' = Content(s)
  BY DEF storeVars, Content
<1>2. AtLeast(Content(s), Content(s))
  BY ContentType, AtLeastRefl
<1>3. versions[s] \in Nat
  BY DEF StoreType
<1> QED BY <1>1, <1>2, <1>3 DEF storeVars

LEMMA WriteGrows ==
  ASSUME StoreType, NEW w \in Writers, NEW p \in Projects,
         (\E e \in EnvKeys : PutFlagConfig(w, p, e))
           \/ ChangeFlags(w, p) \/ ChangeSegments(w, p)
  PROVE  Grows
<1> SUFFICES ASSUME NEW s \in Scopes
             PROVE  /\ versions[s] <= versions'[s]
                    /\ AtLeast(Content(s)', Content(s))
                    /\ \A v \in 1 .. versions[s] : committed'[s][v] = committed[s][v]
  BY DEF Grows
<1>1. versions' = versions /\ committed' = committed
  BY DEF PutFlagConfig, ChangeFlags, ChangeSegments, Request
<1>2. versions[s] \in Nat /\ s[1] \in Projects
  BY ContentType DEF StoreType
<1>3. /\ flags[s[1]] \in Nat
      /\ segments[s[1]] \in Nat
      /\ configs[s] \in Nat
  BY <1>2 DEF StoreType
<1>4. flags' = flags \/ flags' = [flags EXCEPT ![p] = @ + 1]
  BY DEF PutFlagConfig, ChangeFlags, ChangeSegments
<1>5. \A q \in Projects : flags'[q] >= flags[q]
  <2>1. \A q \in Projects : flags[q] \in Nat
    BY DEF StoreType
  <2>2. CASE flags' = flags
    BY <2>1, <2>2
  <2>3. CASE flags' = [flags EXCEPT ![p] = @ + 1]
    BY <2>1, <2>3 DEF StoreType
  <2> QED BY <2>2, <2>3, <1>4
<1>7. segments' = segments \/ segments' = [segments EXCEPT ![p] = @ + 1]
  BY DEF PutFlagConfig, ChangeFlags, ChangeSegments
<1>8. \A q \in Projects : segments'[q] >= segments[q]
  <2>1. \A q \in Projects : segments[q] \in Nat
    BY DEF StoreType
  <2>2. CASE segments' = segments
    BY <2>1, <2>2
  <2>3. CASE segments' = [segments EXCEPT ![p] = @ + 1]
    BY <2>1, <2>3 DEF StoreType
  <2> QED BY <2>2, <2>3, <1>7
<1>9. \/ configs' = configs
      \/ \E e \in EnvKeys : configs' = [configs EXCEPT ![<<p, e>>] = @ + 1]
  BY DEF PutFlagConfig, ChangeFlags, ChangeSegments
<1>10. configs'[s] >= configs[s]
  <2>1. CASE configs' = configs
    BY <2>1, <1>3
  <2>2. ASSUME NEW e \in EnvKeys, configs' = [configs EXCEPT ![<<p, e>>] = @ + 1]
        PROVE  configs'[s] >= configs[s]
    <3> DEFINE t == <<p, e>>
    <3>1. configs' = [configs EXCEPT ![t] = @ + 1]
      BY <2>2
    <3> HIDE DEF t
    <3> QED BY <3>1, <1>3 DEF StoreType
  <2> QED BY <2>1, <2>2, <1>9
<1>6. AtLeast(Content(s)', Content(s))
  BY <1>2, <1>5, <1>8, <1>10 DEF AtLeast, Content
<1> QED BY <1>1, <1>2, <1>6

LEMMA IncrementGrows ==
  ASSUME StoreType, HistoryInv, ScopeInv, NEW w \in Writers, NEW e \in EnvKeys,
         IncrementEnvVersion(w, e)
  PROVE  Grows
<1> SUFFICES ASSUME NEW s \in Scopes
             PROVE  /\ versions[s] <= versions'[s]
                    /\ AtLeast(Content(s)', Content(s))
                    /\ \A v \in 1 .. versions[s] : committed'[s][v] = committed[s][v]
  BY DEF Grows
<1> DEFINE t == <<scope[w][1], e>>
<1>1. t \in Scopes
  BY DEF IncrementEnvVersion, ScopeInv
<1>2. /\ versions' = [versions EXCEPT ![t] = @ + 1]
      /\ committed' = [committed EXCEPT ![t] = Append(@, Content(t))]
      /\ UNCHANGED <<flags, segments, configs>>
  BY DEF IncrementEnvVersion
<1> HIDE DEF t
<1>3. versions[s] <= versions'[s]
  BY <1>1, <1>2 DEF StoreType
<1>4. Content(s)' = Content(s)
  BY <1>2 DEF Content
<1>5. AtLeast(Content(s), Content(s))
  BY ContentType, AtLeastRefl
<1>6. ASSUME NEW v \in 1 .. versions[s] PROVE committed'[s][v] = committed[s][v]
  <2>1. committed[s] \in Seq(Contents) /\ Len(committed[s]) = versions[s]
    BY DEF StoreType, HistoryInv
  <2>2. CASE s = t
    <3>1. committed'[s] = Append(committed[s], Content(t))
      BY <2>2, <1>1, <1>2 DEF StoreType
    <3>2. Content(t) \in Contents
      BY <1>1, ContentType
    <3> QED BY <2>1, <3>1, <3>2
  <2>3. CASE s # t
    BY <2>3, <1>1, <1>2 DEF StoreType
  <2> QED BY <2>2, <2>3
<1> QED BY <1>3, <1>4, <1>5, <1>6

\* Which steps write the store.
LEMMA StoreSteps ==
  ASSUME [Next]_vars
  PROVE  \/ UNCHANGED storeVars
         \/ \E w \in Writers, p \in Projects :
              \/ \E e \in EnvKeys : PutFlagConfig(w, p, e)
              \/ ChangeFlags(w, p)
              \/ ChangeSegments(w, p)
         \/ \E w \in Writers, e \in EnvKeys : IncrementEnvVersion(w, e)
<1>1. CASE UNCHANGED vars
  BY <1>1 DEF vars
<1>2. ASSUME NEW w \in Writers, NewRequest(w)
      PROVE  \E p \in Projects :
               \/ \E e \in EnvKeys : PutFlagConfig(w, p, e)
               \/ ChangeFlags(w, p)
               \/ ChangeSegments(w, p)
  BY <1>2 DEF NewRequest
<1>3. ASSUME NEW q \in Procs, Build(q) PROVE UNCHANGED storeVars
  BY <1>3 DEF Build, BuildGetEnvVersion, BuildListFlags, BuildListSegments,
     BuildGetFlagConfig, BuildStep
<1>4. ASSUME NEW w \in Writers, WriterStep(w)
      PROVE  UNCHANGED storeVars \/ \E e \in EnvKeys : IncrementEnvVersion(w, e)
  <2>1. w \in Procs
    BY DEF Procs
  <2>2. CASE Publish(w)
    BY <2>2 DEF Publish
  <2>3. CASE \E k \in Conns : Send(w, k) \/ UnsubscribeSlow(w, k)
    BY <2>3 DEF Send, UnsubscribeSlow
  <2>4. CASE Respond(w)
    BY <2>4 DEF Respond
  <2> QED
    BY <1>3, <1>4, <2>1, <2>2, <2>3, <2>4 DEF WriterStep
<1>5. ASSUME NEW k \in Conns, StreamStep(k) PROVE UNCHANGED storeVars
  <2>1. k \in Procs
    BY DEF Procs
  <2> QED BY <1>3, <1>5, <2>1 DEF StreamStep, Subscribe, Replay, WriteReplayed,
             SendInitial, Deliver, DeliverFrame, Disconnected
<1>6. ASSUME NEW c \in Clients, ClientStep(c) \/ Drop(c) PROVE UNCHANGED storeVars
  BY <1>6 DEF ClientStep, Connect, HandleEvent, Drop
<1> QED BY <1>1, <1>2, <1>4, <1>5, <1>6 DEF Next

LEMMA NextGrows ==
  ASSUME HonestInv, [Next]_vars
  PROVE  Grows
<1>1. StoreType /\ HistoryInv /\ ScopeInv
  BY DEF HonestInv, TypeOK
<1> QED BY <1>1, StoreSteps, StoreUnchangedGrows, WriteGrows, IncrementGrows

LEMMA SoundStable ==
  ASSUME StoreType, StoreType', Grows, NEW x \in Snapshots, Sound(x)
  PROVE  Sound(x)'
<1> DEFINE s == ScopeOf(x)
<1>1. /\ s \in Scopes
      /\ x.version <= versions[s]
      /\ AtLeast(Content(s), ContentOf(x))
      /\ \A v \in 1 .. x.version : AtLeast(ContentOf(x), committed[s][v])
  BY DEF Sound
<1>2. /\ x.version \in Nat /\ ContentOf(x) \in Contents
      /\ versions[s] \in Nat /\ versions'[s] \in Nat
      /\ Content(s) \in Contents
  BY <1>1, ContentOfType, ContentType DEF StoreType
<1>3. Content(s)' \in Contents
  <2>1. s[1] \in Projects
    BY <1>1, ContentType
  <2> QED BY <1>1, <2>1 DEF StoreType, Content, Contents
<1> HIDE DEF s
<1>4. /\ versions[s] <= versions'[s]
      /\ AtLeast(Content(s)', Content(s))
      /\ \A v \in 1 .. versions[s] : committed'[s][v] = committed[s][v]
  BY <1>1 DEF Grows
<1>5. x.version <= versions'[s]
  BY <1>1, <1>2, <1>4
<1>6. AtLeast(Content(s)', ContentOf(x))
  BY <1>1, <1>2, <1>3, <1>4, AtLeastTrans
<1>7. \A v \in 1 .. x.version : AtLeast(ContentOf(x), committed'[s][v])
  BY <1>1, <1>2, <1>4
<1> QED BY <1>1, <1>5, <1>6, <1>7 DEF Sound, s, ScopeOf, ContentOf

\* What was sound before a step is sound after it.
LEMMA SoundGrows ==
  ASSUME StoreType, StoreType', Grows
  PROVE  SoundSnapshots \subseteq SoundSnapshots' /\ SoundMessages \subseteq SoundMessages'
<1>1. ASSUME NEW x \in SoundSnapshots PROVE x \in SoundSnapshots'
  <2>1. x \in Snapshots /\ Sound(x)
    BY DEF SoundSnapshots
  <2>2. Sound(x)'
    BY <2>1, SoundStable
  <2> QED BY <2>1, <2>2 DEF SoundSnapshots, Snapshots
<1>2. ASSUME NEW m \in SoundMessages PROVE m \in SoundMessages'
  <2>1. m \in Messages /\ Sound(m.snap) /\ m.snap \in Snapshots
    BY DEF SoundMessages, Messages
  <2>2. Sound(m.snap)'
    BY <2>1, SoundStable
  <2> QED BY <2>1, <2>2 DEF SoundMessages, Messages, Snapshots
<1> QED BY <1>1, <1>2

-----------------------------------------------------------------------------
(***************************************************************************)
(* The store.                                                               *)
(***************************************************************************)
LEMMA StoreTypeStep ==
  ASSUME HonestInv, [Next]_vars
  PROVE  StoreType'
<1> USE DEF StoreType
<1>1. StoreType /\ ScopeInv
  BY DEF HonestInv, TypeOK
<1>2. CASE UNCHANGED storeVars
  BY <1>1, <1>2 DEF storeVars
<1>3. ASSUME NEW w \in Writers, NEW p \in Projects, NEW e \in EnvKeys,
             PutFlagConfig(w, p, e)
      PROVE  StoreType'
  <2> DEFINE t == <<p, e>>
  <2>1. /\ t \in Scopes
        /\ configs' = [configs EXCEPT ![t] = @ + 1]
        /\ UNCHANGED <<flags, segments, versions, committed>>
    BY <1>3 DEF PutFlagConfig, Request
  <2> HIDE DEF t
  <2> QED BY <1>1, <2>1
<1>4. ASSUME NEW w \in Writers, NEW p \in Projects, ChangeFlags(w, p)
      PROVE  StoreType'
  BY <1>1, <1>4 DEF ChangeFlags, Request
<1>5. ASSUME NEW w \in Writers, NEW p \in Projects, ChangeSegments(w, p)
      PROVE  StoreType'
  BY <1>1, <1>5 DEF ChangeSegments, Request
<1>6. ASSUME NEW w \in Writers, NEW e \in EnvKeys, IncrementEnvVersion(w, e)
      PROVE  StoreType'
  <2> DEFINE t == <<scope[w][1], e>>
  <2>1. /\ t \in Scopes
        /\ versions' = [versions EXCEPT ![t] = @ + 1]
        /\ committed' = [committed EXCEPT ![t] = Append(@, Content(t))]
        /\ UNCHANGED <<flags, segments, configs>>
    BY <1>1, <1>6 DEF IncrementEnvVersion, ScopeInv
  <2> HIDE DEF t
  <2>2. Content(t) \in Contents
    BY <1>1, <2>1, ContentType
  <2>3. Append(committed[t], Content(t)) \in Seq(Contents)
    BY <1>1, <2>1, <2>2
  <2> QED BY <1>1, <2>1, <2>3
<1> QED BY <1>2, <1>3, <1>4, <1>5, <1>6, StoreSteps

LEMMA HistoryStep ==
  ASSUME HonestInv, [Next]_vars
  PROVE  HistoryInv'
<1>1. StoreType /\ HistoryInv /\ ScopeInv /\ StoreType' /\ Grows
  BY StoreTypeStep, NextGrows DEF HonestInv, TypeOK
<1>2. SUFFICES ASSUME NEW s \in Scopes
               PROVE  /\ Len(committed'[s]) = versions'[s]
                      /\ \A v \in 1 .. versions'[s] :
                           AtLeast(Content(s)', committed'[s][v])
  BY DEF HistoryInv
<1>3. /\ committed[s] \in Seq(Contents)
      /\ Len(committed[s]) = versions[s]
      /\ versions[s] \in Nat
      /\ Content(s) \in Contents
  BY <1>1, ContentType DEF StoreType, HistoryInv
<1>4. Content(s)' \in Contents
  <2>1. s[1] \in Projects
    BY <1>1, ContentType
  <2> QED BY <1>1, <2>1 DEF StoreType, Content, Contents
<1>5. ASSUME NEW v \in 1 .. versions[s]
      PROVE  AtLeast(Content(s)', committed'[s][v])
  <2>1. committed[s][v] \in Contents
    BY <1>3
  <2>2. committed'[s][v] = committed[s][v] /\ AtLeast(Content(s)', Content(s))
    BY <1>1 DEF Grows
  <2>3. AtLeast(Content(s), committed[s][v])
    BY <1>1 DEF HistoryInv
  <2> QED BY <1>3, <1>4, <2>1, <2>2, <2>3, AtLeastTrans
<1>6. CASE versions' = versions /\ committed' = committed
  BY <1>3, <1>5, <1>6
<1>7. ASSUME NEW w \in Writers, NEW e \in EnvKeys, IncrementEnvVersion(w, e)
      PROVE  /\ Len(committed'[s]) = versions'[s]
             /\ \A v \in 1 .. versions'[s] :
                  AtLeast(Content(s)', committed'[s][v])
  <2> DEFINE t == <<scope[w][1], e>>
  <2>1. /\ t \in Scopes
        /\ versions' = [versions EXCEPT ![t] = @ + 1]
        /\ committed' = [committed EXCEPT ![t] = Append(@, Content(t))]
        /\ UNCHANGED <<flags, segments, configs>>
    BY <1>1, <1>7 DEF IncrementEnvVersion, ScopeInv
  <2> HIDE DEF t
  <2>2. CASE s # t
    <3>1. versions'[s] = versions[s] /\ committed'[s] = committed[s]
      BY <1>1, <2>1, <2>2 DEF StoreType
    <3> QED BY <1>3, <1>5, <3>1
  <2>3. CASE s = t
    <3>1. /\ versions'[s] = versions[s] + 1
          /\ committed'[s] = Append(committed[s], Content(s))
      BY <1>1, <2>1, <2>3 DEF StoreType
    <3>2. Content(s)' = Content(s)
      BY <2>1 DEF Content
    <3>3. /\ Len(committed'[s]) = versions[s] + 1
          /\ committed'[s][versions[s] + 1] = Content(s)
      BY <1>3, <3>1
    <3>4. AtLeast(Content(s)', committed'[s][versions[s] + 1])
      BY <3>2, <3>3, <1>3, AtLeastRefl
    <3>5. ASSUME NEW v \in 1 .. versions'[s]
          PROVE  v \in 1 .. versions[s] \/ v = versions[s] + 1
      BY <1>3, <3>1
    <3> QED BY <1>5, <3>1, <3>3, <3>4, <3>5
  <2> QED BY <2>2, <2>3
<1>8. ASSUME NEW w \in Writers, NEW p \in Projects,
             \/ \E e \in EnvKeys : PutFlagConfig(w, p, e)
             \/ ChangeFlags(w, p)
             \/ ChangeSegments(w, p)
      PROVE  versions' = versions /\ committed' = committed
  BY <1>8 DEF PutFlagConfig, ChangeFlags, ChangeSegments, Request
<1>9. CASE UNCHANGED storeVars
  BY <1>6, <1>9 DEF storeVars
<1> QED BY <1>6, <1>7, <1>8, <1>9, StoreSteps

-----------------------------------------------------------------------------
(***************************************************************************)
(* What a step leaves alone.                                                *)
(***************************************************************************)
LEMMA SeqMono ==
  ASSUME NEW S, NEW T, S \subseteq T, NEW x \in Seq(S)
  PROVE  x \in Seq(T)
<1>1. Len(x) \in Nat /\ x \in [1 .. Len(x) -> S]
  OBVIOUS
<1>2. x \in [1 .. Len(x) -> T]
  BY <1>1
<1> QED BY <1>1, <1>2

LEMMA SeqFunMono ==
  ASSUME NEW S, NEW T, S \subseteq T, NEW D, NEW f \in [D -> Seq(S)]
  PROVE  f \in [D -> Seq(T)]
<1>1. ASSUME NEW d \in D PROVE f[d] \in Seq(T)
  BY SeqMono
<1> QED BY <1>1

LEMMA TailHead ==
  ASSUME NEW S, NEW x \in Seq(S), x # <<>>
  PROVE  Head(x) \in S /\ Tail(x) \in Seq(S)
OBVIOUS

LEMMA TailEmpty ==
  ASSUME NEW S, NEW x \in Seq(S), Len(x) # 1, x # <<>>
  PROVE  Tail(x) # <<>>
<1> DEFINE y == Tail(x)
<1>1. Len(x) \in Nat /\ Len(x) # 0
  OBVIOUS
<1>2. y \in Seq(S) /\ Len(y) = Len(x) - 1
  BY <1>1
<1> HIDE DEF y
<1>3. Len(y) # 0
  BY <1>1, <1>2
<1>4. y # <<>>
  BY <1>3
<1> QED BY <1>4 DEF y

\* The sets of sound snapshots and messages only grow.
Carried ==
  /\ SoundSnapshots \subseteq SoundSnapshots'
  /\ SoundMessages \subseteq SoundMessages'
  /\ SoundSnapshots' \subseteq Snapshots
  /\ SoundMessages' \subseteq Messages

LEMMA NextCarries ==
  ASSUME HonestInv, [Next]_vars
  PROVE  Carried
<1>1. StoreType /\ StoreType' /\ Grows
  BY StoreTypeStep, NextGrows DEF HonestInv, TypeOK
<1>2. SoundSnapshots' \subseteq Snapshots
  BY DEF SoundSnapshots, Snapshots
<1>3. SoundMessages' \subseteq Messages
  BY DEF SoundMessages, Messages, Snapshots
<1> QED BY <1>1, <1>2, <1>3, SoundGrows DEF Carried

\* What was in transit may stay there.
LEMMA TransitKept ==
  ASSUME HonestInv, Carried
  PROVE  /\ ch \in [Conns -> Seq(SoundMessages')]
         /\ pending \in [Conns -> Seq(SoundMessages')]
         /\ wire \in [Conns -> Seq(SoundSnapshots')]
         /\ view \in [Clients -> SoundSnapshots' \cup {Nil}]
         /\ \A e \in EnvKeys : rings[e] # Nil => RingHolds(rings[e], SoundMessages')
         /\ \A w \in Writers : targets[w] # {} => draft[w] \in SoundSnapshots'
<1>1. /\ TransitInv /\ RingInv
      /\ SoundSnapshots \subseteq SoundSnapshots'
      /\ SoundMessages \subseteq SoundMessages'
  BY DEF HonestInv, Carried
<1>2. /\ ch \in [Conns -> Seq(SoundMessages)]
      /\ pending \in [Conns -> Seq(SoundMessages)]
      /\ wire \in [Conns -> Seq(SoundSnapshots)]
      /\ view \in [Clients -> SoundSnapshots \cup {Nil}]
  BY <1>1 DEF TransitInv
<1>3. ch \in [Conns -> Seq(SoundMessages')]
  BY <1>1, <1>2, SeqFunMono
<1>4. pending \in [Conns -> Seq(SoundMessages')]
  BY <1>1, <1>2, SeqFunMono
<1>5. wire \in [Conns -> Seq(SoundSnapshots')]
  BY <1>1, <1>2, SeqFunMono
<1>6. view \in [Clients -> SoundSnapshots' \cup {Nil}]
  BY <1>1, <1>2
<1>7. \A e \in EnvKeys : rings[e] # Nil => RingHolds(rings[e], SoundMessages')
  BY <1>1 DEF RingInv, RingHolds
<1>8. \A w \in Writers : targets[w] # {} => draft[w] \in SoundSnapshots'
  BY <1>1 DEF TransitInv
<1> QED BY <1>3, <1>4, <1>5, <1>6, <1>7, <1>8

\* Sound sequences are well-typed.
LEMMA TransitTyped ==
  ASSUME Carried
  PROVE  /\ ch' \in [Conns -> Seq(SoundMessages')] => ch' \in [Conns -> Seq(Messages)]
         /\ pending' \in [Conns -> Seq(SoundMessages')] =>
              pending' \in [Conns -> Seq(Messages)]
         /\ wire' \in [Conns -> Seq(SoundSnapshots')] =>
              wire' \in [Conns -> Seq(Snapshots)]
<1>1. SoundMessages' \subseteq Messages /\ SoundSnapshots' \subseteq Snapshots
  BY DEF Carried
<1> QED BY <1>1, SeqFunMono

LEMMA DraftStable ==
  ASSUME StoreType, StoreType', Grows, NEW q \in Procs, scope[q] \in Scopes,
         DraftOK(q), pc'[q] = pc[q], scope'[q] = scope[q], draft'[q] = draft[q]
  PROVE  DraftOK(q)'
<1>a. PICK s \in Scopes : s = scope[q]
  OBVIOUS
<1>b. PICK x : x = draft[q]
  OBVIOUS
<1>1. /\ x \in Snapshots
      /\ s \in Scopes
      /\ ScopeOf(x) = s
      /\ x.version <= versions[s]
      /\ AtLeast(Content(s), ContentOf(x))
  BY <1>a, <1>b DEF DraftOK
<1>2. /\ x.version \in Nat /\ ContentOf(x) \in Contents
      /\ versions[s] \in Nat /\ versions'[s] \in Nat
      /\ Content(s) \in Contents
  BY <1>1, ContentOfType, ContentType DEF StoreType
<1>3. Content(s)' \in Contents
  <2>1. s[1] \in Projects
    BY <1>1, ContentType
  <2> QED BY <1>1, <2>1 DEF StoreType, Content, Contents
<1>4. \A v \in 1 .. x.version :
        /\ pc[q] # "flags" => x.flags >= committed[s][v].flags
        /\ pc[q] \in {"config", "built"} => x.segments >= committed[s][v].segments
        /\ pc[q] = "built" => x.config >= committed[s][v].config
  BY <1>a, <1>b DEF DraftOK
<1>5. /\ versions[s] <= versions'[s]
      /\ AtLeast(Content(s)', Content(s))
      /\ \A v \in 1 .. versions[s] : committed'[s][v] = committed[s][v]
  BY <1>1 DEF Grows
<1>6. x.version <= versions'[s]
  BY <1>1, <1>2, <1>5
<1>7. AtLeast(Content(s)', ContentOf(x))
  BY <1>1, <1>2, <1>3, <1>5, AtLeastTrans
<1>8. \A v \in 1 .. x.version :
        /\ pc[q] # "flags" => x.flags >= committed'[s][v].flags
        /\ pc[q] \in {"config", "built"} => x.segments >= committed'[s][v].segments
        /\ pc[q] = "built" => x.config >= committed'[s][v].config
  BY <1>1, <1>2, <1>4, <1>5
<1>9. scope'[q] = s /\ draft'[q] = x
  BY <1>a, <1>b
<1> QED BY <1>1, <1>6, <1>7, <1>8, <1>9 DEF DraftOK, ScopeOf, ContentOf, Content

\* A draft that a step does not touch.
LEMMA DraftKept ==
  ASSUME HonestInv, [Next]_vars, NEW q \in Procs,
         pc'[q] = pc[q], scope'[q] = scope[q], draft'[q] = draft[q],
         pc'[q] \in Drafting
  PROVE  DraftOK(q)'
<1>1. StoreType /\ StoreType' /\ Grows /\ DraftInv /\ ScopeInv
  BY StoreTypeStep, NextGrows DEF HonestInv, TypeOK
<1>2. DraftOK(q)
  BY <1>1 DEF DraftInv
<1>3. scope[q] \in Scopes
  BY <1>1 DEF ScopeInv, Drafting, Building, Procs
<1> QED BY <1>1, <1>2, <1>3, DraftStable

\* A step touches at most the draft of handler q.
LEMMA DraftFrame ==
  ASSUME HonestInv, [Next]_vars, NEW q \in Procs,
         \A r \in Procs \ {q} :
           pc'[r] = pc[r] /\ scope'[r] = scope[r] /\ draft'[r] = draft[r],
         pc'[q] \in Drafting => DraftOK(q)'
  PROVE  DraftInv'
BY DraftKept DEF DraftInv

\* What is left to show of a step.
Rest ==
  /\ HubType
  /\ HandlerType
  /\ WriterType
  /\ StreamType
  /\ ClientType
  /\ ScopeInv
  /\ DraftInv
  /\ RingInv
  /\ TransitInv

-----------------------------------------------------------------------------
(***************************************************************************)
(* The client.                                                              *)
(***************************************************************************)
LEMMA ConnectStep ==
  ASSUME HonestInv, [Next]_vars, NEW c \in Clients, Connect(c)
  PROVE  Rest'
<1>1. /\ HubType /\ HandlerType /\ WriterType /\ StreamType /\ ClientType
      /\ ScopeInv /\ RingInv /\ TransitInv /\ Carried
  BY NextCarries DEF HonestInv, TypeOK
<1>2. PICK k \in Conns :
        /\ k = used + 1
        /\ used' = k
        /\ conn' = [conn EXCEPT ![c] = k]
        /\ up' = [up EXCEPT ![k] = TRUE]
        /\ scope' = [scope EXCEPT ![k] = ClientScope[c]]
        /\ from' = [from EXCEPT ![k] = IF view[c] = Nil THEN 0 ELSE view[c].version]
        /\ pc' = [pc EXCEPT ![k] = "subscribe"]
        /\ UNCHANGED <<hubVars, ch, draft, writerVars, sent, pending, exact, best,
                       wire, view, writes>>
  BY DEF Connect
<1>3. k \in Procs /\ k \notin Writers /\ ClientScope[c] \in Scopes
  BY PropagationAssumption DEF Procs
<1>4. HubType' /\ WriterType'
  BY <1>1, <1>2 DEF HubType, WriterType, hubVars, writerVars
<1>5. HandlerType'
  <2>1. ClientScope[c] \in Projects \X EnvKeys
    BY <1>3, PropagationAssumption
  <2> QED BY <1>1, <1>2, <1>3, <2>1 DEF HandlerType, Locations
<1>6. StreamType'
  <2>1. (IF view[c] = Nil THEN 0 ELSE view[c].version) \in Nat
    BY <1>1 DEF ClientType, Snapshots
  <2> QED BY <1>1, <1>2, <2>1 DEF StreamType
<1>7. ClientType'
  BY <1>1, <1>2 DEF ClientType, Conns
<1>8. ScopeInv'
  BY <1>1, <1>2, <1>3 DEF ScopeInv, HandlerType, Procs, writerVars, Building
<1>9. DraftInv'
  <2>1. pc'[k] \notin Drafting
    BY <1>1, <1>2, <1>3 DEF HandlerType, Drafting, Building
  <2>2. \A r \in Procs \ {k} :
          pc'[r] = pc[r] /\ scope'[r] = scope[r] /\ draft'[r] = draft[r]
    BY <1>1, <1>2 DEF HandlerType
  <2> QED BY <1>3, <2>1, <2>2, DraftFrame
<1>10. RingInv'
  BY <1>1, <1>2, <1>3, TransitKept DEF RingInv, hubVars, HandlerType, Procs
<1>11. TransitInv'
  BY <1>1, <1>2, <1>3, TransitKept DEF TransitInv, writerVars, HandlerType, Procs
<1> QED BY <1>4, <1>5, <1>6, <1>7, <1>8, <1>9, <1>10, <1>11 DEF Rest

LEMMA HandleEventStep ==
  ASSUME HonestInv, [Next]_vars, NEW c \in Clients, HandleEvent(c)
  PROVE  Rest'
<1>1. /\ HubType /\ HandlerType /\ WriterType /\ StreamType /\ ClientType
      /\ ScopeInv /\ RingInv /\ TransitInv /\ Carried
  BY NextCarries DEF HonestInv, TypeOK
<1>2. PICK k \in Conns :
        /\ wire[k] # <<>>
        /\ view' = [view EXCEPT ![c] = Head(wire[k])]
        /\ wire' = [wire EXCEPT ![k] = Tail(@)]
        /\ UNCHANGED <<hubVars, ch, pc, scope, draft, writerVars, streamVars, up,
                       conn, used, writes>>
  BY <1>1 DEF HandleEvent, ClientType
<1>3. Head(wire[k]) \in SoundSnapshots' /\ Tail(wire[k]) \in Seq(SoundSnapshots')
  <2>1. wire[k] \in Seq(SoundSnapshots')
    BY <1>1, TransitKept
  <2> QED BY <1>2, <2>1, TailHead
<1>4. wire' \in [Conns -> Seq(SoundSnapshots')]
  BY <1>1, <1>2, <1>3, TransitKept
<1>5. view' \in [Clients -> SoundSnapshots' \cup {Nil}]
  BY <1>1, <1>2, <1>3, TransitKept
<1>6. HubType' /\ WriterType' /\ HandlerType'
  BY <1>1, <1>2 DEF HubType, WriterType, HandlerType, hubVars, writerVars
<1>7. StreamType'
  BY <1>1, <1>2, <1>4, TransitTyped DEF StreamType, streamVars
<1>8. ClientType'
  BY <1>1, <1>2, <1>5 DEF ClientType, Carried
<1>9. ScopeInv'
  BY <1>1, <1>2 DEF ScopeInv, writerVars
<1>10. DraftInv'
  BY <1>2, DraftKept DEF DraftInv
<1>11. RingInv'
  BY <1>1, <1>2, TransitKept DEF RingInv, hubVars
<1>12. TransitInv'
  BY <1>1, <1>2, <1>4, <1>5, TransitKept DEF TransitInv, writerVars, streamVars
<1> QED BY <1>6, <1>7, <1>8, <1>9, <1>10, <1>11, <1>12 DEF Rest

LEMMA DropStep ==
  ASSUME HonestInv, [Next]_vars, NEW c \in Clients, Drop(c)
  PROVE  Rest'
<1>1. /\ HubType /\ HandlerType /\ WriterType /\ StreamType /\ ClientType
      /\ ScopeInv /\ RingInv /\ TransitInv /\ Carried
  BY NextCarries DEF HonestInv, TypeOK
<1>2. PICK k \in Conns :
        /\ up' = [up EXCEPT ![k] = FALSE]
        /\ conn' = [conn EXCEPT ![c] = Nil]
        /\ wire' = [wire EXCEPT ![k] = <<>>]
        /\ UNCHANGED <<hubVars, ch, pc, scope, draft, writerVars, streamVars, view,
                       used, writes>>
  BY <1>1 DEF Drop, ClientType
<1>3. wire' \in [Conns -> Seq(SoundSnapshots')]
  BY <1>1, <1>2, TransitKept
<1>4. HubType' /\ WriterType' /\ HandlerType'
  BY <1>1, <1>2 DEF HubType, WriterType, HandlerType, hubVars, writerVars
<1>5. StreamType'
  BY <1>1, <1>2, <1>3, TransitTyped DEF StreamType, streamVars
<1>6. ClientType'
  BY <1>1, <1>2 DEF ClientType
<1>7. ScopeInv'
  BY <1>1, <1>2 DEF ScopeInv, writerVars
<1>8. DraftInv'
  BY <1>2, DraftKept DEF DraftInv
<1>9. RingInv'
  BY <1>1, <1>2, TransitKept DEF RingInv, hubVars
<1>10. TransitInv'
  BY <1>1, <1>2, <1>3, TransitKept DEF TransitInv, writerVars, streamVars
<1> QED BY <1>4, <1>5, <1>6, <1>7, <1>8, <1>9, <1>10 DEF Rest

-----------------------------------------------------------------------------
(***************************************************************************)
(* The stream handler.                                                      *)
(***************************************************************************)
LEMMA SubscribeStep ==
  ASSUME HonestInv, [Next]_vars, NEW k \in Conns, Subscribe(k)
  PROVE  Rest'
<1>1. /\ HubType /\ HandlerType /\ WriterType /\ StreamType /\ ClientType
      /\ ScopeInv /\ RingInv /\ TransitInv /\ Carried
  BY NextCarries DEF HonestInv, TypeOK
<1>2. k \in Procs /\ k \notin Writers
  BY PropagationAssumption DEF Procs
<1>3. PICK e \in EnvKeys :
        /\ e = scope[k][2]
        /\ subs' = [subs EXCEPT ![e] = @ \cup {k}]
        /\ rings' = [rings EXCEPT ![e] = IF @ = Nil THEN NewEventRing ELSE @]
        /\ active' = active + 1
        /\ pc' = [pc EXCEPT ![k] = "replay"]
        /\ UNCHANGED <<published, ch, scope, draft, writerVars, streamVars, wire, up,
                       clientVars, writes>>
  <2>1. pc[k] = "subscribe"
    BY DEF Subscribe
  <2>2. scope[k] \in Scopes
    BY <1>1, <2>1 DEF ScopeInv
  <2>3. scope[k][2] \in EnvKeys
    BY <2>2, ContentType DEF HonestInv, TypeOK
  <2> QED BY <2>3 DEF Subscribe
<1>4. NewEventRing \in Rings /\ NewEventRing # Nil
  BY NewRingHolds, NilAssumption
<1>5. HubType'
  BY <1>1, <1>3, <1>4 DEF HubType
<1>6. HandlerType'
  BY <1>1, <1>3 DEF HandlerType, Locations
<1>7. WriterType' /\ StreamType' /\ ClientType'
  BY <1>1, <1>3 DEF WriterType, StreamType, ClientType, writerVars, streamVars,
     clientVars
<1>8. ScopeInv'
  BY <1>1, <1>2, <1>3 DEF ScopeInv, HandlerType, Procs, writerVars, Building, Subscribe
<1>9. DraftInv'
  <2>1. pc'[k] \notin Drafting
    BY <1>1, <1>2, <1>3 DEF HandlerType, Drafting, Building
  <2>2. \A r \in Procs \ {k} :
          pc'[r] = pc[r] /\ scope'[r] = scope[r] /\ draft'[r] = draft[r]
    BY <1>1, <1>3 DEF HandlerType
  <2> QED BY <1>2, <2>1, <2>2, DraftFrame
<1>10. RingInv'
  <2>1. \A f \in EnvKeys : rings'[f] # Nil => RingHolds(rings'[f], SoundMessages')
    BY <1>1, <1>3, TransitKept, NewRingHolds DEF HubType
  <2>2. \A j \in Conns : pc'[j] = "replay" => rings'[scope'[j][2]] # Nil
    BY <1>1, <1>2, <1>3, <1>4 DEF RingInv, HubType, HandlerType, Procs
  <2> QED BY <2>1, <2>2 DEF RingInv
<1>11. TransitInv'
  BY <1>1, <1>2, <1>3, TransitKept DEF TransitInv, writerVars, streamVars, clientVars,
     HandlerType, Procs
<1> QED BY <1>5, <1>6, <1>7, <1>8, <1>9, <1>10, <1>11 DEF Rest

LEMMA ReplayStep ==
  ASSUME HonestInv, [Next]_vars, NEW k \in Conns, Replay(k)
  PROVE  Rest'
<1>1. /\ HubType /\ HandlerType /\ WriterType /\ StreamType /\ ClientType
      /\ ScopeInv /\ RingInv /\ TransitInv /\ Carried
  BY NextCarries DEF HonestInv, TypeOK
<1>2. k \in Procs /\ k \notin Writers /\ pc[k] = "replay"
  BY PropagationAssumption DEF Procs, Replay
<1> DEFINE ring     == rings[scope[k][2]]
           messages == Walk(ring)
           newer    == {i \in 1 .. ring.count : messages[i].version > from[k]}
           replays  == Since(ring, from[k]).ok /\ newer # {}
           next     == IF replays THEN messages ELSE <<>>
<1>3. /\ pc' = [pc EXCEPT ![k] = IF replays THEN "replaying" ELSE "build"]
      /\ pending' = [pending EXCEPT ![k] = next]
      /\ \E b \in BOOLEAN : exact' = [exact EXCEPT ![k] = b]
      /\ UNCHANGED <<hubVars, ch, scope, draft, writerVars, from, sent, best, wire,
                     up, clientVars, writes>>
  BY DEF Replay
<1>4. scope[k] \in Scopes /\ scope[k][2] \in EnvKeys
  BY <1>1, <1>2, ContentType DEF ScopeInv, HonestInv, TypeOK
<1>5. ring \in Rings /\ RingHolds(ring, SoundMessages')
  BY <1>1, <1>2, <1>4, TransitKept DEF RingInv, HubType
<1>6. messages \in Seq(SoundMessages') /\ Len(messages) = ring.count
  BY <1>5, WalkHolds
<1>7. next \in Seq(SoundMessages')
  BY <1>6
<1>8. replays => next # <<>>
  <2> HIDE DEF ring, messages
  <2> SUFFICES ASSUME replays PROVE messages # <<>>
    OBVIOUS
  <2>1. PICK i \in 1 .. ring.count : TRUE
    OBVIOUS
  <2>2. ring.count \in Nat
    BY <1>5, RingCapAssumption DEF Rings
  <2>3. Len(messages) > 0
    BY <1>6, <2>1, <2>2
  <2> QED BY <2>3
<1> HIDE DEF ring, messages, newer, replays, next
<1>9. pending' \in [Conns -> Seq(SoundMessages')]
  BY <1>1, <1>3, <1>7, TransitKept
<1>10. HubType' /\ WriterType' /\ ClientType'
  BY <1>1, <1>3 DEF HubType, WriterType, ClientType, hubVars, writerVars, clientVars
<1>11. HandlerType'
  BY <1>1, <1>3 DEF HandlerType, Locations
<1>12. StreamType'
  BY <1>1, <1>3, <1>9, TransitTyped DEF StreamType
<1>13. ScopeInv'
  BY <1>1, <1>2, <1>3 DEF ScopeInv, HandlerType, Procs, writerVars, Building
<1>14. DraftInv'
  <2>1. pc'[k] \notin Drafting
    BY <1>1, <1>2, <1>3 DEF HandlerType, Drafting, Building
  <2>2. \A r \in Procs \ {k} :
          pc'[r] = pc[r] /\ scope'[r] = scope[r] /\ draft'[r] = draft[r]
    BY <1>1, <1>3 DEF HandlerType
  <2> QED BY <1>2, <2>1, <2>2, DraftFrame
<1>15. RingInv'
  BY <1>1, <1>2, <1>3, TransitKept DEF RingInv, hubVars, HandlerType, Procs
<1>16. TransitInv'
  <2>1. \A j \in Conns : pc'[j] = "replaying" => pending'[j] # <<>>
    BY <1>1, <1>2, <1>3, <1>8 DEF TransitInv, HandlerType, StreamType, Procs
  <2> QED BY <1>1, <1>3, <1>9, <2>1, TransitKept DEF TransitInv, writerVars, clientVars
<1> QED BY <1>10, <1>11, <1>12, <1>13, <1>14, <1>15, <1>16 DEF Rest

LEMMA WriteReplayedStep ==
  ASSUME HonestInv, [Next]_vars, NEW k \in Conns, WriteReplayed(k)
  PROVE  Rest'
<1>1. /\ HubType /\ HandlerType /\ WriterType /\ StreamType /\ ClientType
      /\ ScopeInv /\ RingInv /\ TransitInv /\ Carried
  BY NextCarries DEF HonestInv, TypeOK
<1>2. k \in Procs /\ k \notin Writers /\ pc[k] = "replaying"
  BY PropagationAssumption DEF Procs, WriteReplayed
<1>3. PICK msg \in SoundMessages' :
        /\ msg = Head(pending[k])
        /\ Tail(pending[k]) \in Seq(SoundMessages')
        /\ pending[k] \in Seq(SoundMessages') /\ pending[k] # <<>>
  <2>1. pending[k] \in Seq(SoundMessages') /\ pending[k] # <<>>
    BY <1>1, <1>2, TransitKept DEF TransitInv
  <2> QED BY <2>1, TailHead
<1>4. /\ pending' = [pending EXCEPT ![k] = Tail(@)]
      /\ pc' = [pc EXCEPT ![k] = IF Len(pending[k]) = 1 THEN "loop" ELSE "replaying"]
      /\ UNCHANGED <<hubVars, ch, scope, draft, writerVars, from, exact, up,
                     clientVars, writes>>
  BY DEF WriteReplayed
<1>5. \/ UNCHANGED <<wire, sent, best>>
      \/ /\ wire' = [wire EXCEPT ![k] = Append(@, msg.snap)]
         /\ sent' = [sent EXCEPT ![k] = msg.version]
         /\ best' = [best EXCEPT ![k] = Newest(@, msg.snap)]
  BY <1>3 DEF WriteReplayed
<1>6. msg.version \in Nat /\ msg.snap \in Snapshots /\ msg.snap \in SoundSnapshots'
  <2>1. msg \in Messages
    BY <1>1 DEF Carried
  <2> QED BY <2>1 DEF Messages, SoundMessages, SoundSnapshots
<1>7. pending' \in [Conns -> Seq(SoundMessages')]
  BY <1>1, <1>3, <1>4, TransitKept
<1>8. wire' \in [Conns -> Seq(SoundSnapshots')]
  <2>1. wire \in [Conns -> Seq(SoundSnapshots')]
    BY <1>1, TransitKept
  <2>2. Append(wire[k], msg.snap) \in Seq(SoundSnapshots')
    BY <1>6, <2>1
  <2> QED BY <1>5, <2>1, <2>2
<1>9. sent' \in [Conns -> Nat] /\ best' \in [Conns -> Snapshots \cup {Nil}]
  BY <1>1, <1>5, <1>6 DEF StreamType, Newest
<1>10. HubType' /\ WriterType' /\ ClientType'
  BY <1>1, <1>4 DEF HubType, WriterType, ClientType, hubVars, writerVars, clientVars
<1>11. HandlerType'
  BY <1>1, <1>4 DEF HandlerType, Locations
<1>12. StreamType'
  BY <1>1, <1>4, <1>7, <1>8, <1>9, TransitTyped DEF StreamType
<1>13. ScopeInv'
  BY <1>1, <1>2, <1>4 DEF ScopeInv, HandlerType, Procs, writerVars, Building
<1>14. DraftInv'
  <2>1. pc'[k] \notin Drafting
    BY <1>1, <1>2, <1>4 DEF HandlerType, Drafting, Building
  <2>2. \A r \in Procs \ {k} :
          pc'[r] = pc[r] /\ scope'[r] = scope[r] /\ draft'[r] = draft[r]
    BY <1>1, <1>4 DEF HandlerType
  <2> QED BY <1>2, <2>1, <2>2, DraftFrame
<1>15. RingInv'
  BY <1>1, <1>2, <1>4, TransitKept DEF RingInv, hubVars, HandlerType, Procs
<1>16. TransitInv'
  <2>1. Len(pending[k]) # 1 => Tail(pending[k]) # <<>>
    BY <1>3, TailEmpty
  <2>2. \A j \in Conns : pc'[j] = "replaying" => pending'[j] # <<>>
    BY <1>1, <1>2, <1>4, <2>1 DEF TransitInv, HandlerType, StreamType, Procs
  <2> QED BY <1>1, <1>4, <1>7, <1>8, <2>2, TransitKept
          DEF TransitInv, writerVars, clientVars
<1> QED BY <1>10, <1>11, <1>12, <1>13, <1>14, <1>15, <1>16 DEF Rest

\* A finished draft is a sound snapshot.
LEMMA BuiltIsSound ==
  ASSUME HonestInv, NEW q \in Procs, pc[q] = "built"
  PROVE  draft[q] \in SoundSnapshots /\ scope[q] \in Scopes
<1>1. scope[q] \in Scopes
  BY DEF HonestInv, ScopeInv, Procs, Building
<1>2. DraftOK(q)
  BY DEF HonestInv, DraftInv, Drafting, Building
<1>3. \A v \in 1 .. draft[q].version :
        AtLeast(ContentOf(draft[q]), committed[scope[q]][v])
  BY <1>2 DEF DraftOK, AtLeast, ContentOf
<1> QED BY <1>1, <1>2, <1>3 DEF DraftOK, Sound, SoundSnapshots

LEMMA SendInitialStep ==
  ASSUME HonestInv, [Next]_vars, NEW k \in Conns, SendInitial(k)
  PROVE  Rest'
<1>1. /\ HubType /\ HandlerType /\ WriterType /\ StreamType /\ ClientType
      /\ ScopeInv /\ RingInv /\ TransitInv /\ Carried /\ StoreType
  BY NextCarries DEF HonestInv, TypeOK
<1>2. k \in Procs /\ k \notin Writers /\ pc[k] = "built"
  BY PropagationAssumption DEF Procs, SendInitial
<1>3. draft[k] \in SoundSnapshots' /\ draft[k] \in Snapshots /\ scope[k] \in Scopes
  BY <1>1, <1>2, BuiltIsSound DEF Carried
<1>4. /\ sent' = [sent EXCEPT ![k] = versions[scope[k]]]
      /\ wire' = [wire EXCEPT ![k] = Append(@, draft[k])]
      /\ best' = [best EXCEPT ![k] = draft[k]]
      /\ \E b \in BOOLEAN : exact' = [exact EXCEPT ![k] = b]
      /\ draft' = [draft EXCEPT ![k] = Nil]
      /\ pc' = [pc EXCEPT ![k] = "loop"]
      /\ UNCHANGED <<hubVars, ch, scope, writerVars, from, pending, up, clientVars,
                     writes>>
  BY DEF SendInitial
<1>5. wire' \in [Conns -> Seq(SoundSnapshots')]
  <2>1. wire \in [Conns -> Seq(SoundSnapshots')]
    BY <1>1, TransitKept
  <2>2. Append(wire[k], draft[k]) \in Seq(SoundSnapshots')
    BY <1>3, <2>1
  <2> QED BY <1>4, <2>1, <2>2
<1>6. versions[scope[k]] \in Nat
  BY <1>1, <1>3 DEF StoreType
<1>7. HubType' /\ WriterType' /\ ClientType'
  BY <1>1, <1>4 DEF HubType, WriterType, ClientType, hubVars, writerVars, clientVars
<1>8. HandlerType'
  BY <1>1, <1>4 DEF HandlerType, Locations
<1>9. StreamType'
  BY <1>1, <1>3, <1>4, <1>5, <1>6, TransitTyped DEF StreamType
<1>10. ScopeInv'
  BY <1>1, <1>2, <1>4 DEF ScopeInv, HandlerType, Procs, writerVars, Building
<1>11. DraftInv'
  <2>1. pc'[k] \notin Drafting
    BY <1>1, <1>2, <1>4 DEF HandlerType, Drafting, Building
  <2>2. \A r \in Procs \ {k} :
          pc'[r] = pc[r] /\ scope'[r] = scope[r] /\ draft'[r] = draft[r]
    BY <1>1, <1>4 DEF HandlerType
  <2> QED BY <1>2, <2>1, <2>2, DraftFrame
<1>12. RingInv'
  BY <1>1, <1>2, <1>4, TransitKept DEF RingInv, hubVars, HandlerType, Procs
<1>13. TransitInv'
  BY <1>1, <1>2, <1>4, <1>5, TransitKept DEF TransitInv, writerVars, clientVars,
     HandlerType, Procs
<1> QED BY <1>7, <1>8, <1>9, <1>10, <1>11, <1>12, <1>13 DEF Rest

LEMMA DeliverStep ==
  ASSUME HonestInv, [Next]_vars, NEW k \in Conns, Deliver(k)
  PROVE  Rest'
<1>1. /\ HubType /\ HandlerType /\ WriterType /\ StreamType /\ ClientType
      /\ ScopeInv /\ RingInv /\ TransitInv /\ Carried
  BY NextCarries DEF HonestInv, TypeOK
<1>2. PICK msg \in SoundMessages' :
        msg = Head(ch[k]) /\ Tail(ch[k]) \in Seq(SoundMessages')
  <2>1. ch[k] \in Seq(SoundMessages') /\ ch[k] # <<>>
    BY <1>1, TransitKept DEF Deliver
  <2> QED BY <2>1, TailHead
<1>3. /\ ch' = [ch EXCEPT ![k] = Tail(@)]
      /\ UNCHANGED <<hubVars, pc, scope, draft, writerVars, from, sent, pending,
                     exact, up, clientVars, writes>>
  BY DEF Deliver, DeliverFrame
<1>4. \/ UNCHANGED <<wire, best>>
      \/ /\ wire' = [wire EXCEPT ![k] = Append(@, msg.snap)]
         /\ best' = [best EXCEPT ![k] = Newest(@, msg.snap)]
  BY <1>2 DEF Deliver
<1>5. msg.snap \in Snapshots /\ msg.snap \in SoundSnapshots'
  <2>1. msg \in Messages
    BY <1>1 DEF Carried
  <2> QED BY <2>1 DEF Messages, SoundMessages, SoundSnapshots
<1>6. ch' \in [Conns -> Seq(SoundMessages')]
  BY <1>1, <1>2, <1>3, TransitKept
<1>7. wire' \in [Conns -> Seq(SoundSnapshots')]
  <2>1. wire \in [Conns -> Seq(SoundSnapshots')]
    BY <1>1, TransitKept
  <2>2. Append(wire[k], msg.snap) \in Seq(SoundSnapshots')
    BY <1>5, <2>1
  <2> QED BY <1>4, <2>1, <2>2
<1>8. HubType'
  BY <1>1, <1>3, <1>6, TransitTyped DEF HubType, hubVars
<1>9. WriterType' /\ HandlerType' /\ ClientType'
  BY <1>1, <1>3 DEF HandlerType, WriterType, ClientType, writerVars, clientVars
<1>10. StreamType'
  <2>1. best' \in [Conns -> Snapshots \cup {Nil}]
    BY <1>1, <1>4, <1>5 DEF StreamType, Newest
  <2> QED BY <1>1, <1>3, <1>7, <2>1, TransitTyped DEF StreamType
<1>11. ScopeInv'
  BY <1>1, <1>3 DEF ScopeInv, writerVars
<1>12. DraftInv'
  BY <1>3, DraftKept DEF DraftInv
<1>13. RingInv'
  BY <1>1, <1>3, TransitKept DEF RingInv, hubVars
<1>14. TransitInv'
  BY <1>1, <1>3, <1>6, <1>7, TransitKept DEF TransitInv, writerVars, clientVars
<1> QED BY <1>8, <1>9, <1>10, <1>11, <1>12, <1>13, <1>14 DEF Rest

LEMMA DisconnectedStep ==
  ASSUME HonestInv, [Next]_vars, NEW k \in Conns, Disconnected(k)
  PROVE  Rest'
<1>1. /\ HubType /\ HandlerType /\ WriterType /\ StreamType /\ ClientType
      /\ ScopeInv /\ RingInv /\ TransitInv /\ Carried
  BY NextCarries DEF HonestInv, TypeOK
<1>2. k \in Procs /\ k \notin Writers /\ pc[k] = "loop"
  BY PropagationAssumption DEF Procs, Disconnected
<1>3. PICK e \in EnvKeys :
        /\ subs' = [subs EXCEPT ![e] = @ \ {k}]
        /\ active' = IF k \in subs[e] THEN active - 1 ELSE active
        /\ UNCHANGED <<rings, published>>
  <2>1. scope[k][2] \in EnvKeys
    BY <1>1, <1>2, ContentType DEF ScopeInv, HonestInv, TypeOK
  <2> QED BY <2>1 DEF Disconnected, Unsubscribe
<1>4. /\ pc' = [pc EXCEPT ![k] = "closed"]
      /\ ch' = [ch EXCEPT ![k] = <<>>]
      /\ UNCHANGED <<scope, draft, writerVars, streamVars, wire, up, clientVars,
                     writes>>
  BY DEF Disconnected
<1>5. ch' \in [Conns -> Seq(SoundMessages')]
  BY <1>1, <1>4, TransitKept
<1>6. HubType'
  BY <1>1, <1>3, <1>5, TransitTyped DEF HubType
<1>7. HandlerType'
  BY <1>1, <1>4 DEF HandlerType, Locations
<1>8. WriterType' /\ StreamType' /\ ClientType'
  BY <1>1, <1>4 DEF WriterType, StreamType, ClientType, writerVars, streamVars,
     clientVars
<1>9. ScopeInv'
  BY <1>1, <1>2, <1>4 DEF ScopeInv, HandlerType, Procs, writerVars, Building
<1>10. DraftInv'
  <2>1. pc'[k] \notin Drafting
    BY <1>1, <1>2, <1>4 DEF HandlerType, Drafting, Building
  <2>2. \A r \in Procs \ {k} :
          pc'[r] = pc[r] /\ scope'[r] = scope[r] /\ draft'[r] = draft[r]
    BY <1>1, <1>4 DEF HandlerType
  <2> QED BY <1>2, <2>1, <2>2, DraftFrame
<1>11. RingInv'
  BY <1>1, <1>2, <1>3, <1>4, TransitKept DEF RingInv, HandlerType, Procs
<1>12. TransitInv'
  BY <1>1, <1>2, <1>4, <1>5, TransitKept DEF TransitInv, writerVars, streamVars,
     clientVars, HandlerType, Procs
<1> QED BY <1>6, <1>7, <1>8, <1>9, <1>10, <1>11, <1>12 DEF Rest

-----------------------------------------------------------------------------
(***************************************************************************)
(* Build, by a management handler or by a stream handler.                   *)
(***************************************************************************)

\* All that a step of Build has to show is that its draft is as promised.
LEMMA BuildRest ==
  ASSUME HonestInv, [Next]_vars, NEW q \in Procs, pc[q] \in Building,
         pc'[q] \in Drafting,
         \A r \in Procs \ {q} : pc'[r] = pc[r] /\ draft'[r] = draft[r],
         pc' \in [Procs -> Locations], draft' \in [Procs -> Snapshots \cup {Nil}],
         UNCHANGED <<hubVars, ch, scope, writerVars, streamVars, wire, up, clientVars,
                     writes>>,
         DraftOK(q)'
  PROVE  Rest'
<1>1. /\ HubType /\ HandlerType /\ WriterType /\ StreamType /\ ClientType
      /\ ScopeInv /\ RingInv /\ TransitInv /\ Carried
  BY NextCarries DEF HonestInv, TypeOK
<1>2. HubType' /\ WriterType' /\ StreamType' /\ ClientType' /\ HandlerType'
  BY <1>1 DEF HubType, WriterType, StreamType, ClientType, HandlerType, hubVars,
     writerVars, streamVars, clientVars
<1>3. ScopeInv'
  BY <1>1 DEF ScopeInv, Procs, writerVars, Building, Drafting
<1>4. DraftInv'
  BY DraftFrame
<1>5. RingInv'
  BY <1>1, TransitKept DEF RingInv, hubVars, Procs, Building, Drafting
<1>6. TransitInv'
  <2>1. ASSUME NEW w \in Writers, targets'[w] # {} PROVE draft'[w] \in SoundSnapshots'
    <3>1. targets[w] # {}
      BY <2>1 DEF writerVars
    <3>2. w # q
      BY <1>1, <3>1 DEF ScopeInv, Building
    <3> QED BY <1>1, <3>1, <3>2, TransitKept DEF Procs
  <2>2. \A j \in Conns : pc'[j] = "replaying" => pending'[j] # <<>>
    BY <1>1 DEF TransitInv, Procs, streamVars, Building, Drafting
  <2> QED BY <1>1, <2>1, <2>2, TransitKept DEF TransitInv, streamVars, clientVars
<1> QED BY <1>2, <1>3, <1>4, <1>5, <1>6 DEF Rest

LEMMA BuildGetEnvVersionStep ==
  ASSUME HonestInv, [Next]_vars, NEW q \in Procs, BuildGetEnvVersion(q)
  PROVE  Rest'
<1>1. StoreType /\ HandlerType /\ ScopeInv
  BY DEF HonestInv, TypeOK
<1>2. /\ pc[q] = "build"
      /\ pc' = [pc EXCEPT ![q] = "flags"]
      /\ draft' = [draft EXCEPT ![q] = NewSnapshot(scope[q], versions[scope[q]])]
      /\ UNCHANGED <<storeVars, hubVars, ch, scope, writerVars, streamVars, wire, up,
                     clientVars, writes>>
  BY DEF BuildGetEnvVersion, BuildStep
<1>3. PICK s \in Scopes : s = scope[q]
  BY <1>1, <1>2 DEF ScopeInv, Building, Procs
<1>4. PICK x : x = NewSnapshot(s, versions[s])
  OBVIOUS
<1>5. /\ x \in Snapshots
      /\ ScopeOf(x) = s
      /\ x.version = versions[s]
      /\ versions[s] \in Nat
      /\ AtLeast(Content(s), ContentOf(x))
  <2>1. /\ s[1] \in Projects /\ s[2] \in EnvKeys /\ s = <<s[1], s[2]>>
        /\ Content(s) \in Contents /\ versions[s] \in Nat
    BY <1>1, ContentType DEF StoreType
  <2>2. /\ x.project = s[1] /\ x.env = s[2] /\ x.version = versions[s]
        /\ x.flags = 0 /\ x.segments = 0 /\ x.config = 0
    BY <1>4 DEF NewSnapshot
  <2>3. x \in Snapshots
    BY <1>4, <2>1 DEF NewSnapshot, Snapshots
  <2>4. ScopeOf(x) = s
    BY <2>1, <2>2 DEF ScopeOf
  <2>5. AtLeast(Content(s), ContentOf(x))
    BY <2>1, <2>2 DEF AtLeast, ContentOf, Contents
  <2> QED BY <2>1, <2>2, <2>3, <2>4, <2>5
<1>6. /\ pc'[q] = "flags" /\ scope'[q] = s /\ draft'[q] = x
      /\ versions' = versions /\ Content(s)' = Content(s)
  BY <1>1, <1>2, <1>3, <1>4 DEF HandlerType, storeVars, Content
<1>7. DraftOK(q)'
  BY <1>5, <1>6 DEF DraftOK, ScopeOf, ContentOf, Content
<1>8. pc' \in [Procs -> Locations] /\ draft' \in [Procs -> Snapshots \cup {Nil}]
  BY <1>1, <1>2, <1>3, <1>4, <1>5 DEF HandlerType, Locations
<1>9. \A r \in Procs \ {q} : pc'[r] = pc[r] /\ draft'[r] = draft[r]
  BY <1>1, <1>2 DEF HandlerType
<1>10. pc[q] \in Building /\ pc'[q] \in Drafting
  BY <1>2, <1>6 DEF Building, Drafting
<1> QED BY <1>2, <1>7, <1>8, <1>9, <1>10, BuildRest

\* The draft before a later step of Build, and what the store promises.
LEMMA BuildSoFar ==
  ASSUME HonestInv, NEW q \in Procs, pc[q] \in Drafting
  PROVE  /\ scope[q] \in Scopes
         /\ DraftOK(q)
         /\ scope[q][1] \in Projects
         /\ flags[scope[q][1]] \in Nat
         /\ segments[scope[q][1]] \in Nat
         /\ configs[scope[q]] \in Nat
         /\ \A v \in 1 .. draft[q].version :
              /\ flags[scope[q][1]] >= committed[scope[q]][v].flags
              /\ segments[scope[q][1]] >= committed[scope[q]][v].segments
              /\ configs[scope[q]] >= committed[scope[q]][v].config
<1>1. StoreType /\ ScopeInv /\ DraftInv /\ HistoryInv
  BY DEF HonestInv, TypeOK
<1>2. scope[q] \in Scopes /\ DraftOK(q)
  BY <1>1 DEF ScopeInv, DraftInv, Drafting, Building, Procs
<1>3. scope[q][1] \in Projects
  BY <1>1, <1>2, ContentType
<1>4. ASSUME NEW v \in 1 .. draft[q].version
      PROVE  AtLeast(Content(scope[q]), committed[scope[q]][v])
  <2>1. draft[q].version \in Nat /\ versions[scope[q]] \in Nat
    BY <1>1, <1>2, ContentOfType DEF DraftOK, StoreType
  <2>2. v \in 1 .. versions[scope[q]]
    BY <1>2, <2>1 DEF DraftOK
  <2> QED BY <1>1, <1>2, <2>2 DEF HistoryInv
<1>5. /\ flags[scope[q][1]] \in Nat
      /\ segments[scope[q][1]] \in Nat
      /\ configs[scope[q]] \in Nat
  BY <1>1, <1>2, <1>3 DEF StoreType
<1> QED BY <1>2, <1>3, <1>4, <1>5 DEF AtLeast, Content

LEMMA BuildListFlagsStep ==
  ASSUME HonestInv, [Next]_vars, NEW q \in Procs, BuildListFlags(q)
  PROVE  Rest'
<1>1. HandlerType
  BY DEF HonestInv, TypeOK
<1>2. PICK x : /\ x = [draft[q] EXCEPT !.flags = flags[scope[q][1]]]
               /\ pc[q] = "flags"
               /\ pc' = [pc EXCEPT ![q] = "segments"]
               /\ draft' = [draft EXCEPT ![q] = x]
               /\ UNCHANGED <<storeVars, hubVars, ch, scope, writerVars, streamVars,
                              wire, up, clientVars, writes>>
  BY DEF BuildListFlags, BuildStep
<1>3. pc[q] \in Drafting /\ pc[q] \in Building
  BY <1>2 DEF Drafting, Building
<1>4. /\ scope[q] \in Scopes
      /\ DraftOK(q)
      /\ flags[scope[q][1]] \in Nat
      /\ \A v \in 1 .. draft[q].version :
           flags[scope[q][1]] >= committed[scope[q]][v].flags
  BY <1>3, BuildSoFar
<1>5. /\ x \in Snapshots
      /\ ScopeOf(x) = ScopeOf(draft[q])
      /\ x.version = draft[q].version
      /\ x.flags = flags[scope[q][1]]
      /\ x.segments = draft[q].segments
      /\ x.config = draft[q].config
  BY <1>2, <1>4 DEF DraftOK, Snapshots, ScopeOf
<1>6. /\ pc'[q] = "segments" /\ scope'[q] = scope[q] /\ draft'[q] = x
      /\ UNCHANGED <<versions, committed, flags, segments, configs>>
  BY <1>1, <1>2 DEF HandlerType, storeVars
<1>7. AtLeast(Content(scope[q]), ContentOf(x))
  BY <1>4, <1>5 DEF DraftOK, AtLeast, Content, ContentOf
<1>8. \A v \in 1 .. x.version : x.flags >= committed[scope[q]][v].flags
  BY <1>4, <1>5
<1>9. DraftOK(q)'
  BY <1>4, <1>5, <1>6, <1>7, <1>8 DEF DraftOK, ScopeOf, ContentOf, Content
<1>10. pc' \in [Procs -> Locations] /\ draft' \in [Procs -> Snapshots \cup {Nil}]
  BY <1>1, <1>2, <1>5 DEF HandlerType, Locations
<1>11. \A r \in Procs \ {q} : pc'[r] = pc[r] /\ draft'[r] = draft[r]
  BY <1>1, <1>2 DEF HandlerType
<1>12. pc'[q] \in Drafting
  BY <1>6 DEF Drafting, Building
<1> QED BY <1>2, <1>3, <1>9, <1>10, <1>11, <1>12, BuildRest

LEMMA BuildListSegmentsStep ==
  ASSUME HonestInv, [Next]_vars, NEW q \in Procs, BuildListSegments(q)
  PROVE  Rest'
<1>1. HandlerType
  BY DEF HonestInv, TypeOK
<1>2. PICK x : /\ x = [draft[q] EXCEPT !.segments = segments[scope[q][1]]]
               /\ pc[q] = "segments"
               /\ pc' = [pc EXCEPT ![q] = "config"]
               /\ draft' = [draft EXCEPT ![q] = x]
               /\ UNCHANGED <<storeVars, hubVars, ch, scope, writerVars, streamVars,
                              wire, up, clientVars, writes>>
  BY DEF BuildListSegments, BuildStep
<1>3. pc[q] \in Drafting /\ pc[q] \in Building
  BY <1>2 DEF Drafting, Building
<1>4. /\ scope[q] \in Scopes
      /\ DraftOK(q)
      /\ segments[scope[q][1]] \in Nat
      /\ \A v \in 1 .. draft[q].version :
           segments[scope[q][1]] >= committed[scope[q]][v].segments
  BY <1>3, BuildSoFar
<1>5. /\ x \in Snapshots
      /\ ScopeOf(x) = ScopeOf(draft[q])
      /\ x.version = draft[q].version
      /\ x.flags = draft[q].flags
      /\ x.segments = segments[scope[q][1]]
      /\ x.config = draft[q].config
  BY <1>2, <1>4 DEF DraftOK, Snapshots, ScopeOf
<1>6. /\ pc'[q] = "config" /\ scope'[q] = scope[q] /\ draft'[q] = x
      /\ UNCHANGED <<versions, committed, flags, segments, configs>>
  BY <1>1, <1>2 DEF HandlerType, storeVars
<1>7. AtLeast(Content(scope[q]), ContentOf(x))
  BY <1>4, <1>5 DEF DraftOK, AtLeast, Content, ContentOf
<1>8. \A v \in 1 .. x.version :
        /\ x.flags >= committed[scope[q]][v].flags
        /\ x.segments >= committed[scope[q]][v].segments
  BY <1>2, <1>4, <1>5 DEF DraftOK
<1>9. DraftOK(q)'
  BY <1>4, <1>5, <1>6, <1>7, <1>8 DEF DraftOK, ScopeOf, ContentOf, Content
<1>10. pc' \in [Procs -> Locations] /\ draft' \in [Procs -> Snapshots \cup {Nil}]
  BY <1>1, <1>2, <1>5 DEF HandlerType, Locations
<1>11. \A r \in Procs \ {q} : pc'[r] = pc[r] /\ draft'[r] = draft[r]
  BY <1>1, <1>2 DEF HandlerType
<1>12. pc'[q] \in Drafting
  BY <1>6 DEF Drafting, Building
<1> QED BY <1>2, <1>3, <1>9, <1>10, <1>11, <1>12, BuildRest

LEMMA BuildGetFlagConfigStep ==
  ASSUME HonestInv, [Next]_vars, NEW q \in Procs, BuildGetFlagConfig(q)
  PROVE  Rest'
<1>1. HandlerType
  BY DEF HonestInv, TypeOK
<1>2. PICK x : /\ x = [draft[q] EXCEPT !.config = configs[scope[q]]]
               /\ pc[q] = "config"
               /\ pc' = [pc EXCEPT ![q] = "built"]
               /\ draft' = [draft EXCEPT ![q] = x]
               /\ UNCHANGED <<storeVars, hubVars, ch, scope, writerVars, streamVars,
                              wire, up, clientVars, writes>>
  BY DEF BuildGetFlagConfig, BuildStep
<1>3. pc[q] \in Drafting /\ pc[q] \in Building
  BY <1>2 DEF Drafting, Building
<1>4. /\ scope[q] \in Scopes
      /\ DraftOK(q)
      /\ configs[scope[q]] \in Nat
      /\ \A v \in 1 .. draft[q].version :
           configs[scope[q]] >= committed[scope[q]][v].config
  BY <1>3, BuildSoFar
<1>5. /\ x \in Snapshots
      /\ ScopeOf(x) = ScopeOf(draft[q])
      /\ x.version = draft[q].version
      /\ x.flags = draft[q].flags
      /\ x.segments = draft[q].segments
      /\ x.config = configs[scope[q]]
  BY <1>2, <1>4 DEF DraftOK, Snapshots, ScopeOf
<1>6. /\ pc'[q] = "built" /\ scope'[q] = scope[q] /\ draft'[q] = x
      /\ UNCHANGED <<versions, committed, flags, segments, configs>>
  BY <1>1, <1>2 DEF HandlerType, storeVars
<1>7. AtLeast(Content(scope[q]), ContentOf(x))
  BY <1>4, <1>5 DEF DraftOK, AtLeast, Content, ContentOf
<1>8. \A v \in 1 .. x.version :
        /\ x.flags >= committed[scope[q]][v].flags
        /\ x.segments >= committed[scope[q]][v].segments
        /\ x.config >= committed[scope[q]][v].config
  BY <1>2, <1>4, <1>5 DEF DraftOK
<1>9. DraftOK(q)'
  BY <1>4, <1>5, <1>6, <1>7, <1>8 DEF DraftOK, ScopeOf, ContentOf, Content
<1>10. pc' \in [Procs -> Locations] /\ draft' \in [Procs -> Snapshots \cup {Nil}]
  BY <1>1, <1>2, <1>5 DEF HandlerType, Locations
<1>11. \A r \in Procs \ {q} : pc'[r] = pc[r] /\ draft'[r] = draft[r]
  BY <1>1, <1>2 DEF HandlerType
<1>12. pc'[q] \in Drafting
  BY <1>6 DEF Drafting, Building
<1> QED BY <1>2, <1>3, <1>9, <1>10, <1>11, <1>12, BuildRest

-----------------------------------------------------------------------------
(***************************************************************************)
(* The management handler.                                                  *)
(***************************************************************************)
LEMMA RequestStep ==
  ASSUME HonestInv, [Next]_vars, NEW w \in Writers, NEW p \in Projects,
         NEW envs \in SUBSET EnvsOf(p), Request(w, p, envs)
  PROVE  Rest'
<1>1. /\ HubType /\ HandlerType /\ WriterType /\ StreamType /\ ClientType
      /\ ScopeInv /\ RingInv /\ TransitInv /\ Carried
  BY NextCarries DEF HonestInv, TypeOK
<1>2. w \in Procs /\ w \notin Conns
  BY PropagationAssumption DEF Procs
<1>3. /\ pc[w] = "idle"
      /\ writes < MaxWrites
      /\ writes' = writes + 1
      /\ pc' = [pc EXCEPT ![w] = "publishing"]
      /\ scope' = [scope EXCEPT ![w] = <<p, Nil>>]
      /\ todo' = [todo EXCEPT ![w] = envs]
      /\ UNCHANGED <<hubVars, ch, draft, msgVersion, targets, slow, streamVars, wire,
                     up, clientVars>>
  BY DEF Request
<1>4. envs \subseteq EnvKeys /\ \A e \in envs : <<p, e>> \in Scopes
  BY DEF EnvsOf
<1>5. HubType' /\ StreamType' /\ ClientType'
  BY <1>1, <1>3 DEF HubType, StreamType, ClientType, hubVars, streamVars, clientVars
<1>6. WriterType'
  BY <1>1, <1>3, <1>4, PropagationAssumption DEF WriterType
<1>7. HandlerType'
  BY <1>1, <1>3 DEF HandlerType, Locations
<1>8. ScopeInv'
  BY <1>1, <1>2, <1>3, <1>4 DEF ScopeInv, HandlerType, WriterType, Procs, Building
<1>9. DraftInv'
  <2>1. pc'[w] \notin Drafting
    BY <1>1, <1>2, <1>3 DEF HandlerType, Drafting, Building
  <2>2. \A r \in Procs \ {w} :
          pc'[r] = pc[r] /\ scope'[r] = scope[r] /\ draft'[r] = draft[r]
    BY <1>1, <1>3 DEF HandlerType
  <2> QED BY <1>2, <2>1, <2>2, DraftFrame
<1>10. RingInv'
  BY <1>1, <1>2, <1>3, TransitKept DEF RingInv, hubVars, HandlerType, Procs
<1>11. TransitInv'
  BY <1>1, <1>2, <1>3, TransitKept DEF TransitInv, streamVars, clientVars,
     HandlerType, Procs
<1> QED BY <1>5, <1>6, <1>7, <1>8, <1>9, <1>10, <1>11 DEF Rest

LEMMA NewRequestStep ==
  ASSUME HonestInv, [Next]_vars, NEW w \in Writers, NewRequest(w)
  PROVE  Rest'
<1>1. PICK p \in Projects :
        \/ \E e \in EnvKeys : PutFlagConfig(w, p, e)
        \/ ChangeFlags(w, p)
        \/ ChangeSegments(w, p)
  BY DEF NewRequest
<1>2. ASSUME NEW e \in EnvKeys, PutFlagConfig(w, p, e) PROVE Rest'
  <2>1. {e} \in SUBSET EnvsOf(p) /\ Request(w, p, {e})
    BY <1>2 DEF PutFlagConfig, EnvsOf
  <2> QED BY <2>1, RequestStep
<1>3. CASE ChangeFlags(w, p) \/ ChangeSegments(w, p)
  <2>1. Request(w, p, EnvsOf(p))
    BY <1>3 DEF ChangeFlags, ChangeSegments
  <2> QED BY <2>1, RequestStep
<1> QED BY <1>1, <1>2, <1>3

LEMMA IncrementEnvVersionStep ==
  ASSUME HonestInv, [Next]_vars, NEW w \in Writers, NEW e \in EnvKeys,
         IncrementEnvVersion(w, e)
  PROVE  Rest'
<1>1. /\ HubType /\ HandlerType /\ WriterType /\ StreamType /\ ClientType
      /\ ScopeInv /\ RingInv /\ TransitInv /\ Carried /\ StoreType
  BY NextCarries DEF HonestInv, TypeOK
<1>2. w \in Procs /\ w \notin Conns /\ pc[w] = "publishing" /\ targets[w] = {}
  BY PropagationAssumption DEF Procs, IncrementEnvVersion, PublishReturned
<1>3. PICK s \in Scopes : s = <<scope[w][1], e>>
  BY <1>1 DEF ScopeInv, IncrementEnvVersion
<1>4. /\ e \in todo[w]
      /\ todo' = [todo EXCEPT ![w] = @ \ {e}]
      /\ scope' = [scope EXCEPT ![w] = s]
      /\ msgVersion' = [msgVersion EXCEPT ![w] = versions[s] + 1]
      /\ pc' = [pc EXCEPT ![w] = "build"]
      /\ UNCHANGED <<hubVars, ch, draft, targets, slow, streamVars, wire, up,
                     clientVars, writes>>
  BY <1>3 DEF IncrementEnvVersion
<1>5. s \in Projects \X EnvKeys /\ s[1] = scope[w][1] /\ versions[s] \in Nat
  BY <1>1, <1>3, PropagationAssumption DEF StoreType
<1>6. HubType' /\ StreamType' /\ ClientType'
  BY <1>1, <1>4 DEF HubType, StreamType, ClientType, hubVars, streamVars, clientVars
<1>7. WriterType'
  BY <1>1, <1>4, <1>5 DEF WriterType
<1>8. HandlerType'
  BY <1>1, <1>4, <1>5 DEF HandlerType, Locations
<1>9. ScopeInv'
  <2>1. \A k \in Conns : pc'[k] # "idle" => scope'[k] \in Scopes
    BY <1>1, <1>2, <1>4 DEF ScopeInv, HandlerType, Procs
  <2>2. ASSUME NEW v \in Writers
        PROVE  /\ pc'[v] # "idle" =>
                     /\ scope'[v] \in Projects \X (EnvKeys \cup {Nil})
                     /\ \A f \in todo'[v] : <<scope'[v][1], f>> \in Scopes
               /\ pc'[v] \in Building => scope'[v] \in Scopes
               /\ pc'[v] # "publishing" => targets'[v] = {}
    <3>1. CASE v = w
      <4>1. scope'[v] = s /\ todo'[v] = todo[v] \ {e} /\ targets'[v] = {}
        BY <1>1, <1>2, <1>4, <3>1 DEF HandlerType, WriterType
      <4>2. \A f \in todo'[v] : <<scope'[v][1], f>> \in Scopes
        BY <1>1, <1>2, <1>5, <3>1, <4>1 DEF ScopeInv
      <4> QED BY <1>5, <4>1, <4>2
    <3>2. CASE v # w
      BY <1>1, <1>2, <1>4, <3>2 DEF ScopeInv, HandlerType, WriterType, Procs
    <3> QED BY <3>1, <3>2
  <2> QED BY <2>1, <2>2 DEF ScopeInv
<1>10. DraftInv'
  <2>1. pc'[w] \notin Drafting
    BY <1>1, <1>2, <1>4 DEF HandlerType, Drafting, Building
  <2>2. \A r \in Procs \ {w} :
          pc'[r] = pc[r] /\ scope'[r] = scope[r] /\ draft'[r] = draft[r]
    BY <1>1, <1>4 DEF HandlerType
  <2> QED BY <1>2, <2>1, <2>2, DraftFrame
<1>11. RingInv'
  BY <1>1, <1>2, <1>4, TransitKept DEF RingInv, hubVars, HandlerType, Procs
<1>12. TransitInv'
  BY <1>1, <1>2, <1>4, TransitKept DEF TransitInv, streamVars, clientVars,
     HandlerType, Procs
<1> QED BY <1>6, <1>7, <1>8, <1>9, <1>10, <1>11, <1>12 DEF Rest

LEMMA RespondStep ==
  ASSUME HonestInv, [Next]_vars, NEW w \in Writers, Respond(w)
  PROVE  Rest'
<1>1. /\ HubType /\ HandlerType /\ WriterType /\ StreamType /\ ClientType
      /\ ScopeInv /\ RingInv /\ TransitInv /\ Carried
  BY NextCarries DEF HonestInv, TypeOK
<1>2. w \in Procs /\ w \notin Conns /\ targets[w] = {}
  BY PropagationAssumption DEF Procs, Respond, PublishReturned
<1>3. /\ pc' = [pc EXCEPT ![w] = "idle"]
      /\ scope' = [scope EXCEPT ![w] = Nil]
      /\ draft' = [draft EXCEPT ![w] = Nil]
      /\ msgVersion' = [msgVersion EXCEPT ![w] = 0]
      /\ UNCHANGED <<hubVars, ch, todo, targets, slow, streamVars, wire, up,
                     clientVars, writes>>
  BY DEF Respond
<1>4. HubType' /\ StreamType' /\ ClientType'
  BY <1>1, <1>3 DEF HubType, StreamType, ClientType, hubVars, streamVars, clientVars
<1>5. WriterType' /\ HandlerType'
  BY <1>1, <1>3 DEF WriterType, HandlerType, Locations
<1>6. ScopeInv'
  BY <1>1, <1>2, <1>3 DEF ScopeInv, HandlerType, Procs, Building
<1>7. DraftInv'
  <2>1. pc'[w] \notin Drafting
    BY <1>1, <1>2, <1>3 DEF HandlerType, Drafting, Building
  <2>2. \A r \in Procs \ {w} :
          pc'[r] = pc[r] /\ scope'[r] = scope[r] /\ draft'[r] = draft[r]
    BY <1>1, <1>3 DEF HandlerType
  <2> QED BY <1>2, <2>1, <2>2, DraftFrame
<1>8. RingInv'
  BY <1>1, <1>2, <1>3, TransitKept DEF RingInv, hubVars, HandlerType, Procs
<1>9. TransitInv'
  BY <1>1, <1>2, <1>3, TransitKept DEF TransitInv, streamVars, clientVars,
     HandlerType, Procs
<1> QED BY <1>4, <1>5, <1>6, <1>7, <1>8, <1>9 DEF Rest

LEMMA PublishStep ==
  ASSUME HonestInv, [Next]_vars, NEW w \in Writers, Publish(w)
  PROVE  Rest'
<1>1. /\ HubType /\ HandlerType /\ WriterType /\ StreamType /\ ClientType
      /\ ScopeInv /\ RingInv /\ TransitInv /\ Carried
  BY NextCarries DEF HonestInv, TypeOK
<1>2. w \in Procs /\ w \notin Conns /\ pc[w] = "built"
  BY PropagationAssumption DEF Procs, Publish
<1>3. draft[w] \in SoundSnapshots' /\ draft[w] \in Snapshots /\ scope[w] \in Scopes
  BY <1>1, <1>2, BuiltIsSound DEF Carried
<1>4. PICK e \in EnvKeys : e = scope[w][2]
  BY <1>3, ContentType DEF HonestInv, TypeOK
<1>5. PICK msg : msg = Message(msgVersion[w], draft[w])
  OBVIOUS
<1>6. /\ msg \in Messages
      /\ msg \in SoundMessages'
      /\ msg.version \in Nat
  <2>1. msg.version = msgVersion[w] /\ msg.snap = draft[w] /\ msgVersion[w] \in Nat
    BY <1>1, <1>5 DEF Message, WriterType
  <2>2. msg \in Messages
    BY <1>3, <1>5, <2>1 DEF Message, Messages
  <2> QED BY <1>3, <2>1, <2>2 DEF SoundMessages, SoundSnapshots, Messages, Snapshots
<1>7. /\ rings' = [rings EXCEPT ![e] = IF @ = Nil THEN Nil ELSE RingAppend(@, msg)]
      /\ published' = [published EXCEPT ![scope[w]] =
                          IF msg.version > @ THEN msg.version ELSE @]
      /\ targets' = [targets EXCEPT ![w] = subs[e]]
      /\ pc' = [pc EXCEPT ![w] = "publishing"]
      /\ UNCHANGED <<subs, active, ch, scope, draft, todo, msgVersion, slow,
                     streamVars, wire, up, clientVars, writes>>
  BY <1>4, <1>5 DEF Publish
<1>8. rings[e] # Nil =>
        /\ RingAppend(rings[e], msg) \in Rings
        /\ RingHolds(RingAppend(rings[e], msg), SoundMessages')
  BY <1>1, <1>6, TransitKept, RingAppendType, RingAppendHolds DEF HubType
<1>9. HubType'
  <2>1. rings' \in [EnvKeys -> Rings \cup {Nil}]
    BY <1>1, <1>7, <1>8 DEF HubType
  <2>2. published' \in [Scopes -> Nat]
    BY <1>1, <1>3, <1>6, <1>7 DEF HubType
  <2> QED BY <1>1, <1>7, <2>1, <2>2 DEF HubType
<1>10. StreamType' /\ ClientType'
  BY <1>1, <1>7 DEF StreamType, ClientType, streamVars, clientVars
<1>11. WriterType' /\ HandlerType'
  BY <1>1, <1>7 DEF WriterType, HandlerType, HubType, Locations
<1>12. ScopeInv'
  BY <1>1, <1>2, <1>7 DEF ScopeInv, HandlerType, WriterType, Procs, Building
<1>13. DraftInv'
  <2>1. pc'[w] \notin Drafting
    BY <1>1, <1>2, <1>7 DEF HandlerType, Drafting, Building
  <2>2. \A r \in Procs \ {w} :
          pc'[r] = pc[r] /\ scope'[r] = scope[r] /\ draft'[r] = draft[r]
    BY <1>1, <1>7 DEF HandlerType
  <2> QED BY <1>2, <2>1, <2>2, DraftFrame
<1>14. RingInv'
  <2>1. \A f \in EnvKeys : rings'[f] # Nil => RingHolds(rings'[f], SoundMessages')
    BY <1>1, <1>7, <1>8, TransitKept DEF HubType
  <2>2. \A f \in EnvKeys : rings[f] # Nil => rings'[f] # Nil
    BY <1>1, <1>7, <1>8, NilAssumption DEF HubType
  <2>3. ASSUME NEW k \in Conns, pc'[k] = "replay" PROVE rings'[scope'[k][2]] # Nil
    <3>1. pc[k] = "replay" /\ scope'[k] = scope[k]
      BY <1>1, <1>2, <1>7, <2>3 DEF HandlerType, Procs
    <3>2. scope[k][2] \in EnvKeys
      BY <1>1, <3>1, ContentType DEF ScopeInv, HonestInv, TypeOK
    <3> QED BY <1>1, <2>2, <3>1, <3>2 DEF RingInv
  <2> QED BY <2>1, <2>3 DEF RingInv
<1>15. TransitInv'
  <2>1. \A v \in Writers : targets'[v] # {} => draft'[v] \in SoundSnapshots'
    BY <1>1, <1>3, <1>7, TransitKept DEF WriterType
  <2> QED BY <1>1, <1>2, <1>7, <2>1, TransitKept DEF TransitInv, streamVars,
             clientVars, HandlerType, Procs
<1> QED BY <1>9, <1>10, <1>11, <1>12, <1>13, <1>14, <1>15 DEF Rest

LEMMA SendStep ==
  ASSUME HonestInv, [Next]_vars, NEW w \in Writers, NEW k \in Conns, Send(w, k)
  PROVE  Rest'
<1>1. /\ HubType /\ HandlerType /\ WriterType /\ StreamType /\ ClientType
      /\ ScopeInv /\ RingInv /\ TransitInv /\ Carried
  BY NextCarries DEF HonestInv, TypeOK
<1>2. k \in targets[w] /\ draft[w] \in SoundSnapshots'
  BY <1>1, TransitKept DEF Send
<1>3. PICK msg : msg = Message(msgVersion[w], draft[w])
  OBVIOUS
<1>4. msg \in SoundMessages'
  <2>1. msg.version = msgVersion[w] /\ msg.snap = draft[w] /\ msgVersion[w] \in Nat
    BY <1>1, <1>3 DEF Message, WriterType
  <2>2. msg \in Messages
    BY <1>1, <1>2, <1>3, <2>1 DEF Message, Messages, Carried
  <2> QED BY <1>2, <2>1, <2>2 DEF SoundMessages, SoundSnapshots, Messages, Snapshots
<1>5. /\ targets' = [targets EXCEPT ![w] = @ \ {k}]
      /\ UNCHANGED <<hubVars, pc, scope, draft, todo, msgVersion, streamVars, wire, up,
                     clientVars, writes>>
      /\ pc[w] = "publishing"
  BY DEF Send
<1>6. \/ ch' = [ch EXCEPT ![k] = Append(@, msg)] /\ slow' = slow
      \/ ch' = ch /\ slow' = [slow EXCEPT ![w] = @ \cup {k}]
  BY <1>3 DEF Send
<1>7. ch' \in [Conns -> Seq(SoundMessages')]
  <2>1. ch \in [Conns -> Seq(SoundMessages')]
    BY <1>1, TransitKept
  <2>2. Append(ch[k], msg) \in Seq(SoundMessages')
    BY <1>4, <2>1
  <2> QED BY <1>6, <2>1, <2>2
<1>8. HubType'
  BY <1>1, <1>5, <1>7, TransitTyped DEF HubType, hubVars
<1>9. StreamType' /\ ClientType' /\ HandlerType'
  BY <1>1, <1>5 DEF StreamType, ClientType, HandlerType, streamVars, clientVars
<1>10. WriterType'
  <2>1. slow' \in [Writers -> SUBSET Conns]
    BY <1>1, <1>6 DEF WriterType
  <2> QED BY <1>1, <1>5, <2>1 DEF WriterType
<1>11. ScopeInv'
  BY <1>1, <1>5 DEF ScopeInv, WriterType
<1>12. DraftInv'
  BY <1>5, DraftKept DEF DraftInv
<1>13. RingInv'
  BY <1>1, <1>5, TransitKept DEF RingInv, hubVars
<1>14. TransitInv'
  <2>1. \A v \in Writers : targets'[v] # {} => draft'[v] \in SoundSnapshots'
    BY <1>1, <1>2, <1>5, TransitKept DEF WriterType
  <2> QED BY <1>1, <1>5, <1>7, <2>1, TransitKept DEF TransitInv, streamVars, clientVars
<1> QED BY <1>8, <1>9, <1>10, <1>11, <1>12, <1>13, <1>14 DEF Rest

LEMMA UnsubscribeSlowStep ==
  ASSUME HonestInv, [Next]_vars, NEW w \in Writers, NEW k \in Conns,
         UnsubscribeSlow(w, k)
  PROVE  Rest'
<1>1. /\ HubType /\ HandlerType /\ WriterType /\ StreamType /\ ClientType
      /\ ScopeInv /\ RingInv /\ TransitInv /\ Carried
  BY NextCarries DEF HonestInv, TypeOK
<1>2. PICK e : /\ subs' = [subs EXCEPT ![e] = @ \ {k}]
               /\ active' = IF k \in subs[e] THEN active - 1 ELSE active
               /\ UNCHANGED <<rings, published>>
  BY DEF UnsubscribeSlow, Unsubscribe
<1>3. /\ slow' = [slow EXCEPT ![w] = @ \ {k}]
      /\ UNCHANGED <<ch, pc, scope, draft, todo, msgVersion, targets, streamVars, wire,
                     up, clientVars, writes>>
  BY DEF UnsubscribeSlow
<1>4. HubType'
  <2>1. subs' \in [EnvKeys -> SUBSET Conns]
    BY <1>1, <1>2 DEF HubType
  <2>2. active' \in Int
    BY <1>1, <1>2 DEF HubType
  <2> QED BY <1>1, <1>2, <1>3, <2>1, <2>2 DEF HubType
<1>5. StreamType' /\ ClientType' /\ HandlerType' /\ WriterType'
  BY <1>1, <1>3 DEF StreamType, ClientType, HandlerType, WriterType, streamVars,
     clientVars
<1>6. ScopeInv'
  BY <1>1, <1>3 DEF ScopeInv
<1>7. DraftInv'
  BY <1>3, DraftKept DEF DraftInv
<1>8. RingInv'
  BY <1>1, <1>2, <1>3, TransitKept DEF RingInv
<1>9. TransitInv'
  BY <1>1, <1>3, TransitKept DEF TransitInv, streamVars, clientVars
<1> QED BY <1>4, <1>5, <1>6, <1>7, <1>8, <1>9 DEF Rest

-----------------------------------------------------------------------------
LEMMA StutterStep ==
  ASSUME HonestInv, UNCHANGED vars
  PROVE  Rest'
<1>1. [Next]_vars
  OBVIOUS
<1>2. /\ HubType /\ HandlerType /\ WriterType /\ StreamType /\ ClientType
      /\ ScopeInv /\ RingInv /\ TransitInv /\ Carried
  BY <1>1, NextCarries DEF HonestInv, TypeOK
<1>3. UNCHANGED <<hubVars, ch, pc, scope, draft, writerVars, streamVars, wire, up,
                  clientVars, writes>>
  BY DEF vars
<1>4. HubType' /\ StreamType' /\ ClientType' /\ HandlerType' /\ WriterType'
  BY <1>2, <1>3 DEF HubType, StreamType, ClientType, HandlerType, WriterType, hubVars,
     writerVars, streamVars, clientVars
<1>5. ScopeInv'
  BY <1>2, <1>3 DEF ScopeInv, writerVars
<1>6. DraftInv'
  BY <1>1, <1>3, DraftKept DEF DraftInv
<1>7. RingInv'
  BY <1>2, <1>3, TransitKept DEF RingInv, hubVars
<1>8. TransitInv'
  BY <1>2, <1>3, TransitKept DEF TransitInv, streamVars, clientVars, writerVars
<1> QED BY <1>4, <1>5, <1>6, <1>7, <1>8 DEF Rest

LEMMA BuildsStep ==
  ASSUME HonestInv, [Next]_vars, NEW q \in Procs, Build(q)
  PROVE  Rest'
BY BuildGetEnvVersionStep, BuildListFlagsStep, BuildListSegmentsStep,
   BuildGetFlagConfigStep DEF Build

LEMMA HonestInit ==
  ASSUME Init
  PROVE  HonestInv
<1> USE DEF Init
<1>1. StoreType
  BY DEF StoreType
<1>2. HubType
  BY DEF HubType
<1>3. HandlerType /\ WriterType
  BY PropagationAssumption DEF HandlerType, WriterType, Locations
<1>4. StreamType /\ ClientType
  BY PropagationAssumption DEF StreamType, ClientType
<1>5. HistoryInv
  BY DEF HistoryInv
<1>6. ScopeInv
  BY DEF ScopeInv, Procs, Building
<1>7. DraftInv
  BY DEF DraftInv, Drafting, Building
<1>8. RingInv
  BY DEF RingInv, Procs
<1>9. TransitInv
  BY DEF TransitInv, Procs
<1> QED BY <1>1, <1>2, <1>3, <1>4, <1>5, <1>6, <1>7, <1>8, <1>9 DEF HonestInv, TypeOK

LEMMA HonestNext ==
  ASSUME HonestInv, [Next]_vars
  PROVE  HonestInv'
<1>1. StoreType' /\ HistoryInv'
  BY StoreTypeStep, HistoryStep
<1>2. Rest'
  <2>1. CASE UNCHANGED vars
    BY <2>1, StutterStep
  <2>2. ASSUME NEW w \in Writers, NewRequest(w) PROVE Rest'
    BY <2>2, NewRequestStep
  <2>3. ASSUME NEW w \in Writers, WriterStep(w) PROVE Rest'
    <3>1. w \in Procs
      BY DEF Procs
    <3> QED BY <2>3, <3>1, IncrementEnvVersionStep, BuildsStep, PublishStep, SendStep,
               UnsubscribeSlowStep, RespondStep DEF WriterStep
  <2>4. ASSUME NEW k \in Conns, StreamStep(k) PROVE Rest'
    <3>1. k \in Procs
      BY DEF Procs
    <3> QED BY <2>4, <3>1, SubscribeStep, ReplayStep, WriteReplayedStep, BuildsStep,
               SendInitialStep, DeliverStep, DisconnectedStep DEF StreamStep
  <2>5. ASSUME NEW c \in Clients, ClientStep(c) \/ Drop(c) PROVE Rest'
    BY <2>5, ConnectStep, HandleEventStep, DropStep DEF ClientStep
  <2> QED BY <2>1, <2>2, <2>3, <2>4, <2>5 DEF Next
<1> QED BY <1>1, <1>2 DEF Rest, HonestInv, TypeOK

\* HonestInvariant: wherever a snapshot of Build, a message of Publish or an
\* event of sdkStream is, in a ring, a queue, a replay, on the wire or in a
\* client, it contains what its version promises.
THEOREM HonestInvariant == Spec => []HonestInv
<1>1. Init => HonestInv
  BY HonestInit
<1>2. HonestInv /\ [Next]_vars => HonestInv'
  BY HonestNext
<1> QED BY <1>1, <1>2, PTL DEF Spec

\* PropagationTypeCorrect: the handlers, the hub and the clients keep their
\* state well-typed; in particular what reaches a client is a snapshot and
\* a replay never starts without a ring or runs out of messages.
THEOREM PropagationTypeCorrect == Spec => []TypeOK
<1>1. HonestInv => TypeOK
  BY DEF HonestInv
<1> QED BY <1>1, HonestInvariant, PTL

\* LabelsAreHonestTheorem: what an SDK evaluates with contains every change
\* that was finished when the version became its label, for any number of
\* management requests and streams in progress: Build reads the version before
\* the data and the handlers increment it after writing.
THEOREM LabelsAreHonestTheorem == Spec => []LabelsAreHonest
<1>1. HonestInv => LabelsAreHonest
  BY DEF HonestInv, TransitInv, LabelsAreHonest, SoundSnapshots
<1> QED BY <1>1, HonestInvariant, PTL
=============================================================================
