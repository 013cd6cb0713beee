---------------------------- MODULE DeliveryProofs ----------------------------
(***************************************************************************)
(* More about Propagation, on top of HonestInv: which connection belongs to *)
(* which environment and client (WiringInv), that the service implements    *)
(* SnapshotFeed, that subscribers are counted, that no version is lost on   *)
(* the way to a stream in step (DeliveryInv), and that changes which are    *)
(* made one at a time reach the clients of such streams (SettledInv,        *)
(* OrderInv, TipInv).                                                       *)
(***************************************************************************)
EXTENDS PropagationProofs, FiniteSetTheorems, TLAPS

-----------------------------------------------------------------------------
(***************************************************************************)
(* Who is connected to what.                                                *)
(***************************************************************************)
\* What may be in a ring or a queue of environment key e: Build has read a version
\* that is not below the one that Publish was given.
MessagesFor(e)  == {m \in Messages : m.snap.env = e /\ m.version <= m.snap.version}
SnapshotsFor(e) == {x \in Snapshots : x.env = e}

\* A connection is unused until Connect; it is subscribed to its own environment, and
\* only between Subscribe and the end of sdkStream.
StreamInv(k) ==
  /\ k > used <=> pc[k] = "idle"
  /\ pc[k] = "idle" => ch[k] = <<>> /\ pending[k] = <<>> /\ wire[k] = <<>>
  /\ pc[k] \in {"idle", "subscribe", "replay"} => best[k] = Nil /\ sent[k] = 0
  /\ \A e \in EnvKeys :
       k \in subs[e] => e = scope[k][2] /\ pc[k] \notin {"idle", "subscribe", "closed"}
  /\ ch[k] \in Seq(MessagesFor(scope[k][2]))
  /\ pending[k] \in Seq(MessagesFor(scope[k][2]))
  /\ wire[k] \in Seq(SnapshotsFor(scope[k][2]))

\* Publish sends to connections of the environment that the handler works on.
WriterInv(w) ==
  /\ pc[w] = "build" => msgVersion[w] <= versions[scope[w]]
  /\ pc[w] \in Drafting => msgVersion[w] <= draft[w].version
  /\ targets[w] # {} => draft[w].env = scope[w][2] /\ msgVersion[w] <= draft[w].version
  /\ \A k \in targets[w] \cup slow[w] :
       pc[w] = "publishing" /\ pc[k] # "idle" /\ scope[k][2] = scope[w][2]

ClientInv(c) == conn[c] # Nil => pc[conn[c]] # "idle" /\ scope[conn[c]] = ClientScope[c]

RingsInv == \A e \in EnvKeys : rings[e] # Nil => RingHolds(rings[e], MessagesFor(e))

WiringInv ==
  /\ \A k \in Conns : StreamInv(k)
  /\ \A w \in Writers : WriterInv(w)
  /\ \A c \in Clients : ClientInv(c)
  /\ RingsInv

-----------------------------------------------------------------------------
(***************************************************************************)
(* What is on its way.                                                      *)
(***************************************************************************)
\* A version that has not been given to Publish is still being built.
PublishedInv ==
  \A s \in Scopes : \A v \in 1 .. versions[s] :
    \/ v <= published[s]
    \/ \E w \in Writers : scope[w] = s /\ msgVersion[w] = v /\ pc[w] \in Building

\* What a stream has written covers the version that it skips messages by.
SentInv(k) ==
  /\ pc[k] \in {"replaying", "loop"} /\ best[k] # Nil /\ (pc[k] = "loop" => exact[k])
       => sent[k] <= best[k].version
  /\ pc[k] = "loop" /\ exact[k] => best[k] # Nil
  /\ pc[k] = "replaying" /\ exact[k] =>
       best[k] # Nil \/ \E i \in 1 .. Len(pending[k]) : pending[k][i].version > from[k]

Covered(k, v) ==
  \/ best[k] # Nil /\ v <= best[k].version
  \/ /\ pc[k] = "replaying"
     /\ \E i \in 1 .. Len(pending[k]) :
          pending[k][i].version > from[k] /\ v <= pending[k][i].snap.version
  \/ \E i \in 1 .. Len(ch[k]) : ch[k][i].version = v
  \/ \E w \in Writers : InFlight(w, k, v)

Listening(k) == pc[k] \in {"replaying", "loop"} /\ exact[k] /\ k \in subs[scope[k][2]]

CoverInv(k) == Listening(k) => \A v \in 1 .. versions[scope[k]] : Covered(k, v)

DeliveryInv == PublishedInv /\ \A k \in Conns : SentInv(k) /\ CoverInv(k)

-----------------------------------------------------------------------------
(***************************************************************************)
(* WiringInv is inductive: first what a step leaves alone.                  *)
(***************************************************************************)
\* No connection is used again, and none changes its environment.
ConnsStay ==
  \A k \in Conns : pc[k] # "idle" => pc'[k] # "idle" /\ scope'[k] = scope[k]

LEMMA ProcsAre ==
  /\ \A k \in Conns : k \in Procs /\ k \notin Writers
  /\ \A w \in Writers : w \in Procs /\ w \notin Conns
BY PropagationAssumption DEF Procs

\* Stream k and what is addressed to it are left alone.
SameStream(k) ==
  /\ pc'[k] = pc[k] /\ scope'[k] = scope[k] /\ ch'[k] = ch[k] /\ pending'[k] = pending[k]
  /\ wire'[k] = wire[k] /\ best'[k] = best[k] /\ sent'[k] = sent[k]
  /\ \A e \in EnvKeys : k \in subs'[e] => k \in subs[e]

LEMMA StreamKept ==
  ASSUME NEW k \in Conns, StreamInv(k), SameStream(k), used' = used
  PROVE  StreamInv(k)'
BY DEF StreamInv, SameStream

\* Handler w is left alone.
SameWriter(w) ==
  /\ pc'[w] = pc[w] /\ scope'[w] = scope[w] /\ draft'[w] = draft[w]
  /\ msgVersion'[w] = msgVersion[w] /\ targets'[w] = targets[w] /\ slow'[w] = slow[w]

LEMMA WriterKept ==
  ASSUME HonestInv, [Next]_vars, NEW w \in Writers, WriterInv(w), SameWriter(w), ConnsStay
  PROVE  WriterInv(w)'
<1>1. pc[w] = "build" => versions[scope[w]] <= versions'[scope[w]] /\ scope[w] \in Scopes
  BY NextGrows DEF HonestInv, TypeOK, ScopeInv, Building, Grows
<1>2. /\ targets[w] \subseteq Conns /\ slow[w] \subseteq Conns /\ msgVersion[w] \in Nat
      /\ versions \in [Scopes -> Nat]
  BY DEF HonestInv, TypeOK, WriterType, StoreType
<1>3. StoreType'
  BY StoreTypeStep DEF HonestInv, TypeOK
<1>4. pc[w] = "build" => msgVersion[w] <= versions'[scope[w]]
  <2> SUFFICES ASSUME pc[w] = "build" PROVE msgVersion[w] <= versions'[scope[w]]
    OBVIOUS
  <2>1. versions[scope[w]] \in Nat /\ versions'[scope[w]] \in Nat /\ msgVersion[w] \in Nat
    BY <1>1, <1>2, <1>3 DEF StoreType
  <2>2. msgVersion[w] <= versions[scope[w]] /\ versions[scope[w]] <= versions'[scope[w]]
    BY <1>1 DEF WriterInv
  <2> QED
    BY <2>1, <2>2
<1> QED
  BY <1>2, <1>4 DEF WriterInv, SameWriter, ConnsStay

LEMMA ClientKept ==
  ASSUME HonestInv, NEW c \in Clients, ClientInv(c), conn'[c] \in {conn[c], Nil}, ConnsStay
  PROVE  ClientInv(c)'
<1>1. conn[c] \in Conns \cup {Nil}
  BY DEF HonestInv, TypeOK, ClientType
<1> QED
  BY <1>1 DEF ClientInv, ConnsStay

\* A step of handler w, which changes no stream and no client.
LEMMA WriterStepWired ==
  ASSUME HonestInv, [Next]_vars, WiringInv, NEW w \in Writers, WriterInv(w)', RingsInv',
         \A q \in Writers \ {w} : SameWriter(q), \A k \in Conns : StreamInv(k)',
         ConnsStay, conn' = conn
  PROVE  WiringInv'
BY WriterKept, ClientKept DEF WiringInv

\* A step of stream k, which changes no handler and no client.
LEMMA StreamStepWired ==
  ASSUME HonestInv, [Next]_vars, WiringInv, NEW k \in Conns, StreamInv(k)', RingsInv',
         \A w \in Writers : SameWriter(w), \A j \in Conns \ {k} : SameStream(j),
         ConnsStay, conn' = conn, used' = used
  PROVE  WiringInv'
BY WriterKept, ClientKept, StreamKept DEF WiringInv

-----------------------------------------------------------------------------
(***************************************************************************)
(* The management handlers.                                                 *)
(***************************************************************************)
\* A handler that is not sending has nobody to send to.
LEMMA NobodyLeft ==
  ASSUME NEW w \in Writers, WriterInv(w), pc[w] # "publishing" \/ PublishReturned(w)
  PROVE  targets[w] = {} /\ slow[w] = {}
BY DEF WriterInv, PublishReturned

LEMMA NewRequestWired ==
  ASSUME HonestInv, [Next]_vars, WiringInv, NEW w \in Writers, NewRequest(w)
  PROVE  WiringInv'
<1>1. PICK p, envs : p \in Projects /\ Request(w, p, envs)
  BY DEF NewRequest, PutFlagConfig, ChangeFlags, ChangeSegments
<1>2. /\ pc[w] = "idle" /\ pc' = [pc EXCEPT ![w] = "publishing"]
      /\ scope' = [scope EXCEPT ![w] = <<p, Nil>>]
      /\ UNCHANGED <<rings, subs, ch, draft, msgVersion, targets, slow, sent, pending, best,
                     wire, conn, used>>
  BY <1>1 DEF Request, hubVars, streamVars, clientVars
<1>3. HandlerType /\ WriterInv(w)
  BY DEF HonestInv, TypeOK, WiringInv
<1>4. \A q \in Procs \ {w} : pc'[q] = pc[q] /\ scope'[q] = scope[q]
  BY <1>2, <1>3 DEF HandlerType
<1>5. pc'[w] = "publishing" /\ targets[w] = {} /\ slow[w] = {}
  BY <1>2, <1>3, NobodyLeft, ProcsAre DEF HandlerType
<1>6. WriterInv(w)'
  BY <1>2, <1>5 DEF WriterInv, Drafting, Building
<1>7. (\A q \in Writers \ {w} : SameWriter(q)) /\ ConnsStay
  BY <1>2, <1>4, ProcsAre DEF SameWriter, ConnsStay
<1>8. \A k \in Conns : StreamInv(k)'
  BY <1>2, <1>4, ProcsAre, StreamKept DEF SameStream, WiringInv
<1>9. RingsInv'
  BY <1>2 DEF WiringInv, RingsInv
<1> QED
  BY <1>2, <1>6, <1>7, <1>8, <1>9, WriterStepWired

LEMMA IncrementWired ==
  ASSUME HonestInv, [Next]_vars, WiringInv, NEW w \in Writers, NEW e \in EnvKeys,
         IncrementEnvVersion(w, e)
  PROVE  WiringInv'
<1>0. PICK s : s = <<scope[w][1], e>>
  OBVIOUS
<1>1. /\ pc[w] = "publishing" /\ PublishReturned(w) /\ pc' = [pc EXCEPT ![w] = "build"]
      /\ scope' = [scope EXCEPT ![w] = s] /\ e \in todo[w]
      /\ versions' = [versions EXCEPT ![s] = @ + 1]
      /\ msgVersion' = [msgVersion EXCEPT ![w] = versions[s] + 1]
      /\ UNCHANGED <<rings, subs, ch, draft, targets, slow, sent, pending, best, wire, conn, used>>
  BY <1>0 DEF IncrementEnvVersion, hubVars, streamVars, clientVars
<1>2. HandlerType /\ WriterType /\ StoreType /\ WriterInv(w) /\ s \in Scopes
  BY <1>0, <1>1 DEF HonestInv, TypeOK, WiringInv, ScopeInv
<1>3. \A q \in Procs \ {w} : pc'[q] = pc[q] /\ scope'[q] = scope[q]
  BY <1>1, <1>2 DEF HandlerType
<1>4. /\ pc'[w] = "build" /\ targets[w] = {} /\ slow[w] = {} /\ scope'[w] = s
      /\ msgVersion'[w] = versions'[s] /\ versions'[s] \in Nat
      /\ \A q \in Writers \ {w} : msgVersion'[q] = msgVersion[q]
  BY <1>1, <1>2, NobodyLeft, ProcsAre DEF HandlerType, WriterType, StoreType
<1>5. WriterInv(w)'
  BY <1>1, <1>4 DEF WriterInv, Drafting, Building
<1>6. (\A q \in Writers \ {w} : SameWriter(q)) /\ ConnsStay
  BY <1>1, <1>3, <1>4, ProcsAre DEF SameWriter, ConnsStay
<1>7. \A k \in Conns : StreamInv(k)'
  BY <1>1, <1>3, ProcsAre, StreamKept DEF SameStream, WiringInv
<1>8. RingsInv'
  BY <1>1 DEF WiringInv, RingsInv
<1> QED
  BY <1>1, <1>5, <1>6, <1>7, <1>8, WriterStepWired

LEMMA RespondWired ==
  ASSUME HonestInv, [Next]_vars, WiringInv, NEW w \in Writers, Respond(w)
  PROVE  WiringInv'
<1>1. /\ pc[w] = "publishing" /\ PublishReturned(w) /\ pc' = [pc EXCEPT ![w] = "idle"]
      /\ scope' = [scope EXCEPT ![w] = Nil] /\ draft' = [draft EXCEPT ![w] = Nil]
      /\ msgVersion' = [msgVersion EXCEPT ![w] = 0]
      /\ UNCHANGED <<rings, subs, ch, targets, slow, sent, pending, best, wire, conn, used>>
  BY DEF Respond, hubVars, streamVars, clientVars
<1>2. HandlerType /\ WriterType /\ WriterInv(w)
  BY DEF HonestInv, TypeOK, WiringInv
<1>3. \A q \in Procs \ {w} : pc'[q] = pc[q] /\ scope'[q] = scope[q] /\ draft'[q] = draft[q]
  BY <1>1, <1>2 DEF HandlerType
<1>4. /\ pc'[w] = "idle" /\ targets[w] = {} /\ slow[w] = {}
      /\ \A q \in Writers \ {w} : msgVersion'[q] = msgVersion[q]
  BY <1>1, <1>2, NobodyLeft, ProcsAre DEF HandlerType, WriterType
<1>5. WriterInv(w)'
  BY <1>1, <1>4 DEF WriterInv, Drafting, Building
<1>6. (\A q \in Writers \ {w} : SameWriter(q)) /\ ConnsStay
  BY <1>1, <1>3, <1>4, ProcsAre DEF SameWriter, ConnsStay
<1>7. \A k \in Conns : StreamInv(k)'
  BY <1>1, <1>3, ProcsAre, StreamKept DEF SameStream, WiringInv
<1>8. RingsInv'
  BY <1>1 DEF WiringInv, RingsInv
<1> QED
  BY <1>1, <1>5, <1>6, <1>7, <1>8, WriterStepWired

\* Build never moves the version of a draft that it has begun.
LEMMA BuildIs ==
  ASSUME HonestInv, NEW q \in Procs, Build(q)
  PROVE  /\ pc[q] \in Building \ {"built"} /\ pc'[q] \in Drafting /\ scope' = scope
         /\ draft'[q].version = IF pc[q] = "build" THEN versions[scope[q]] ELSE draft[q].version
         /\ \A r \in Procs \ {q} : pc'[r] = pc[r] /\ draft'[r] = draft[r]
         /\ UNCHANGED <<storeVars, hubVars, ch, scope, writerVars, streamVars, wire, up,
                        clientVars, writes>>
<1>1. HandlerType /\ (pc[q] \in Drafting => draft[q] \in Snapshots)
  BY DEF HonestInv, TypeOK, DraftInv, DraftOK
<1>2. CASE BuildGetEnvVersion(q)
  BY <1>1, <1>2
  DEF BuildGetEnvVersion, BuildStep, NewSnapshot, HandlerType, Drafting, Building
<1>3. CASE BuildListFlags(q)
  BY <1>1, <1>3 DEF BuildListFlags, BuildStep, HandlerType, Drafting, Building, Snapshots
<1>4. CASE BuildListSegments(q)
  BY <1>1, <1>4 DEF BuildListSegments, BuildStep, HandlerType, Drafting, Building, Snapshots
<1>5. CASE BuildGetFlagConfig(q)
  BY <1>1, <1>5 DEF BuildGetFlagConfig, BuildStep, HandlerType, Drafting, Building, Snapshots
<1> QED
  BY <1>2, <1>3, <1>4, <1>5 DEF Build

LEMMA WriterBuildWired ==
  ASSUME HonestInv, [Next]_vars, WiringInv, NEW w \in Writers, Build(w)
  PROVE  WiringInv'
<1>1. /\ pc[w] \in Building \ {"built"} /\ pc'[w] \in Drafting /\ scope' = scope
      /\ draft'[w].version = IF pc[w] = "build" THEN versions[scope[w]] ELSE draft[w].version
      /\ \A r \in Procs \ {w} : pc'[r] = pc[r] /\ draft'[r] = draft[r]
      /\ UNCHANGED <<rings, subs, ch, msgVersion, targets, slow, sent, pending, best, wire,
                     conn, used>>
  BY BuildIs, ProcsAre DEF hubVars, writerVars, streamVars, clientVars
<1>2. targets[w] = {} /\ slow[w] = {} /\ WriterInv(w)
  BY <1>1, NobodyLeft DEF WiringInv, Building
<1>3. WriterInv(w)'
  BY <1>1, <1>2 DEF WriterInv, Drafting, Building
<1>4. (\A q \in Writers \ {w} : SameWriter(q)) /\ ConnsStay
  BY <1>1, ProcsAre DEF SameWriter, ConnsStay
<1>5. \A k \in Conns : StreamInv(k)'
  BY <1>1, ProcsAre, StreamKept DEF SameStream, WiringInv
<1>6. RingsInv'
  BY <1>1 DEF WiringInv, RingsInv
<1> QED
  BY <1>1, <1>3, <1>4, <1>5, <1>6, WriterStepWired

\* What Publish puts into the ring and into the queues.
LEMMA MessageIs ==
  ASSUME HonestInv, NEW w \in Writers, WriterInv(w), pc[w] = "built" \/ targets[w] # {}
  PROVE  Message(msgVersion[w], draft[w]) \in MessagesFor(scope[w][2])
<1>1. /\ msgVersion[w] \in Nat /\ draft[w] \in Snapshots
      /\ draft[w].env = scope[w][2] /\ msgVersion[w] <= draft[w].version
  <2>1. msgVersion[w] \in Nat
    BY DEF HonestInv, TypeOK, WriterType
  <2>2. CASE pc[w] = "built"
    <3>1. draft[w] \in Snapshots /\ ScopeOf(draft[w]) = scope[w] /\ msgVersion[w] <= draft[w].version
      BY <2>2, ProcsAre DEF HonestInv, DraftInv, DraftOK, Drafting, Building, WriterInv
    <3> QED
      BY <2>1, <3>1 DEF ScopeOf
  <2>3. CASE targets[w] # {}
    BY <2>1, <2>3 DEF HonestInv, TransitInv, SoundSnapshots, WriterInv
  <2> QED
    BY <2>2, <2>3
<1> QED
  BY <1>1 DEF Message, MessagesFor, Messages

LEMMA PublishWired ==
  ASSUME HonestInv, [Next]_vars, WiringInv, NEW w \in Writers, Publish(w)
  PROVE  WiringInv'
<1>0. PICK e, m : e = scope[w][2] /\ m = Message(msgVersion[w], draft[w])
  OBVIOUS
<1>1. /\ pc[w] = "built" /\ pc' = [pc EXCEPT ![w] = "publishing"]
      /\ rings' = [rings EXCEPT ![e] = IF @ = Nil THEN Nil ELSE RingAppend(@, m)]
      /\ targets' = [targets EXCEPT ![w] = subs[e]]
      /\ UNCHANGED <<subs, ch, scope, draft, msgVersion, slow, sent, pending, best, wire,
                     conn, used>>
  BY <1>0 DEF Publish, streamVars, clientVars
<1>2. HandlerType /\ WriterType /\ HubType /\ WriterInv(w) /\ RingsInv
  BY DEF HonestInv, TypeOK, WiringInv
<1>3. e \in EnvKeys /\ m \in MessagesFor(e) /\ slow[w] = {}
  <2>1. scope[w] \in Scopes
    BY <1>1, BuiltIsSound, ProcsAre
  <2> QED
    BY <1>0, <1>1, <1>2, <2>1, ContentType, MessageIs, NobodyLeft DEF HonestInv, TypeOK
<1>4. /\ pc'[w] = "publishing" /\ \A q \in Procs \ {w} : pc'[q] = pc[q]
      /\ targets'[w] = subs[e] /\ \A q \in Writers \ {w} : targets'[q] = targets[q]
  BY <1>1, <1>2, ProcsAre DEF HandlerType, WriterType
<1>5. \A k \in subs[e] : k \in Conns /\ pc'[k] # "idle" /\ scope'[k][2] = e
  <2>1. subs[e] \subseteq Conns
    BY <1>2, <1>3 DEF HubType
  <2> QED
    BY <1>1, <1>3, <1>4, <2>1, ProcsAre DEF WiringInv, StreamInv
<1>6. WriterInv(w)'
  <2>1. draft[w].env = e /\ msgVersion[w] <= draft[w].version
    BY <1>0, <1>1, <1>2, ProcsAre
    DEF WriterInv, Drafting, Building, HonestInv, DraftInv, DraftOK, ScopeOf
  <2> QED
    BY <1>0, <1>1, <1>3, <1>4, <1>5, <2>1 DEF WriterInv, Drafting, Building
<1>7. (\A q \in Writers \ {w} : SameWriter(q)) /\ ConnsStay
  BY <1>1, <1>4, ProcsAre DEF SameWriter, ConnsStay
<1>8. \A k \in Conns : StreamInv(k)'
  BY <1>1, <1>4, ProcsAre, StreamKept DEF SameStream, WiringInv
<1>9. RingsInv'
  <2>1. SUFFICES ASSUME NEW d \in EnvKeys, rings'[d] # Nil
                 PROVE  RingHolds(rings'[d], MessagesFor(d))
    BY DEF RingsInv
  <2>2. CASE d # e
    BY <1>1, <1>2, <2>1, <2>2 DEF HubType, RingsInv
  <2>3. CASE d = e
    <3>1. rings'[e] = IF rings[e] = Nil THEN Nil ELSE RingAppend(rings[e], m)
      BY <1>1, <1>2, <1>3 DEF HubType
    <3>2. rings[e] \in Rings /\ RingHolds(rings[e], MessagesFor(e))
      BY <1>2, <1>3, <2>1, <2>3, <3>1 DEF HubType, RingsInv
    <3>3. RingHolds(RingAppend(rings[e], m), MessagesFor(e))
      BY <1>3, <3>2, RingAppendHolds
    <3> QED
      BY <2>1, <2>3, <3>1, <3>3
  <2> QED
    BY <2>2, <2>3
<1> QED
  BY <1>1, <1>6, <1>7, <1>8, <1>9, WriterStepWired

LEMMA SendWired ==
  ASSUME HonestInv, [Next]_vars, WiringInv, NEW w \in Writers, NEW k \in Conns, Send(w, k)
  PROVE  WiringInv'
<1>0. PICK m : m = Message(msgVersion[w], draft[w])
  OBVIOUS
<1>1. /\ pc[w] = "publishing" /\ k \in targets[w] /\ targets' = [targets EXCEPT ![w] = @ \ {k}]
      /\ UNCHANGED <<rings, subs, pc, scope, draft, msgVersion, sent, pending, best, wire,
                     conn, used>>
      /\ \/ ch' = [ch EXCEPT ![k] = Append(@, m)] /\ slow' = slow
         \/ slow' = [slow EXCEPT ![w] = @ \cup {k}] /\ ch' = ch
  BY <1>0 DEF Send, hubVars, streamVars, clientVars
<1>2. HandlerType /\ WriterType /\ HubType /\ WriterInv(w) /\ RingsInv /\ StreamInv(k)
  BY DEF HonestInv, TypeOK, WiringInv
<1>3. m \in MessagesFor(scope[k][2])
  BY <1>0, <1>1, <1>2, MessageIs DEF WriterInv
<1>4. /\ targets'[w] = targets[w] \ {k} /\ slow'[w] \subseteq slow[w] \cup {k}
      /\ \A q \in Writers \ {w} : targets'[q] = targets[q] /\ slow'[q] = slow[q]
  BY <1>1, <1>2 DEF WriterType
<1>5. /\ ch'[k] \in {ch[k], Append(ch[k], m)} /\ \A j \in Conns \ {k} : ch'[j] = ch[j]
  BY <1>1, <1>2 DEF HubType
<1>6. WriterInv(w)'
  BY <1>1, <1>2, <1>4 DEF WriterInv
<1>7. (\A q \in Writers \ {w} : SameWriter(q)) /\ ConnsStay
  BY <1>1, <1>4 DEF SameWriter, ConnsStay
<1>8. ASSUME NEW j \in Conns PROVE StreamInv(j)'
  <2>1. CASE j # k
    BY <1>1, <1>5, <2>1, StreamKept DEF SameStream, WiringInv
  <2>2. CASE j = k
    <3>1. ch'[k] \in Seq(MessagesFor(scope[k][2]))
      <4>1. PICK S : S = MessagesFor(scope[k][2])
        OBVIOUS
      <4>2. ch[k] \in Seq(S) /\ m \in S
        BY <1>2, <1>3, <4>1 DEF StreamInv
      <4>3. Append(ch[k], m) \in Seq(S)
        BY <4>2
      <4> QED
        BY <1>5, <4>1, <4>2, <4>3
    <3>2. pc[k] # "idle"
      BY <1>1, <1>2 DEF WriterInv
    <3> QED
      BY <1>1, <1>2, <2>2, <3>1, <3>2 DEF StreamInv
  <2> QED
    BY <2>1, <2>2
<1>9. RingsInv'
  BY <1>1, <1>2 DEF RingsInv
<1> QED
  BY <1>1, <1>6, <1>7, <1>8, <1>9, WriterStepWired

LEMMA UnsubscribeSlowWired ==
  ASSUME HonestInv, [Next]_vars, WiringInv, NEW w \in Writers, NEW k \in Conns,
         UnsubscribeSlow(w, k)
  PROVE  WiringInv'
<1>0. PICK e : e = scope[w][2]
  OBVIOUS
<1>1. /\ pc[w] = "publishing" /\ targets[w] = {} /\ slow' = [slow EXCEPT ![w] = @ \ {k}]
      /\ subs' = [subs EXCEPT ![e] = @ \ {k}]
      /\ UNCHANGED <<rings, ch, pc, scope, draft, msgVersion, targets, sent, pending, best,
                     wire, conn, used>>
  BY <1>0 DEF UnsubscribeSlow, Unsubscribe, streamVars, clientVars
<1>2. WriterType /\ HubType /\ WriterInv(w) /\ RingsInv
  BY DEF HonestInv, TypeOK, WiringInv
<1>3. /\ slow'[w] \subseteq slow[w] /\ \A q \in Writers \ {w} : slow'[q] = slow[q]
      /\ \A d \in EnvKeys : subs'[d] \subseteq subs[d]
  BY <1>1, <1>2 DEF WriterType, HubType
<1>4. WriterInv(w)'
  BY <1>1, <1>2, <1>3 DEF WriterInv
<1>5. (\A q \in Writers \ {w} : SameWriter(q)) /\ ConnsStay
  BY <1>1, <1>3 DEF SameWriter, ConnsStay
<1>6. \A j \in Conns : StreamInv(j)'
  BY <1>1, <1>3, StreamKept DEF SameStream, WiringInv
<1>7. RingsInv'
  BY <1>1, <1>2 DEF RingsInv
<1> QED
  BY <1>1, <1>4, <1>5, <1>6, <1>7, WriterStepWired

-----------------------------------------------------------------------------
(***************************************************************************)
(* The streams.                                                             *)
(***************************************************************************)
LEMMA NoneQueued ==
  ASSUME NEW S
  PROVE  <<>> \in Seq(S)
OBVIOUS

LEMMA SubscribeWired ==
  ASSUME HonestInv, [Next]_vars, WiringInv, NEW k \in Conns, Subscribe(k)
  PROVE  WiringInv'
<1>0. PICK e : e = scope[k][2]
  OBVIOUS
<1>1. /\ pc[k] = "subscribe" /\ pc' = [pc EXCEPT ![k] = "replay"]
      /\ subs' = [subs EXCEPT ![e] = @ \cup {k}]
      /\ rings' = [rings EXCEPT ![e] = IF @ = Nil THEN NewEventRing ELSE @]
      /\ UNCHANGED <<ch, scope, draft, msgVersion, targets, slow, sent, pending, best, wire,
                     conn, used>>
  BY <1>0 DEF Subscribe, writerVars, streamVars, clientVars
<1>2. HandlerType /\ HubType /\ RingsInv /\ StreamInv(k)
  BY DEF HonestInv, TypeOK, WiringInv
<1>3. pc'[k] = "replay" /\ \A q \in Procs \ {k} : pc'[q] = pc[q]
  BY <1>1, <1>2, ProcsAre DEF HandlerType
<1>4. \A d \in EnvKeys : subs'[d] = IF d = e THEN subs[d] \cup {k} ELSE subs[d]
  BY <1>1, <1>2 DEF HubType
<1>5. StreamInv(k)'
  BY <1>0, <1>1, <1>2, <1>3, <1>4 DEF StreamInv
<1>6. \A j \in Conns \ {k} : SameStream(j)
  BY <1>1, <1>3, <1>4, ProcsAre DEF SameStream
<1>7. (\A w \in Writers : SameWriter(w)) /\ ConnsStay
  BY <1>1, <1>3, ProcsAre DEF SameWriter, ConnsStay
<1>8. RingsInv'
  <2>1. SUFFICES ASSUME NEW d \in EnvKeys, rings'[d] # Nil
                 PROVE  RingHolds(rings'[d], MessagesFor(d))
    BY DEF RingsInv
  <2>2. rings'[d] \in {rings[d], NewEventRing}
    BY <1>1, <1>2 DEF HubType
  <2> QED
    BY <1>2, <2>1, <2>2, NewRingHolds DEF RingsInv
<1> QED
  BY <1>1, <1>5, <1>6, <1>7, <1>8, StreamStepWired

LEMMA ReplayWired ==
  ASSUME HonestInv, [Next]_vars, WiringInv, NEW k \in Conns, Replay(k)
  PROVE  WiringInv'
<1>0. PICK e : e = scope[k][2]
  OBVIOUS
<1>1. /\ pc[k] = "replay" /\ pc'[k] \in {"replaying", "build"}
      /\ pending'[k] \in {Walk(rings[e]), <<>>}
      /\ \A q \in Procs \ {k} : pc'[q] = pc[q]
      /\ \A j \in Conns \ {k} : pending'[j] = pending[j]
      /\ UNCHANGED <<rings, subs, ch, scope, draft, msgVersion, targets, slow, sent, best,
                     wire, conn, used>>
  <2>1. PICK l, x : /\ pc[k] = "replay" /\ pc' = [pc EXCEPT ![k] = l] /\ l \in {"replaying", "build"}
                    /\ pending' = [pending EXCEPT ![k] = x] /\ x \in {Walk(rings[e]), <<>>}
                    /\ UNCHANGED <<rings, subs, ch, scope, draft, msgVersion, targets, slow,
                                   sent, best, wire, conn, used>>
    <3> DEFINE ring     == rings[scope[k][2]]
               messages == Walk(ring)
               replays  == /\ Since(ring, from[k]).ok
                           /\ {i \in 1 .. ring.count : messages[i].version > from[k]} # {}
               l == IF replays THEN "replaying" ELSE "build"
               x == IF replays THEN messages ELSE <<>>
    <3>1. /\ pc[k] = "replay" /\ pc' = [pc EXCEPT ![k] = l]
          /\ pending' = [pending EXCEPT ![k] = x]
          /\ UNCHANGED <<rings, subs, ch, scope, draft, msgVersion, targets, slow, sent, best,
                         wire, conn, used>>
      BY Zenon DEF Replay, hubVars, writerVars, clientVars
    <3>2. l \in {"replaying", "build"} /\ x \in {messages, <<>>}
      BY Zenon
    <3> HIDE DEF l, x
    <3> QED
      BY <1>0, <3>1, <3>2
  <2>2. HandlerType /\ StreamType
    BY DEF HonestInv, TypeOK
  <2> QED
    BY <2>1, <2>2, ProcsAre DEF HandlerType, StreamType
<1>2. HubType /\ RingsInv /\ StreamInv(k)
  BY DEF HonestInv, TypeOK, WiringInv
<1>3. Walk(rings[e]) \in Seq(MessagesFor(e))
  <2>1. rings[e] # Nil /\ e \in EnvKeys
    <3>1. scope[k] \in Scopes
      BY <1>1 DEF HonestInv, ScopeInv
    <3> QED
      BY <1>0, <1>1, <3>1, ContentType DEF HonestInv, RingInv, TypeOK
  <2>2. rings[e] \in Rings /\ RingHolds(rings[e], MessagesFor(e))
    BY <1>2, <2>1 DEF HubType, RingsInv
  <2> QED
    BY <2>2, WalkHolds
<1>4. pending'[k] \in Seq(MessagesFor(e))
  BY <1>1, <1>3, NoneQueued
<1>5. StreamInv(k)'
  BY <1>0, <1>1, <1>2, <1>4 DEF StreamInv
<1>6. \A j \in Conns \ {k} : SameStream(j)
  BY <1>1, ProcsAre DEF SameStream
<1>7. (\A w \in Writers : SameWriter(w)) /\ ConnsStay
  BY <1>1, ProcsAre DEF SameWriter, ConnsStay
<1>8. RingsInv'
  BY <1>1, <1>2 DEF RingsInv
<1> QED
  BY <1>1, <1>5, <1>6, <1>7, <1>8, StreamStepWired

LEMMA WriteReplayedWired ==
  ASSUME HonestInv, [Next]_vars, WiringInv, NEW k \in Conns, WriteReplayed(k)
  PROVE  WiringInv'
<1>0. PICK e, m : e = scope[k][2] /\ m = Head(pending[k])
  OBVIOUS
<1>1. /\ pc[k] = "replaying" /\ pending' = [pending EXCEPT ![k] = Tail(@)]
      /\ pc' = [pc EXCEPT ![k] = IF Len(pending[k]) = 1 THEN "loop" ELSE "replaying"]
      /\ \/ UNCHANGED <<wire, sent, best>>
         \/ /\ wire' = [wire EXCEPT ![k] = Append(@, m.snap)]
            /\ sent' = [sent EXCEPT ![k] = m.version]
            /\ best' = [best EXCEPT ![k] = Newest(@, m.snap)]
      /\ UNCHANGED <<rings, subs, ch, scope, draft, msgVersion, targets, slow, conn, used>>
  BY <1>0 DEF WriteReplayed, hubVars, writerVars, clientVars
<1>2. HandlerType /\ StreamType /\ RingsInv /\ StreamInv(k) /\ pending[k] # <<>>
  BY <1>1 DEF HonestInv, TypeOK, WiringInv, TransitInv
<1>3. /\ pc'[k] \in {"loop", "replaying"} /\ \A q \in Procs \ {k} : pc'[q] = pc[q]
      /\ pending'[k] = Tail(pending[k]) /\ wire'[k] \in {wire[k], Append(wire[k], m.snap)}
      /\ \A j \in Conns \ {k} : /\ pending'[j] = pending[j] /\ wire'[j] = wire[j]
                                /\ sent'[j] = sent[j] /\ best'[j] = best[j]
  BY <1>1, <1>2, ProcsAre DEF HandlerType, StreamType
<1>4. m \in MessagesFor(e) /\ Tail(pending[k]) \in Seq(MessagesFor(e))
  BY <1>0, <1>2, TailHead DEF StreamInv
<1>5. m.snap \in SnapshotsFor(e)
  BY <1>4 DEF MessagesFor, SnapshotsFor, Messages
<1>6. wire'[k] \in Seq(SnapshotsFor(e))
  <2>1. wire[k] \in Seq(SnapshotsFor(e))
    BY <1>0, <1>2 DEF StreamInv
  <2>2. Append(wire[k], m.snap) \in Seq(SnapshotsFor(e))
    BY <1>5, <2>1
  <2> QED
    BY <1>3, <2>1, <2>2
<1>7. StreamInv(k)'
  BY <1>0, <1>1, <1>2, <1>3, <1>4, <1>6 DEF StreamInv
<1>8. \A j \in Conns \ {k} : SameStream(j)
  BY <1>1, <1>3, ProcsAre DEF SameStream
<1>9. (\A w \in Writers : SameWriter(w)) /\ ConnsStay
  BY <1>1, <1>3, ProcsAre DEF SameWriter, ConnsStay
<1>10. RingsInv'
  BY <1>1, <1>2 DEF RingsInv
<1> QED
  BY <1>1, <1>7, <1>8, <1>9, <1>10, StreamStepWired

LEMMA StreamBuildWired ==
  ASSUME HonestInv, [Next]_vars, WiringInv, NEW k \in Conns, Build(k)
  PROVE  WiringInv'
<1>1. /\ pc[k] \in Building /\ pc'[k] \in Building /\ scope' = scope
      /\ \A r \in Procs \ {k} : pc'[r] = pc[r] /\ draft'[r] = draft[r]
      /\ UNCHANGED <<rings, subs, ch, msgVersion, targets, slow, sent, pending, best, wire,
                     conn, used>>
  BY BuildIs, ProcsAre DEF hubVars, writerVars, streamVars, clientVars, Drafting
<1>2. StreamInv(k)'
  BY <1>1 DEF WiringInv, StreamInv, Building
<1>3. \A j \in Conns \ {k} : SameStream(j)
  BY <1>1, ProcsAre DEF SameStream
<1>4. (\A w \in Writers : SameWriter(w)) /\ ConnsStay
  BY <1>1, ProcsAre DEF SameWriter, ConnsStay, Building
<1>5. RingsInv'
  BY <1>1 DEF WiringInv, RingsInv
<1> QED
  BY <1>1, <1>2, <1>3, <1>4, <1>5, StreamStepWired

LEMMA SendInitialWired ==
  ASSUME HonestInv, [Next]_vars, WiringInv, NEW k \in Conns, SendInitial(k)
  PROVE  WiringInv'
<1>0. PICK e : e = scope[k][2]
  OBVIOUS
<1>1. /\ pc[k] = "built" /\ pc' = [pc EXCEPT ![k] = "loop"]
      /\ sent' = [sent EXCEPT ![k] = versions[scope[k]]]
      /\ wire' = [wire EXCEPT ![k] = Append(@, draft[k])]
      /\ best' = [best EXCEPT ![k] = draft[k]]
      /\ draft' = [draft EXCEPT ![k] = Nil]
      /\ UNCHANGED <<rings, subs, ch, scope, msgVersion, targets, slow, pending, conn, used>>
  BY DEF SendInitial, hubVars, writerVars, clientVars
<1>2. HandlerType /\ StreamType /\ RingsInv /\ StreamInv(k)
  BY DEF HonestInv, TypeOK, WiringInv
<1>3. /\ pc'[k] = "loop" /\ \A q \in Procs \ {k} : pc'[q] = pc[q] /\ draft'[q] = draft[q]
      /\ wire'[k] = Append(wire[k], draft[k])
      /\ \A j \in Conns \ {k} : wire'[j] = wire[j] /\ sent'[j] = sent[j] /\ best'[j] = best[j]
  BY <1>1, <1>2, ProcsAre DEF HandlerType, StreamType
<1>4. draft[k] \in SnapshotsFor(e)
  BY <1>0, <1>1, ProcsAre
  DEF HonestInv, DraftInv, DraftOK, ScopeOf, Drafting, Building, SnapshotsFor
<1>5. wire'[k] \in Seq(SnapshotsFor(e))
  <2>1. wire[k] \in Seq(SnapshotsFor(e))
    BY <1>0, <1>2 DEF StreamInv
  <2> QED
    BY <1>3, <1>4, <2>1
<1>6. StreamInv(k)'
  BY <1>0, <1>1, <1>2, <1>3, <1>5 DEF StreamInv
<1>7. \A j \in Conns \ {k} : SameStream(j)
  BY <1>1, <1>3, ProcsAre DEF SameStream
<1>8. (\A w \in Writers : SameWriter(w)) /\ ConnsStay
  BY <1>1, <1>3, ProcsAre DEF SameWriter, ConnsStay
<1>9. RingsInv'
  BY <1>1, <1>2 DEF RingsInv
<1> QED
  BY <1>1, <1>6, <1>7, <1>8, <1>9, StreamStepWired

LEMMA DeliverWired ==
  ASSUME HonestInv, [Next]_vars, WiringInv, NEW k \in Conns, Deliver(k)
  PROVE  WiringInv'
<1>0. PICK e, m : e = scope[k][2] /\ m = Head(ch[k])
  OBVIOUS
<1>1. /\ pc[k] = "loop" /\ ch[k] # <<>> /\ ch' = [ch EXCEPT ![k] = Tail(@)]
      /\ \/ UNCHANGED <<wire, best>>
         \/ /\ wire' = [wire EXCEPT ![k] = Append(@, m.snap)]
            /\ best' = [best EXCEPT ![k] = Newest(@, m.snap)]
      /\ UNCHANGED <<rings, subs, pc, scope, draft, msgVersion, targets, slow, sent, pending,
                     conn, used>>
  BY <1>0 DEF Deliver, DeliverFrame, hubVars, writerVars, clientVars
<1>2. HubType /\ StreamType /\ RingsInv /\ StreamInv(k)
  BY DEF HonestInv, TypeOK, WiringInv
<1>3. /\ ch'[k] = Tail(ch[k]) /\ wire'[k] \in {wire[k], Append(wire[k], m.snap)}
      /\ \A j \in Conns \ {k} : ch'[j] = ch[j] /\ wire'[j] = wire[j] /\ best'[j] = best[j]
  BY <1>1, <1>2 DEF HubType, StreamType
<1>4. m \in MessagesFor(e) /\ Tail(ch[k]) \in Seq(MessagesFor(e))
  BY <1>0, <1>1, <1>2, TailHead DEF StreamInv
<1>5. m.snap \in SnapshotsFor(e)
  BY <1>4 DEF MessagesFor, SnapshotsFor, Messages
<1>6. wire'[k] \in Seq(SnapshotsFor(e))
  <2>1. wire[k] \in Seq(SnapshotsFor(e))
    BY <1>0, <1>2 DEF StreamInv
  <2>2. Append(wire[k], m.snap) \in Seq(SnapshotsFor(e))
    BY <1>5, <2>1
  <2> QED
    BY <1>3, <2>1, <2>2
<1>7. StreamInv(k)'
  BY <1>0, <1>1, <1>2, <1>3, <1>4, <1>6 DEF StreamInv
<1>8. \A j \in Conns \ {k} : SameStream(j)
  BY <1>1, <1>3 DEF SameStream
<1>9. (\A w \in Writers : SameWriter(w)) /\ ConnsStay
  BY <1>1 DEF SameWriter, ConnsStay
<1>10. RingsInv'
  BY <1>1, <1>2 DEF RingsInv
<1> QED
  BY <1>1, <1>7, <1>8, <1>9, <1>10, StreamStepWired

LEMMA DisconnectedWired ==
  ASSUME HonestInv, [Next]_vars, WiringInv, NEW k \in Conns, Disconnected(k)
  PROVE  WiringInv'
<1>0. PICK e : e = scope[k][2]
  OBVIOUS
<1>1. /\ pc[k] = "loop" /\ pc' = [pc EXCEPT ![k] = "closed"] /\ ch' = [ch EXCEPT ![k] = <<>>]
      /\ subs' = [subs EXCEPT ![e] = @ \ {k}]
      /\ UNCHANGED <<rings, scope, draft, msgVersion, targets, slow, sent, pending, best, wire,
                     conn, used>>
  BY <1>0 DEF Disconnected, Unsubscribe, writerVars, streamVars, clientVars
<1>2. HandlerType /\ HubType /\ RingsInv /\ StreamInv(k)
  BY DEF HonestInv, TypeOK, WiringInv
<1>3. /\ pc'[k] = "closed" /\ \A q \in Procs \ {k} : pc'[q] = pc[q]
      /\ ch'[k] = <<>> /\ \A j \in Conns \ {k} : ch'[j] = ch[j]
      /\ \A d \in EnvKeys : subs'[d] = IF d = e THEN subs[d] \ {k} ELSE subs[d]
  BY <1>1, <1>2, ProcsAre DEF HandlerType, HubType
<1>4. ch'[k] \in Seq(MessagesFor(e)) /\ \A d \in EnvKeys : k \notin subs'[d]
  BY <1>0, <1>2, <1>3, NoneQueued DEF StreamInv
<1>5. StreamInv(k)'
  BY <1>0, <1>1, <1>2, <1>3, <1>4 DEF StreamInv
<1>6. \A j \in Conns \ {k} : SameStream(j)
  BY <1>1, <1>3, ProcsAre DEF SameStream
<1>7. (\A w \in Writers : SameWriter(w)) /\ ConnsStay
  BY <1>1, <1>3, ProcsAre DEF SameWriter, ConnsStay
<1>8. RingsInv'
  BY <1>1, <1>2 DEF RingsInv
<1> QED
  BY <1>1, <1>5, <1>6, <1>7, <1>8, StreamStepWired

-----------------------------------------------------------------------------
(***************************************************************************)
(* The clients.                                                             *)
(***************************************************************************)
LEMMA ConnectWired ==
  ASSUME HonestInv, [Next]_vars, WiringInv, NEW c \in Clients, Connect(c)
  PROVE  WiringInv'
<1>0. PICK k : k = used + 1
  OBVIOUS
<1>1. /\ k \in Conns /\ used' = k /\ conn' = [conn EXCEPT ![c] = k]
      /\ scope' = [scope EXCEPT ![k] = ClientScope[c]]
      /\ pc' = [pc EXCEPT ![k] = "subscribe"]
      /\ UNCHANGED <<rings, subs, ch, draft, msgVersion, targets, slow, sent, pending, best, wire>>
  BY <1>0 DEF Connect, hubVars, writerVars
<1>2. HandlerType /\ ClientType /\ RingsInv /\ StreamInv(k) /\ used \in Nat /\ Conns \subseteq Nat
  BY <1>1 DEF HonestInv, TypeOK, WiringInv, ClientType, Conns
<1>3. /\ pc'[k] = "subscribe" /\ scope'[k] = ClientScope[c]
      /\ \A q \in Procs \ {k} : pc'[q] = pc[q] /\ scope'[q] = scope[q]
      /\ conn'[c] = k /\ \A d \in Clients \ {c} : conn'[d] = conn[d]
  BY <1>1, <1>2, ProcsAre DEF HandlerType, ClientType
<1>4. pc[k] = "idle" /\ k \in Nat
  BY <1>0, <1>1, <1>2 DEF StreamInv
<1>5. StreamInv(k)'
  <2>1. ~ (k > used')
    BY <1>1, <1>4
  <2>2. ch'[k] = <<>> /\ pending'[k] = <<>> /\ wire'[k] = <<>>
    BY <1>1, <1>2, <1>4 DEF StreamInv
  <2>3. \A e \in EnvKeys : k \notin subs'[e]
    BY <1>1, <1>2, <1>4 DEF StreamInv
  <2>4. best'[k] = Nil /\ sent'[k] = 0
    BY <1>1, <1>2, <1>4 DEF StreamInv
  <2> QED
    BY <1>3, <2>1, <2>2, <2>3, <2>4, NoneQueued DEF StreamInv
<1>6. ASSUME NEW j \in Conns, j # k PROVE StreamInv(j)'
  <2>1. j \in Nat /\ (j > used' <=> j > used)
    BY <1>0, <1>1, <1>2, <1>6
  <2>2. pc'[j] = pc[j] /\ scope'[j] = scope[j] /\ StreamInv(j)
    BY <1>3, <1>6, ProcsAre DEF WiringInv
  <2> QED
    BY <1>1, <2>1, <2>2 DEF StreamInv
<1>7. (\A w \in Writers : SameWriter(w)) /\ ConnsStay
  BY <1>1, <1>3, <1>4, ProcsAre DEF SameWriter, ConnsStay
<1>8. \A d \in Clients : ClientInv(d)'
  <2>1. ClientInv(c)'
    BY <1>3 DEF ClientInv
  <2>2. \A d \in Clients \ {c} : ClientInv(d)'
    BY <1>3, <1>7, ClientKept DEF WiringInv
  <2> QED
    BY <2>1, <2>2
<1>9. RingsInv'
  BY <1>1, <1>2 DEF RingsInv
<1> QED
  BY <1>5, <1>6, <1>7, <1>8, <1>9, WriterKept DEF WiringInv

\* HandleEvent and Drop shorten what is on the wire and may forget the connection.
LEMMA ReadWired ==
  ASSUME HonestInv, [Next]_vars, WiringInv, NEW c \in Clients, HandleEvent(c) \/ Drop(c)
  PROVE  WiringInv'
<1>0. PICK k : k = conn[c]
  OBVIOUS
<1>1. /\ k # Nil /\ k \in Conns
      /\ \/ wire[k] # <<>> /\ wire' = [wire EXCEPT ![k] = Tail(@)] /\ conn' = conn
         \/ wire' = [wire EXCEPT ![k] = <<>>] /\ conn' = [conn EXCEPT ![c] = Nil]
      /\ UNCHANGED <<rings, subs, ch, pc, scope, draft, msgVersion, targets, slow, sent,
                     pending, best, used>>
  BY <1>0 DEF HandleEvent, Drop, hubVars, writerVars, streamVars, HonestInv, TypeOK, ClientType
<1>2. StreamType /\ ClientType /\ RingsInv /\ StreamInv(k)
  BY <1>1 DEF HonestInv, TypeOK, WiringInv
<1>3. /\ \A j \in Conns \ {k} : wire'[j] = wire[j]
      /\ \A d \in Clients : conn'[d] \in {conn[d], Nil}
      /\ (wire[k] # <<>> /\ wire'[k] = Tail(wire[k])) \/ wire'[k] = <<>>
  BY <1>1, <1>2 DEF StreamType, ClientType
<1>4. wire'[k] \in Seq(SnapshotsFor(scope[k][2]))
  <2>1. wire[k] \in Seq(SnapshotsFor(scope[k][2]))
    BY <1>2 DEF StreamInv
  <2>2. wire[k] # <<>> => Tail(wire[k]) \in Seq(SnapshotsFor(scope[k][2]))
    BY <2>1, TailHead
  <2> QED
    BY <1>3, <2>2, NoneQueued
<1>5. StreamInv(k)'
  <2>1. pc[k] = "idle" => wire'[k] = <<>>
    BY <1>2, <1>3 DEF StreamInv
  <2> QED
    BY <1>1, <1>2, <1>4, <2>1 DEF StreamInv
<1>6. \A j \in Conns \ {k} : StreamInv(j)'
  BY <1>1, <1>3, StreamKept DEF SameStream, WiringInv
<1>7. (\A w \in Writers : SameWriter(w)) /\ ConnsStay
  BY <1>1 DEF SameWriter, ConnsStay
<1>8. RingsInv'
  BY <1>1, <1>2 DEF RingsInv
<1> QED
  BY <1>3, <1>5, <1>6, <1>7, <1>8, WriterKept, ClientKept DEF WiringInv

-----------------------------------------------------------------------------
LEMMA WiringInit == Init => WiringInv
<1> SUFFICES ASSUME Init PROVE WiringInv
  OBVIOUS
<1> USE DEF Init
<1>1. ASSUME NEW k \in Conns PROVE StreamInv(k)
  <2>1. k > 0 /\ k \in Procs
    BY ProcsAre DEF Conns
  <2> QED
    BY <2>1, NoneQueued DEF StreamInv
<1>2. ASSUME NEW w \in Writers PROVE WriterInv(w)
  BY ProcsAre DEF WriterInv, Drafting, Building
<1> QED
  BY <1>1, <1>2 DEF WiringInv, ClientInv, RingsInv

LEMMA WiringNext ==
  ASSUME HonestInv, [Next]_vars, WiringInv
  PROVE  WiringInv'
<1>1. CASE UNCHANGED vars
  <2> USE <1>1 DEF vars, storeVars, hubVars, writerVars, streamVars, clientVars
  <2>1. (\A k \in Conns : SameStream(k)) /\ (\A w \in Writers : SameWriter(w)) /\ ConnsStay
    BY DEF SameStream, SameWriter, ConnsStay
  <2>2. RingsInv'
    BY DEF WiringInv, RingsInv
  <2> QED
    BY <2>1, <2>2, StreamKept, WriterKept, ClientKept DEF WiringInv
<1>2. ASSUME NEW w \in Writers, NewRequest(w) \/ WriterStep(w) PROVE WiringInv'
  BY <1>2, NewRequestWired, IncrementWired, WriterBuildWired, PublishWired, SendWired,
     UnsubscribeSlowWired, RespondWired DEF WriterStep
<1>3. ASSUME NEW k \in Conns, StreamStep(k) PROVE WiringInv'
  BY <1>3, SubscribeWired, ReplayWired, WriteReplayedWired, StreamBuildWired,
     SendInitialWired, DeliverWired, DisconnectedWired DEF StreamStep
<1>4. ASSUME NEW c \in Clients, ClientStep(c) \/ Drop(c) PROVE WiringInv'
  BY <1>4, ConnectWired, ReadWired DEF ClientStep
<1> QED
  BY <1>1, <1>2, <1>3, <1>4 DEF Next

LEMMA WiringInvariant == Spec => [](HonestInv /\ WiringInv)
<1>1. Init => HonestInv /\ WiringInv
  BY HonestInit, WiringInit
<1>2. HonestInv /\ WiringInv /\ [Next]_vars => HonestInv' /\ WiringInv'
  BY HonestNext, WiringNext
<1> QED
  BY <1>1, <1>2, PTL DEF Spec

-----------------------------------------------------------------------------
(***************************************************************************)
(* The abstract specification.                                              *)
(***************************************************************************)
\* No two projects use the same environment key.  The hub knows environments by their
\* key alone, and without this the streams of one project get snapshots of another.
NoSharedEnvKeys == \A s, t \in Scopes : s[2] = t[2] => s = t

LEMMA FeedInit == Init => Feed!Init
BY ContentType DEF Init, Feed!Init, Content, NoContent, Feed!NoContent, StoreType

\* A write changes content forward, and nothing else that the feed shows.
LEMMA WriteIsChange ==
  ASSUME HonestInv, [Next]_vars, NEW w \in Writers, NewRequest(w)
  PROVE  Feed!Change
<1>1. committed' = committed /\ view' = view
  BY DEF NewRequest, PutFlagConfig, ChangeFlags, ChangeSegments, Request, clientVars
<1>2. \A s \in Scopes : Content(s)' \in Contents /\ AtLeast(Content(s)', Content(s))
  <2>1. StoreType'
    BY StoreTypeStep
  <2>2. ASSUME NEW s \in Scopes PROVE Content(s)' \in Contents
    <3>1. s[1] \in Projects
      BY ContentType DEF HonestInv, TypeOK
    <3> QED
      BY <2>1, <3>1 DEF StoreType, Content, Contents
  <2> QED
    BY <2>2, NextGrows DEF Grows
<1> QED
  BY <1>1, <1>2 DEF Feed!Change, Feed!Contents, Contents, Feed!AtLeast, AtLeast

\* IncrementEnvVersion records the content of the environment.
LEMMA IncrementIsCommit ==
  ASSUME HonestInv, NEW w \in Writers, NEW e \in EnvKeys, IncrementEnvVersion(w, e)
  PROVE  \E s \in Scopes : Feed!Commit(s)
<1> DEFINE s == <<scope[w][1], e>>
<1>1. s \in Scopes
  BY DEF IncrementEnvVersion, HonestInv, ScopeInv
<1>2. /\ committed' = [committed EXCEPT ![s] = Append(@, Content(s))]
      /\ UNCHANGED <<flags, segments, configs, view>>
  BY DEF IncrementEnvVersion, clientVars
<1> HIDE DEF s
<1>3. \A t \in Scopes : Content(t)' = Content(t)
  BY <1>2 DEF Content
<1>4. Feed!Commit(s)
  BY <1>1, <1>2, <1>3 DEF Feed!Commit
<1> QED
  BY <1>1, <1>4

\* HandleEvent gives the client an honest snapshot of its own environment.
LEMMA EventIsGiven ==
  ASSUME NoSharedEnvKeys, HonestInv, WiringInv, NEW c \in Clients, HandleEvent(c)
  PROVE  Feed!Give(c)
<1>0. PICK k, x : k = conn[c] /\ x = Head(wire[k])
  OBVIOUS
<1>1. /\ k \in Conns /\ wire[k] # <<>> /\ view' = [view EXCEPT ![c] = x]
      /\ UNCHANGED <<flags, segments, configs, committed>>
  BY <1>0 DEF HandleEvent, storeVars, HonestInv, TypeOK, ClientType
<1>2. scope[k] = ClientScope[c] /\ StreamInv(k) /\ ClientScope[c] \in Scopes
  BY <1>0, <1>1, NilAssumption, PropagationAssumption DEF WiringInv, ClientInv
<1>3. x \in SnapshotsFor(scope[k][2]) /\ x \in SoundSnapshots
  BY <1>0, <1>1, <1>2, TailHead DEF StreamInv, HonestInv, TransitInv
<1>4. ScopeOf(x) = ClientScope[c]
  <2>1. ScopeOf(x) \in Scopes /\ ScopeOf(x)[2] = ClientScope[c][2]
    BY <1>2, <1>3 DEF SnapshotsFor, SoundSnapshots, Sound, ScopeOf
  <2> QED
    BY <1>2, <2>1 DEF NoSharedEnvKeys
<1>5. view'[c] = x
  BY <1>1 DEF HonestInv, TypeOK, ClientType
<1>6. \A s \in Scopes : Content(s)' = Content(s)
  BY <1>1 DEF Content
<1>7. Feed!Honest(x, ClientScope[c])
  <2>1. PICK s : s = ClientScope[c] /\ s \in Scopes
    BY <1>2
  <2>2. /\ x.version \in Nat /\ x.version <= versions[s] /\ versions[s] \in Nat
        /\ Len(committed[s]) = versions[s]
        /\ AtLeast(Content(s), ContentOf(x))
        /\ \A v \in 1 .. x.version : AtLeast(ContentOf(x), committed[s][v])
    BY <1>3, <1>4, <2>1
    DEF SoundSnapshots, Sound, HonestInv, HistoryInv, TypeOK, StoreType, Snapshots
  <2>3. <<x.project, x.env>> = s
    BY <1>4, <2>1 DEF ScopeOf
  <2>4. x.version \in 0 .. Len(committed[s])
    BY <2>2
  <2>5. [t \in Scopes |-> Content(t)][s] = Content(s)
    BY <2>1
  <2> QED
    BY <2>1, <2>2, <2>3, <2>4, <2>5
    DEF Feed!Honest, Feed!AtLeast, AtLeast, Feed!ContentOf, ContentOf
<1>8. view' = [view EXCEPT ![c] = view'[c]]
  BY <1>1, <1>5
<1> QED
  BY <1>1, <1>5, <1>6, <1>7, <1>8 DEF Feed!Give

\* Only HandleEvent changes what a client evaluates with.
LEMMA ViewSteps ==
  ASSUME [Next]_vars
  PROVE  view' = view \/ \E c \in Clients : HandleEvent(c)
<1> USE DEF clientVars
<1>1. ASSUME NEW q, Build(q) PROVE view' = view
  BY <1>1 DEF Build, BuildGetEnvVersion, BuildListFlags, BuildListSegments,
     BuildGetFlagConfig, BuildStep
<1>2. ASSUME NEW w \in Writers, NewRequest(w) PROVE view' = view
  BY <1>2 DEF NewRequest, PutFlagConfig, ChangeFlags, ChangeSegments, Request
<1>3. ASSUME NEW w \in Writers, WriterStep(w) PROVE view' = view
  <2>1. ASSUME NEW e \in EnvKeys, IncrementEnvVersion(w, e) PROVE view' = view
    BY <2>1 DEF IncrementEnvVersion
  <2>2. CASE Publish(w)
    BY <2>2 DEF Publish
  <2>3. ASSUME NEW k \in Conns, Send(w, k) \/ UnsubscribeSlow(w, k) PROVE view' = view
    BY <2>3 DEF Send, UnsubscribeSlow
  <2>4. CASE Respond(w)
    BY <2>4 DEF Respond
  <2> QED
    BY <1>1, <1>3, <2>1, <2>2, <2>3, <2>4 DEF WriterStep
<1>4. ASSUME NEW k \in Conns, StreamStep(k) PROVE view' = view
  <2>1. CASE Subscribe(k)
    BY <2>1 DEF Subscribe
  <2>2. CASE Replay(k)
    BY <2>2 DEF Replay
  <2>3. CASE WriteReplayed(k)
    BY <2>3 DEF WriteReplayed
  <2>4. CASE SendInitial(k)
    BY <2>4 DEF SendInitial
  <2>5. CASE Deliver(k)
    BY <2>5 DEF Deliver, DeliverFrame
  <2>6. CASE Disconnected(k)
    BY <2>6 DEF Disconnected
  <2> QED
    BY <1>1, <1>4, <2>1, <2>2, <2>3, <2>4, <2>5, <2>6 DEF StreamStep
<1>5. ASSUME NEW c \in Clients, ClientStep(c) \/ Drop(c)
      PROVE  view' = view \/ HandleEvent(c)
  BY <1>5 DEF ClientStep, Connect, Drop
<1>6. CASE UNCHANGED vars
  BY <1>6 DEF vars
<1> QED
  BY <1>2, <1>3, <1>4, <1>5, <1>6 DEF Next

\* Every step of the service is a step of the feed, or the feed does not see it.
LEMMA FeedNext ==
  ASSUME NoSharedEnvKeys, HonestInv, WiringInv, [Next]_vars
  PROVE  [Feed!Next]_(Feed!vars)
<1>1. CASE UNCHANGED storeVars /\ view' = view
  <2>1. \A s \in Scopes : Content(s)' = Content(s)
    BY <1>1 DEF Content, storeVars
  <2> QED
    BY <1>1, <2>1 DEF Feed!vars, storeVars
<1>2. ASSUME NEW w \in Writers, NewRequest(w) PROVE Feed!Next
  BY <1>2, WriteIsChange DEF Feed!Next
<1>3. ASSUME NEW w \in Writers, NEW e \in EnvKeys, IncrementEnvVersion(w, e) PROVE Feed!Next
  BY <1>3, IncrementIsCommit DEF Feed!Next
<1>4. ASSUME NEW c \in Clients, HandleEvent(c) PROVE Feed!Next
  BY <1>4, EventIsGiven DEF Feed!Next
<1> QED
  BY <1>1, <1>2, <1>3, <1>4, StoreSteps, ViewSteps DEF NewRequest

\* FeedImplemented: whatever the handlers, the hub and the clients do together, in any
\* order, is what SnapshotFeed allows: the content of an environment moves forward, each
\* new version records it, and a client is only ever given a snapshot of its own
\* environment that contains all that its version promises (sdkStream, Build, Publish and
\* handleEvent), as long as no two projects use the same environment key.
THEOREM FeedImplemented ==
  ASSUME NoSharedEnvKeys
  PROVE  Spec => ImplementsFeed
<1>1. HonestInv /\ WiringInv /\ [Next]_vars => [Feed!Next]_(Feed!vars)
  BY FeedNext
<1> QED
  BY <1>1, FeedInit, WiringInvariant, PTL DEF Spec, ImplementsFeed, Feed!Spec

-----------------------------------------------------------------------------
(***************************************************************************)
(* The number of subscribers.                                               *)
(***************************************************************************)
Subscribed == {k \in Conns : \E e \in EnvKeys : k \in subs[e]}

LEMMA SubsSteps ==
  ASSUME [Next]_vars
  PROVE  \/ UNCHANGED <<subs, active>>
         \/ \E k \in Conns : Subscribe(k) \/ Disconnected(k)
         \/ \E w \in Writers, k \in Conns : UnsubscribeSlow(w, k)
<1> USE DEF hubVars
<1>1. ASSUME NEW q, Build(q) PROVE UNCHANGED <<subs, active>>
  BY <1>1 DEF Build, BuildGetEnvVersion, BuildListFlags, BuildListSegments,
     BuildGetFlagConfig, BuildStep
<1>2. ASSUME NEW w \in Writers, NewRequest(w) PROVE UNCHANGED <<subs, active>>
  BY <1>2 DEF NewRequest, PutFlagConfig, ChangeFlags, ChangeSegments, Request
<1>3. ASSUME NEW w \in Writers, WriterStep(w)
      PROVE  UNCHANGED <<subs, active>> \/ \E k \in Conns : UnsubscribeSlow(w, k)
  <2>1. ASSUME NEW e \in EnvKeys, IncrementEnvVersion(w, e) PROVE UNCHANGED <<subs, active>>
    BY <2>1 DEF IncrementEnvVersion
  <2>2. CASE Publish(w)
    BY <2>2 DEF Publish
  <2>3. ASSUME NEW k \in Conns, Send(w, k) PROVE UNCHANGED <<subs, active>>
    BY <2>3 DEF Send
  <2>4. CASE Respond(w)
    BY <2>4 DEF Respond
  <2> QED
    BY <1>1, <1>3, <2>1, <2>2, <2>3, <2>4 DEF WriterStep
<1>4. ASSUME NEW k \in Conns, StreamStep(k)
      PROVE  UNCHANGED <<subs, active>> \/ Subscribe(k) \/ Disconnected(k)
  <2>1. CASE Replay(k)
    BY <2>1 DEF Replay
  <2>2. CASE WriteReplayed(k)
    BY <2>2 DEF WriteReplayed
  <2>3. CASE SendInitial(k)
    BY <2>3 DEF SendInitial
  <2>4. CASE Deliver(k)
    BY <2>4 DEF Deliver, DeliverFrame
  <2> QED
    BY <1>1, <1>4, <2>1, <2>2, <2>3, <2>4 DEF StreamStep
<1>5. ASSUME NEW c \in Clients, ClientStep(c) \/ Drop(c) PROVE UNCHANGED <<subs, active>>
  BY <1>5 DEF ClientStep, Connect, HandleEvent, Drop
<1>6. CASE UNCHANGED vars
  BY <1>6 DEF vars
<1> QED
  BY <1>2, <1>3, <1>4, <1>5, <1>6 DEF Next

LEMMA SubscribedFinite == IsFiniteSet(Subscribed)
<1>1. IsFiniteSet(Conns)
  BY PropagationAssumption, FS_Interval DEF Conns
<1> QED
  BY <1>1, FS_Subset DEF Subscribed

\* Unsubscribe counts a stream that is still there, and only that.
LEMMA UnsubscribeCounts ==
  ASSUME HubType, NEW k \in Conns, NEW e \in EnvKeys, Unsubscribe(e, k),
         \A d \in EnvKeys : k \in subs[d] => d = e,
         active = Cardinality(Subscribed)
  PROVE  active' = Cardinality(Subscribed')
<1>1. /\ subs' = [subs EXCEPT ![e] = @ \ {k}]
      /\ active' = IF k \in subs[e] THEN active - 1 ELSE active
  BY DEF Unsubscribe
<1>2. \A d \in EnvKeys : subs'[d] = IF d = e THEN subs[e] \ {k} ELSE subs[d]
  BY <1>1 DEF HubType
<1>3. Subscribed' = Subscribed \ {k}
  BY <1>2 DEF Subscribed
<1>4. k \in Subscribed <=> k \in subs[e]
  BY DEF Subscribed
<1>5. Cardinality(Subscribed \ {k}) =
        IF k \in Subscribed THEN Cardinality(Subscribed) - 1 ELSE Cardinality(Subscribed)
  BY SubscribedFinite, FS_RemoveElement
<1> QED
  BY <1>1, <1>3, <1>4, <1>5

LEMMA SubscribersNext ==
  ASSUME HonestInv, WiringInv, [Next]_vars, active = Cardinality(Subscribed)
  PROVE  active' = Cardinality(Subscribed')
<1>1. HubType /\ ScopeInv /\ Scopes \subseteq Projects \X EnvKeys
  BY PropagationAssumption DEF HonestInv, TypeOK
<1>2. CASE UNCHANGED <<subs, active>>
  BY <1>2 DEF Subscribed
<1>3. ASSUME NEW k \in Conns, pc[k] # "idle" PROVE scope[k][2] \in EnvKeys
  BY <1>1, <1>3 DEF ScopeInv
<1>4. ASSUME NEW k \in Conns, Subscribe(k) PROVE active' = Cardinality(Subscribed')
  <2>0. PICK e \in EnvKeys : e = scope[k][2]
    BY <1>3, <1>4 DEF Subscribe
  <2>1. pc[k] = "subscribe" /\ subs' = [subs EXCEPT ![e] = @ \cup {k}] /\ active' = active + 1
    BY <1>4, <2>0 DEF Subscribe
  <2>2. \A d \in EnvKeys : subs'[d] = IF d = e THEN subs[e] \cup {k} ELSE subs[d]
    BY <1>1, <2>1 DEF HubType
  <2>3. k \notin Subscribed
    BY <2>1 DEF WiringInv, StreamInv, Subscribed
  <2>4. Subscribed' = Subscribed \cup {k}
    BY <2>2 DEF Subscribed
  <2>5. Cardinality(Subscribed \cup {k}) = Cardinality(Subscribed) + 1
    BY <2>3, SubscribedFinite, FS_AddElement
  <2> QED
    BY <2>1, <2>4, <2>5
<1>5. ASSUME NEW k \in Conns, Disconnected(k) PROVE active' = Cardinality(Subscribed')
  <2>1. pc[k] = "loop" /\ Unsubscribe(scope[k][2], k)
    BY <1>5 DEF Disconnected
  <2>2. scope[k][2] \in EnvKeys /\ \A d \in EnvKeys : k \in subs[d] => d = scope[k][2]
    BY <1>3, <2>1 DEF WiringInv, StreamInv
  <2> QED
    BY <1>1, <2>1, <2>2, UnsubscribeCounts
<1>6. ASSUME NEW w \in Writers, NEW k \in Conns, UnsubscribeSlow(w, k)
      PROVE  active' = Cardinality(Subscribed')
  <2>1. k \in slow[w] /\ Unsubscribe(scope[w][2], k)
    BY <1>6 DEF UnsubscribeSlow
  <2>2. pc[k] # "idle" /\ scope[w][2] = scope[k][2]
    BY <2>1 DEF WiringInv, WriterInv
  <2>3. scope[w][2] \in EnvKeys /\ \A d \in EnvKeys : k \in subs[d] => d = scope[w][2]
    BY <1>3, <2>2 DEF WiringInv, StreamInv
  <2> QED
    BY <1>1, <2>1, <2>3, UnsubscribeCounts
<1> QED
  BY <1>2, <1>4, <1>5, <1>6, SubsSteps

\* SubscribersCountedAlways: ActiveConnections is the number of subscribers, and a stream
\* handler that has returned is not one of them, however the second loop of Publish and
\* the deferred Unsubscribe of sdkStream interleave.
THEOREM SubscribersCountedAlways == Spec => []SubscribersCounted
<1> DEFINE Counted == active = Cardinality(Subscribed)
<1>1. Init => Counted
  <2> SUFFICES ASSUME Init PROVE Counted
    OBVIOUS
  <2>1. Subscribed = {} /\ active = 0
    BY DEF Init, Subscribed
  <2> QED
    BY <2>1, FS_EmptySet
<1>2. HonestInv /\ WiringInv /\ [Next]_vars /\ Counted => Counted'
  BY SubscribersNext
<1>3. HonestInv /\ WiringInv /\ Counted => SubscribersCounted
  BY DEF SubscribersCounted, WiringInv, StreamInv, Subscribed
<1> QED
  BY <1>1, <1>2, <1>3, WiringInvariant, PTL DEF Spec

-----------------------------------------------------------------------------
(***************************************************************************)
(* DeliveryInv is inductive: what a step leaves alone.                      *)
(***************************************************************************)
StillStream(k) ==
  /\ pc'[k] = pc[k] /\ scope'[k] = scope[k] /\ exact'[k] = exact[k] /\ best'[k] = best[k]
  /\ pending'[k] = pending[k] /\ sent'[k] = sent[k] /\ from'[k] = from[k]
  /\ k \in subs'[scope[k][2]] => k \in subs[scope[k][2]]

StillFlying(k) ==
  \A w \in Writers, v \in Nat : InFlight(w, k, v) => InFlight(w, k, v)'

LEMMA FlightKept ==
  ASSUME NEW w \in Writers, NEW k \in Conns, SameWriter(w), scope'[k] = scope[k]
  PROVE  \A v \in Nat : InFlight(w, k, v) => InFlight(w, k, v)'
BY DEF SameWriter, InFlight

LEMMA SentKept ==
  ASSUME NEW k \in Conns, SentInv(k), StillStream(k)
  PROVE  SentInv(k)'
BY DEF SentInv, StillStream

LEMMA CoverKept ==
  ASSUME NEW k \in Conns, CoverInv(k), StillStream(k), ch'[k] = ch[k],
         versions'[scope[k]] = versions[scope[k]], Listening(k)' => StillFlying(k)
  PROVE  CoverInv(k)'
<1> SUFFICES ASSUME Listening(k)', NEW v \in 1 .. versions[scope[k]] PROVE Covered(k, v)'
  BY DEF CoverInv, StillStream
<1>1. Covered(k, v)
  BY DEF CoverInv, Listening, StillStream
<1>2. ASSUME NEW w \in Writers, InFlight(w, k, v) PROVE InFlight(w, k, v)'
  BY <1>2 DEF StillFlying
<1> QED
  BY <1>1, <1>2 DEF Covered, StillStream

LEMMA PublishedKept ==
  ASSUME PublishedInv, versions' = versions, published' = published,
         \A w \in Writers : pc[w] \in Building =>
           pc'[w] \in Building /\ scope'[w] = scope[w] /\ msgVersion'[w] = msgVersion[w]
  PROVE  PublishedInv'
BY DEF PublishedInv

\* The snapshot with the highest label that has been written only gets newer.
LEMMA NewestIs ==
  ASSUME NEW a \in Snapshots \cup {Nil}, NEW b \in Snapshots
  PROVE  /\ Newest(a, b) \in Snapshots /\ Newest(a, b) # Nil
         /\ b.version <= Newest(a, b).version
         /\ a # Nil => a.version <= Newest(a, b).version
<1>1. b.version \in Nat /\ (a # Nil => a.version \in Nat /\ a \in Snapshots)
  BY DEF Snapshots
<1> QED
  BY <1>1, NilAssumption DEF Newest

\* A step of a handler that changes neither queues nor versions.
LEMMA WriterStepDelivers ==
  ASSUME DeliveryInv, versions' = versions, published' = published, ch' = ch,
         \A k \in Conns : StillStream(k) /\ StillFlying(k),
         \A w \in Writers : pc[w] \in Building =>
           pc'[w] \in Building /\ scope'[w] = scope[w] /\ msgVersion'[w] = msgVersion[w]
  PROVE  DeliveryInv'
BY PublishedKept, SentKept, CoverKept DEF DeliveryInv

\* A step of stream k.
LEMMA StreamStepDelivers ==
  ASSUME HonestInv, DeliveryInv, NEW k \in Conns, SentInv(k)', CoverInv(k)',
         versions' = versions, published' = published,
         \A w \in Writers : SameWriter(w),
         \A j \in Conns \ {k} : StillStream(j) /\ ch'[j] = ch[j]
  PROVE  DeliveryInv'
<1>1. PublishedInv'
  BY PublishedKept DEF DeliveryInv, SameWriter
<1>2. ASSUME NEW j \in Conns \ {k} PROVE SentInv(j)' /\ CoverInv(j)'
  <2>1. StillFlying(j)
    BY FlightKept DEF StillFlying, StillStream
  <2> QED
    BY <2>1, SentKept, CoverKept DEF DeliveryInv
<1> QED
  BY <1>1, <1>2 DEF DeliveryInv

-----------------------------------------------------------------------------
(***************************************************************************)
(* The management handlers.                                                 *)
(***************************************************************************)
\* A handler that works on nothing, or has published everything, has nothing in flight.
LEMMA NothingInFlight ==
  ASSUME NEW w \in Writers, WriterInv(w), NEW k, NEW v,
         pc[w] = "idle" \/ (pc[w] = "publishing" /\ PublishReturned(w))
  PROVE  ~ InFlight(w, k, v)
BY NobodyLeft DEF InFlight

LEMMA NewRequestDelivers ==
  ASSUME HonestInv, WiringInv, DeliveryInv, NEW w \in Writers, NewRequest(w)
  PROVE  DeliveryInv'
<1>1. PICK p, envs : p \in Projects /\ Request(w, p, envs)
  BY DEF NewRequest, PutFlagConfig, ChangeFlags, ChangeSegments
<1>2. /\ pc[w] = "idle" /\ pc' = [pc EXCEPT ![w] = "publishing"]
      /\ scope' = [scope EXCEPT ![w] = <<p, Nil>>]
      /\ UNCHANGED <<versions, published, subs, ch, draft, msgVersion, targets, slow, from, sent,
                     pending, exact, best>>
  BY <1>1 DEF Request, hubVars, streamVars
<1>3. HandlerType /\ WriterInv(w)
  BY DEF HonestInv, TypeOK, WiringInv
<1>4. \A q \in Procs \ {w} : pc'[q] = pc[q] /\ scope'[q] = scope[q]
  BY <1>2, <1>3 DEF HandlerType
<1>5. \A q \in Writers \ {w} : SameWriter(q)
  BY <1>2, <1>4, ProcsAre DEF SameWriter
<1>6. ASSUME NEW k \in Conns PROVE StillStream(k) /\ StillFlying(k)
  <2>1. StillStream(k)
    BY <1>2, <1>4, ProcsAre DEF StillStream
  <2>2. \A v \in Nat : ~ InFlight(w, k, v)
    BY <1>2, <1>3, NothingInFlight
  <2> QED
    BY <1>5, <2>1, <2>2, FlightKept DEF StillFlying, StillStream
<1>7. \A q \in Writers : pc[q] \in Building =>
        pc'[q] \in Building /\ scope'[q] = scope[q] /\ msgVersion'[q] = msgVersion[q]
  BY <1>2, <1>5 DEF SameWriter, Building
<1> QED
  BY <1>2, <1>6, <1>7, WriterStepDelivers

LEMMA RespondDelivers ==
  ASSUME HonestInv, WiringInv, DeliveryInv, NEW w \in Writers, Respond(w)
  PROVE  DeliveryInv'
<1>1. /\ pc[w] = "publishing" /\ PublishReturned(w) /\ pc' = [pc EXCEPT ![w] = "idle"]
      /\ scope' = [scope EXCEPT ![w] = Nil] /\ draft' = [draft EXCEPT ![w] = Nil]
      /\ msgVersion' = [msgVersion EXCEPT ![w] = 0]
      /\ UNCHANGED <<versions, published, subs, ch, targets, slow, from, sent, pending, exact, best>>
  BY DEF Respond, storeVars, hubVars, streamVars
<1>2. HandlerType /\ WriterType /\ WriterInv(w)
  BY DEF HonestInv, TypeOK, WiringInv
<1>3. \A q \in Procs \ {w} : pc'[q] = pc[q] /\ scope'[q] = scope[q] /\ draft'[q] = draft[q]
  BY <1>1, <1>2 DEF HandlerType
<1>4. \A q \in Writers \ {w} : SameWriter(q)
  BY <1>1, <1>2, <1>3, ProcsAre DEF SameWriter, WriterType
<1>5. ASSUME NEW k \in Conns PROVE StillStream(k) /\ StillFlying(k)
  <2>1. StillStream(k)
    BY <1>1, <1>3, ProcsAre DEF StillStream
  <2>2. \A v \in Nat : ~ InFlight(w, k, v)
    BY <1>1, <1>2, NothingInFlight
  <2> QED
    BY <1>4, <2>1, <2>2, FlightKept DEF StillFlying, StillStream
<1>6. \A q \in Writers : pc[q] \in Building =>
        pc'[q] \in Building /\ scope'[q] = scope[q] /\ msgVersion'[q] = msgVersion[q]
  BY <1>1, <1>4 DEF SameWriter, Building
<1> QED
  BY <1>1, <1>5, <1>6, WriterStepDelivers

\* The new version is in flight from the moment that it exists.
LEMMA IncrementDelivers ==
  ASSUME HonestInv, WiringInv, DeliveryInv, NEW w \in Writers, NEW e \in EnvKeys,
         IncrementEnvVersion(w, e)
  PROVE  DeliveryInv'
<1>0. PICK s : s = <<scope[w][1], e>>
  OBVIOUS
<1>1. /\ pc[w] = "publishing" /\ PublishReturned(w) /\ pc' = [pc EXCEPT ![w] = "build"]
      /\ scope' = [scope EXCEPT ![w] = s] /\ e \in todo[w]
      /\ versions' = [versions EXCEPT ![s] = @ + 1]
      /\ msgVersion' = [msgVersion EXCEPT ![w] = versions[s] + 1]
      /\ UNCHANGED <<published, subs, ch, draft, targets, slow, from, sent, pending, exact, best>>
  BY <1>0 DEF IncrementEnvVersion, hubVars, streamVars
<1>2. HandlerType /\ WriterType /\ StoreType /\ WriterInv(w) /\ s \in Scopes /\ ScopeInv
  BY <1>0, <1>1 DEF HonestInv, TypeOK, WiringInv, ScopeInv
<1>3. \A q \in Procs \ {w} : pc'[q] = pc[q] /\ scope'[q] = scope[q]
  BY <1>1, <1>2 DEF HandlerType
<1>4. /\ pc'[w] = "build" /\ scope'[w] = s /\ msgVersion'[w] = versions[s] + 1
      /\ \A q \in Writers \ {w} : SameWriter(q)
  BY <1>1, <1>2, <1>3, ProcsAre DEF HandlerType, WriterType, SameWriter
<1>5. ASSUME NEW t \in Scopes, NEW v \in 1 .. versions'[t]
      PROVE  v \in 1 .. versions[t] \/ (t = s /\ v = msgVersion'[w])
  <2>1. versions[t] \in Nat /\ versions'[t] = IF t = s THEN versions[t] + 1 ELSE versions[t]
    BY <1>1, <1>2 DEF StoreType
  <2> QED
    BY <1>4, <2>1
<1>6. PublishedInv'
  <2> SUFFICES ASSUME NEW t \in Scopes, NEW v \in 1 .. versions'[t]
               PROVE  \/ v <= published[t]
                      \/ \E q \in Writers :
                           scope'[q] = t /\ msgVersion'[q] = v /\ pc'[q] \in Building
    BY <1>1 DEF PublishedInv
  <2>1. CASE t = s /\ v = msgVersion'[w]
    BY <1>4, <2>1 DEF Building
  <2>2. CASE v \in 1 .. versions[t]
    BY <1>1, <1>4, <2>2 DEF DeliveryInv, PublishedInv, SameWriter, Building
  <2> QED
    BY <1>5, <2>1, <2>2
<1>7. ASSUME NEW k \in Conns PROVE SentInv(k)' /\ CoverInv(k)'
  <2>1. StillStream(k)
    BY <1>1, <1>3, ProcsAre DEF StillStream
  <2>2. \A v \in Nat : ~ InFlight(w, k, v)
    BY <1>1, <1>2, NothingInFlight
  <2>3. StillFlying(k)
    BY <1>4, <2>1, <2>2, FlightKept DEF StillFlying, StillStream
  <2>4. CoverInv(k)'
    <3> SUFFICES ASSUME Listening(k)', NEW v \in 1 .. versions'[scope[k]] PROVE Covered(k, v)'
      BY <2>1 DEF CoverInv, StillStream
    <3>1. Listening(k) /\ scope[k] \in Scopes
      BY <1>2, <2>1 DEF Listening, StillStream, ScopeInv
    <3>2. CASE scope[k] = s /\ v = msgVersion'[w]
      <4>1. InFlight(w, k, v)'
        BY <1>4, <2>1, <3>2 DEF InFlight, StillStream
      <4> QED
        BY <4>1 DEF Covered
    <3>3. CASE v \in 1 .. versions[scope[k]]
      <4>1. Covered(k, v)
        BY <3>1, <3>3 DEF DeliveryInv, CoverInv
      <4>2. ASSUME NEW q \in Writers, InFlight(q, k, v) PROVE InFlight(q, k, v)'
        BY <2>3, <3>3, <4>2 DEF StillFlying
      <4> QED
        BY <1>1, <2>1, <4>1, <4>2 DEF Covered, StillStream
    <3> QED
      BY <1>5, <3>1, <3>2, <3>3
  <2> QED
    BY <2>1, <2>4, SentKept DEF DeliveryInv
<1> QED
  BY <1>6, <1>7 DEF DeliveryInv

LEMMA WriterBuildDelivers ==
  ASSUME HonestInv, DeliveryInv, NEW w \in Writers, Build(w)
  PROVE  DeliveryInv'
<1>1. /\ pc[w] \in Building \ {"built"} /\ pc'[w] \in Drafting /\ scope' = scope
      /\ \A r \in Procs \ {w} : pc'[r] = pc[r] /\ draft'[r] = draft[r]
      /\ UNCHANGED <<versions, published, subs, ch, msgVersion, targets, slow, from, sent,
                     pending, exact, best>>
  BY BuildIs, ProcsAre DEF storeVars, hubVars, writerVars, streamVars
<1>2. \A q \in Writers \ {w} : SameWriter(q)
  BY <1>1, ProcsAre DEF SameWriter
<1>3. ASSUME NEW k \in Conns PROVE StillStream(k) /\ StillFlying(k)
  <2>1. StillStream(k)
    BY <1>1, ProcsAre DEF StillStream
  <2>2. \A v \in Nat : InFlight(w, k, v) => InFlight(w, k, v)'
    BY <1>1 DEF InFlight, Drafting, Building
  <2> QED
    BY <1>2, <2>1, <2>2, FlightKept DEF StillFlying, StillStream
<1>4. \A q \in Writers : pc[q] \in Building =>
        pc'[q] \in Building /\ scope'[q] = scope[q] /\ msgVersion'[q] = msgVersion[q]
  BY <1>1, <1>2 DEF SameWriter, Building, Drafting
<1> QED
  BY <1>1, <1>3, <1>4, WriterStepDelivers

\* Publish takes the subscribers of the moment: a stream that listens is one of them.
LEMMA PublishDelivers ==
  ASSUME HonestInv, WiringInv, DeliveryInv, NEW w \in Writers, Publish(w)
  PROVE  DeliveryInv'
<1>0. PICK e, m : e = scope[w][2] /\ m = msgVersion[w]
  OBVIOUS
<1>1. /\ pc[w] = "built" /\ pc' = [pc EXCEPT ![w] = "publishing"]
      /\ published' = [published EXCEPT ![scope[w]] = IF m > @ THEN m ELSE @]
      /\ targets' = [targets EXCEPT ![w] = subs[e]]
      /\ UNCHANGED <<versions, subs, ch, scope, draft, msgVersion, slow, from, sent, pending,
                     exact, best>>
  BY <1>0 DEF Publish, Message, storeVars, streamVars
<1>2. HandlerType /\ WriterType /\ HubType /\ StoreType /\ m \in Nat
  BY <1>0 DEF HonestInv, TypeOK, WriterType
<1>3. /\ pc'[w] = "publishing" /\ targets'[w] = subs[e]
      /\ \A q \in Procs \ {w} : pc'[q] = pc[q]
  BY <1>1, <1>2, ProcsAre DEF HandlerType, WriterType
<1>4. \A q \in Writers \ {w} : SameWriter(q)
  BY <1>1, <1>2, <1>3, ProcsAre DEF SameWriter, WriterType
<1>5. PublishedInv'
  <2> SUFFICES ASSUME NEW s \in Scopes, NEW v \in 1 .. versions[s]
               PROVE  \/ v <= published'[s]
                      \/ \E q \in Writers :
                           scope'[q] = s /\ msgVersion'[q] = v /\ pc'[q] \in Building
    BY <1>1 DEF PublishedInv
  <2>1. /\ published[s] \in Nat /\ published'[s] \in Nat /\ published[s] <= published'[s]
        /\ s = scope[w] => m <= published'[s]
    BY <1>1, <1>2 DEF HubType
  <2>2. v \in Nat
    BY <1>2 DEF StoreType
  <2>3. CASE v <= published[s]
    BY <2>1, <2>2, <2>3
  <2>4. CASE \E q \in Writers : scope[q] = s /\ msgVersion[q] = v /\ pc[q] \in Building
    <3>1. PICK q \in Writers : scope[q] = s /\ msgVersion[q] = v /\ pc[q] \in Building
      BY <2>4
    <3>2. CASE q = w
      BY <1>0, <2>1, <3>1, <3>2
    <3>3. CASE q # w
      BY <1>4, <3>1, <3>3 DEF SameWriter
    <3> QED
      BY <3>2, <3>3
  <2> QED
    BY <2>3, <2>4 DEF DeliveryInv, PublishedInv
<1>6. ASSUME NEW k \in Conns PROVE SentInv(k)' /\ CoverInv(k)'
  <2>1. StillStream(k)
    BY <1>1, <1>3, ProcsAre DEF StillStream
  <2>2. ASSUME Listening(k)', NEW v \in Nat, InFlight(w, k, v) PROVE InFlight(w, k, v)'
    <3>1. scope[w] = scope[k] /\ k \in subs[scope[k][2]] /\ msgVersion[w] = v
      BY <1>1, <2>2 DEF Listening, InFlight
    <3> QED
      BY <1>0, <1>1, <1>3, <3>1 DEF InFlight
  <2>3. Listening(k)' => StillFlying(k)
    BY <1>4, <2>1, <2>2, FlightKept DEF StillFlying, StillStream
  <2> QED
    BY <1>1, <2>1, <2>3, SentKept, CoverKept DEF DeliveryInv
<1> QED
  BY <1>5, <1>6 DEF DeliveryInv

\* A subscriber that a message is sent to has it in its queue, or is slow.
LEMMA SendDelivers ==
  ASSUME HonestInv, DeliveryInv, NEW w \in Writers, NEW k \in Conns, Send(w, k)
  PROVE  DeliveryInv'
<1>0. PICK m : m = Message(msgVersion[w], draft[w])
  OBVIOUS
<1>1. /\ pc[w] = "publishing" /\ k \in targets[w]
      /\ targets' = [targets EXCEPT ![w] = @ \ {k}]
      /\ \/ ch' = [ch EXCEPT ![k] = Append(@, m)] /\ slow' = slow
         \/ slow' = [slow EXCEPT ![w] = @ \cup {k}] /\ ch' = ch
      /\ UNCHANGED <<versions, published, subs, pc, scope, draft, msgVersion, from, sent, pending,
                     exact, best>>
  BY <1>0, Zenon DEF Send, storeVars, hubVars, streamVars
<1>2. WriterType /\ HubType
  BY DEF HonestInv, TypeOK
<1>3. \A q \in Writers \ {w} : SameWriter(q)
  BY <1>1, <1>2 DEF SameWriter, WriterType
<1>4. /\ targets'[w] = targets[w] \ {k}
      /\ \/ ch'[k] = Append(ch[k], m) /\ slow'[w] = slow[w]
         \/ ch'[k] = ch[k] /\ slow'[w] = slow[w] \cup {k}
      /\ \A j \in Conns \ {k} : ch'[j] = ch[j]
  BY <1>1, <1>2 DEF WriterType, HubType
<1>5. \A j \in Conns : StillStream(j)
  BY <1>1 DEF StillStream
<1>6. ASSUME NEW j \in Conns \ {k} PROVE CoverInv(j)'
  <2>1. \A v \in Nat : InFlight(w, j, v) => InFlight(w, j, v)'
    BY <1>1, <1>4 DEF InFlight
  <2>2. StillFlying(j)
    BY <1>1, <1>3, <2>1, FlightKept DEF StillFlying
  <2> QED
    BY <1>1, <1>4, <1>5, <2>2, CoverKept DEF DeliveryInv
<1>7. CoverInv(k)'
  <2> SUFFICES ASSUME Listening(k)', NEW v \in 1 .. versions[scope[k]] PROVE Covered(k, v)'
    BY <1>1 DEF CoverInv
  <2>1. Covered(k, v)
    BY <1>1 DEF DeliveryInv, CoverInv, Listening
  <2>2. ASSUME NEW q \in Writers \ {w}, InFlight(q, k, v) PROVE Covered(k, v)'
    <3>1. InFlight(q, k, v)'
      BY <1>1, <1>3, <2>2 DEF InFlight, SameWriter
    <3> QED
      BY <3>1 DEF Covered
  <2>3. ch[k] \in Seq(Messages) /\ ch'[k] \in {ch[k], Append(ch[k], m)} /\ m.version = msgVersion[w]
    BY <1>0, <1>2, <1>4 DEF HubType, Message
  <2>4. ASSUME NEW i \in 1 .. Len(ch[k]), ch[k][i].version = v PROVE Covered(k, v)'
    <3>1. i \in 1 .. Len(ch'[k]) /\ ch'[k][i] = ch[k][i]
      BY <2>3
    <3> QED
      BY <2>4, <3>1 DEF Covered
  <2>5. CASE InFlight(w, k, v)
    <3>1. CASE slow'[w] = slow[w] \cup {k}
      <4>1. InFlight(w, k, v)'
        BY <1>1, <2>5, <3>1 DEF InFlight
      <4> QED
        BY <4>1 DEF Covered
    <3>2. CASE ch'[k] = Append(ch[k], m)
      <4>1. /\ Len(ch'[k]) \in 1 .. Len(ch'[k]) /\ ch'[k][Len(ch'[k])] = m
            /\ m.version = v
        BY <2>3, <2>5, <3>2 DEF InFlight
      <4> QED
        BY <4>1 DEF Covered
    <3> QED
      BY <1>4, <3>1, <3>2
  <2> QED
    BY <1>1, <2>1, <2>2, <2>4, <2>5 DEF Covered
<1>8. PublishedInv'
  BY <1>1, PublishedKept DEF DeliveryInv
<1> QED
  BY <1>5, <1>6, <1>7, <1>8, SentKept DEF DeliveryInv

\* A slow subscriber no longer listens.
LEMMA UnsubscribeSlowDelivers ==
  ASSUME HonestInv, WiringInv, DeliveryInv, NEW w \in Writers, NEW k \in Conns,
         UnsubscribeSlow(w, k)
  PROVE  DeliveryInv'
<1>1. /\ pc[w] = "publishing" /\ k \in slow[w]
      /\ slow' = [slow EXCEPT ![w] = @ \ {k}]
      /\ subs' = [subs EXCEPT ![scope[w][2]] = @ \ {k}]
      /\ UNCHANGED <<versions, published, ch, pc, scope, draft, msgVersion, targets, from, sent,
                     pending, exact, best>>
  BY DEF UnsubscribeSlow, Unsubscribe, storeVars, streamVars
<1>2. WriterType /\ HubType
  BY DEF HonestInv, TypeOK
<1>3. \A q \in Writers \ {w} : SameWriter(q)
  BY <1>1, <1>2 DEF SameWriter, WriterType
<1>4. \A e \in EnvKeys : subs'[e] \subseteq subs[e]
  BY <1>1, <1>2 DEF HubType
<1>5. scope[k] \in Scopes /\ scope[k][2] = scope[w][2] /\ scope[k][2] \in EnvKeys
  <2>1. pc[k] # "idle" /\ scope[k][2] = scope[w][2]
    BY <1>1 DEF WiringInv, WriterInv
  <2> QED
    BY <2>1, PropagationAssumption DEF HonestInv, ScopeInv
<1>6. k \notin subs'[scope[k][2]]
  BY <1>1, <1>2, <1>5 DEF HubType
<1>7. SentInv(k)' /\ CoverInv(k)'
  <2>1. StillStream(k)
    BY <1>1, <1>4, <1>5 DEF StillStream
  <2>2. ~ Listening(k)'
    BY <1>1, <1>6 DEF Listening
  <2> QED
    BY <2>1, <2>2, SentKept DEF CoverInv, DeliveryInv
<1>8. ASSUME NEW j \in Conns \ {k} PROVE SentInv(j)' /\ CoverInv(j)'
  <2>1. j \in subs'[scope[j][2]] => j \in subs[scope[j][2]]
    BY <1>1, <1>2 DEF HubType
  <2>2. StillStream(j)
    BY <1>1, <2>1 DEF StillStream
  <2>3. \A v \in Nat : InFlight(w, j, v) => InFlight(w, j, v)'
    BY <1>1, <1>2 DEF InFlight, WriterType
  <2>4. StillFlying(j)
    BY <1>1, <1>3, <2>3, FlightKept DEF StillFlying
  <2> QED
    BY <1>1, <2>2, <2>4, SentKept, CoverKept DEF DeliveryInv
<1>9. PublishedInv'
  BY <1>1, PublishedKept DEF DeliveryInv
<1> QED
  BY <1>7, <1>8, <1>9 DEF DeliveryInv

-----------------------------------------------------------------------------
(***************************************************************************)
(* The stream handlers and the clients.                                     *)
(***************************************************************************)
LEMMA TailAt ==
  ASSUME NEW S, NEW x \in Seq(S), x # <<>>, NEW i \in 1 .. Len(x)
  PROVE  \/ i = 1 /\ x[i] = Head(x)
         \/ i - 1 \in 1 .. Len(Tail(x)) /\ Tail(x)[i - 1] = x[i] /\ Len(x) # 1
<1>1. CASE i = 1
  BY <1>1
<1>2. CASE i # 1
  <2>1. Len(x) \in Nat /\ Len(Tail(x)) = Len(x) - 1
    OBVIOUS
  <2>2. i - 1 \in 1 .. Len(x) - 1
    BY <1>2, <2>1
  <2>3. Tail(x)[i - 1] = x[(i - 1) + 1]
    BY <2>1, <2>2
  <2>4. (i - 1) + 1 = i /\ Len(x) # 1
    BY <2>1, <2>2
  <2> QED
    BY <2>1, <2>2, <2>3, <2>4
<1> QED
  BY <1>1, <1>2

LEMMA NotListening ==
  ASSUME NEW k \in Conns, pc'[k] \notin {"replaying", "loop"}
  PROVE  SentInv(k)' /\ CoverInv(k)'
BY DEF SentInv, CoverInv, Listening

LEMMA SubscribeDelivers ==
  ASSUME HonestInv, DeliveryInv, NEW k \in Conns, Subscribe(k)
  PROVE  DeliveryInv'
<1>1. /\ pc' = [pc EXCEPT ![k] = "replay"]
      /\ subs' = [subs EXCEPT ![scope[k][2]] = @ \cup {k}]
      /\ UNCHANGED <<versions, published, ch, scope, draft, msgVersion, targets, slow, from, sent,
                     pending, exact, best>>
  BY DEF Subscribe, storeVars, writerVars, streamVars
<1>2. HandlerType /\ HubType
  BY DEF HonestInv, TypeOK
<1>3. pc'[k] = "replay" /\ \A q \in Procs \ {k} : pc'[q] = pc[q]
  BY <1>1, <1>2, ProcsAre DEF HandlerType
<1>4. ASSUME NEW j \in Conns \ {k} PROVE StillStream(j)
  <2>1. j \in subs'[scope[j][2]] => j \in subs[scope[j][2]]
    BY <1>1, <1>2 DEF HubType
  <2> QED
    BY <1>1, <1>3, <2>1, ProcsAre DEF StillStream
<1>5. \A w \in Writers : SameWriter(w)
  BY <1>1, <1>3, ProcsAre DEF SameWriter
<1> QED
  BY <1>1, <1>3, <1>4, <1>5, NotListening, StreamStepDelivers

LEMMA StreamBuildDelivers ==
  ASSUME HonestInv, DeliveryInv, NEW k \in Conns, Build(k)
  PROVE  DeliveryInv'
<1>1. /\ pc'[k] \in Drafting /\ scope' = scope
      /\ \A r \in Procs \ {k} : pc'[r] = pc[r] /\ draft'[r] = draft[r]
      /\ UNCHANGED <<versions, published, subs, ch, msgVersion, targets, slow, from, sent, pending,
                     exact, best>>
  BY BuildIs, ProcsAre DEF storeVars, hubVars, writerVars, streamVars
<1>2. \A j \in Conns \ {k} : StillStream(j)
  BY <1>1, ProcsAre DEF StillStream
<1>3. \A w \in Writers : SameWriter(w)
  BY <1>1, ProcsAre DEF SameWriter
<1>4. SentInv(k)' /\ CoverInv(k)'
  BY <1>1, NotListening DEF Drafting, Building
<1> QED
  BY <1>1, <1>2, <1>3, <1>4, StreamStepDelivers

LEMMA DisconnectedDelivers ==
  ASSUME HonestInv, DeliveryInv, NEW k \in Conns, Disconnected(k)
  PROVE  DeliveryInv'
<1>1. /\ pc' = [pc EXCEPT ![k] = "closed"] /\ ch' = [ch EXCEPT ![k] = <<>>]
      /\ subs' = [subs EXCEPT ![scope[k][2]] = @ \ {k}]
      /\ UNCHANGED <<versions, published, scope, draft, msgVersion, targets, slow, from, sent,
                     pending, exact, best>>
  BY DEF Disconnected, Unsubscribe, storeVars, writerVars, streamVars
<1>2. HandlerType /\ HubType
  BY DEF HonestInv, TypeOK
<1>3. /\ pc'[k] = "closed" /\ \A q \in Procs \ {k} : pc'[q] = pc[q]
      /\ \A j \in Conns \ {k} : ch'[j] = ch[j]
  BY <1>1, <1>2, ProcsAre DEF HandlerType, HubType
<1>4. ASSUME NEW j \in Conns \ {k} PROVE StillStream(j)
  <2>1. j \in subs'[scope[j][2]] => j \in subs[scope[j][2]]
    BY <1>1, <1>2 DEF HubType
  <2> QED
    BY <1>1, <1>3, <2>1, ProcsAre DEF StillStream
<1>5. \A w \in Writers : SameWriter(w)
  BY <1>1, <1>3, ProcsAre DEF SameWriter
<1> QED
  BY <1>1, <1>3, <1>4, <1>5, NotListening, StreamStepDelivers

\* GetEnvVersion after Build: a stream starts in step if no version came in between.
LEMMA SendInitialDelivers ==
  ASSUME HonestInv, DeliveryInv, NEW k \in Conns, SendInitial(k)
  PROVE  DeliveryInv'
<1>0. PICK s, x : s = scope[k] /\ x = draft[k]
  OBVIOUS
<1>1. /\ pc[k] = "built" /\ pc' = [pc EXCEPT ![k] = "loop"]
      /\ sent' = [sent EXCEPT ![k] = versions[s]]
      /\ best' = [best EXCEPT ![k] = x]
      /\ exact' = [exact EXCEPT ![k] = (x.version = versions[s])]
      /\ draft' = [draft EXCEPT ![k] = Nil]
      /\ UNCHANGED <<versions, published, subs, ch, scope, msgVersion, targets, slow, from, pending>>
  BY <1>0 DEF SendInitial, storeVars, hubVars, writerVars
<1>2. HandlerType /\ StreamType /\ StoreType
  BY DEF HonestInv, TypeOK
<1>3. s \in Scopes /\ x \in Snapshots /\ x # Nil /\ versions[s] \in Nat
  BY <1>0, <1>1, <1>2, BuiltIsSound, ProcsAre, NilAssumption DEF SoundSnapshots, StoreType
<1>4. /\ pc'[k] = "loop" /\ \A q \in Procs \ {k} : pc'[q] = pc[q] /\ draft'[q] = draft[q]
      /\ sent'[k] = versions[s] /\ best'[k] = x /\ exact'[k] = (x.version = versions[s])
      /\ \A j \in Conns \ {k} : sent'[j] = sent[j] /\ best'[j] = best[j] /\ exact'[j] = exact[j]
  BY <1>1, <1>2, ProcsAre DEF HandlerType, StreamType
<1>5. SentInv(k)'
  <2>1. exact'[k] => x.version = versions[s]
    BY <1>4, Zenon
  <2>2. exact'[k] => sent'[k] <= best'[k].version
    BY <1>3, <1>4, <2>1
  <2> QED
    BY <1>3, <1>4, <2>2 DEF SentInv
<1>6. CoverInv(k)'
  <2> SUFFICES ASSUME Listening(k)', NEW v \in 1 .. versions[s] PROVE Covered(k, v)'
    BY <1>0, <1>1 DEF CoverInv
  <2>1. x.version = versions[s]
    BY <1>4 DEF Listening
  <2>2. v <= x.version
    BY <1>3, <2>1
  <2> QED
    BY <1>3, <1>4, <2>2 DEF Covered
<1>7. \A j \in Conns \ {k} : StillStream(j)
  BY <1>1, <1>4, ProcsAre DEF StillStream
<1>8. \A w \in Writers : SameWriter(w)
  BY <1>1, <1>4, ProcsAre DEF SameWriter
<1> QED
  BY <1>1, <1>5, <1>6, <1>7, <1>8, StreamStepDelivers

\* A message that the loop skips is covered by what was sent first.
LEMMA DeliverDelivers ==
  ASSUME HonestInv, WiringInv, DeliveryInv, NEW k \in Conns, Deliver(k)
  PROVE  DeliveryInv'
<1>0. PICK m : m = Head(ch[k])
  OBVIOUS
<1>1. /\ pc[k] = "loop" /\ ch[k] # <<>> /\ ch' = [ch EXCEPT ![k] = Tail(@)]
      /\ \/ m.version <= sent[k] /\ best' = best
         \/ best' = [best EXCEPT ![k] = Newest(@, m.snap)]
      /\ UNCHANGED <<versions, published, subs, pc, scope, draft, msgVersion, targets, slow, from,
                     sent, pending, exact>>
  BY <1>0 DEF Deliver, DeliverFrame, storeVars, hubVars, writerVars
<1>2. HubType /\ StreamType /\ StoreType /\ ScopeInv
  BY DEF HonestInv, TypeOK
<1>3. /\ ch'[k] = Tail(ch[k])
      /\ \/ m.version <= sent[k] /\ best'[k] = best[k]
         \/ best'[k] = Newest(best[k], m.snap)
      /\ \A j \in Conns \ {k} : ch'[j] = ch[j] /\ best'[j] = best[j]
  BY <1>1, <1>2 DEF HubType, StreamType
<1>4. /\ m.version \in Nat /\ m.snap \in Snapshots /\ m.snap.version \in Nat
      /\ m.version <= m.snap.version /\ ch[k] \in Seq(Messages) /\ sent[k] \in Nat
      /\ best[k] \in Snapshots \cup {Nil}
  <2>1. m \in MessagesFor(scope[k][2])
    BY <1>0, <1>1, TailHead DEF WiringInv, StreamInv
  <2> QED
    BY <1>2, <2>1 DEF MessagesFor, Messages, Snapshots, HubType, StreamType
<1>5. best[k] # Nil => best'[k] # Nil /\ best[k].version <= best'[k].version
  BY <1>3, <1>4, NewestIs, SMTT(30) DEF Snapshots
<1>6. ASSUME exact[k]
      PROVE  /\ best[k] # Nil /\ best[k].version \in Nat /\ best'[k].version \in Nat
             /\ sent[k] <= best[k].version /\ m.version <= best'[k].version
  <2>1. best[k] # Nil /\ sent[k] <= best[k].version
    BY <1>1, <1>6 DEF DeliveryInv, SentInv
  <2>2. best[k].version \in Nat /\ best'[k] \in Snapshots /\ best'[k].version \in Nat
    BY <1>3, <1>4, <2>1, NewestIs DEF Snapshots
  <2>3. CASE m.version <= sent[k] /\ best'[k] = best[k]
    BY <1>4, <2>1, <2>2, <2>3
  <2>4. CASE best'[k] = Newest(best[k], m.snap)
    BY <1>4, <2>1, <2>2, <2>4, NewestIs
  <2> QED
    BY <1>3, <2>1, <2>2, <2>3, <2>4
<1>7. SentInv(k)'
  BY <1>1, <1>4, <1>5, <1>6 DEF SentInv
<1>8. CoverInv(k)'
  <2> SUFFICES ASSUME Listening(k)', NEW v \in 1 .. versions[scope[k]] PROVE Covered(k, v)'
    BY <1>1 DEF CoverInv
  <2>1. Listening(k) /\ Covered(k, v) /\ exact[k] /\ v \in Nat
    BY <1>1, <1>2 DEF DeliveryInv, CoverInv, Listening, ScopeInv, StoreType
  <2>2. CASE best[k] # Nil /\ v <= best[k].version
    BY <1>5, <1>6, <2>1, <2>2 DEF Covered
  <2>3. ASSUME NEW i \in 1 .. Len(ch[k]), ch[k][i].version = v PROVE Covered(k, v)'
    <3>1. CASE ch[k][i] = Head(ch[k])
      BY <1>0, <1>5, <1>6, <2>1, <2>3, <3>1 DEF Covered
    <3>2. CASE i - 1 \in 1 .. Len(Tail(ch[k])) /\ Tail(ch[k])[i - 1] = ch[k][i]
      <4>1. i - 1 \in 1 .. Len(ch'[k]) /\ ch'[k][i - 1].version = v
        BY <1>3, <2>3, <3>2
      <4> QED
        BY <4>1 DEF Covered
    <3> QED
      BY <1>1, <1>4, <3>1, <3>2, TailAt
  <2>4. ASSUME NEW w \in Writers, InFlight(w, k, v) PROVE Covered(k, v)'
    <3>1. InFlight(w, k, v)'
      BY <1>1, <2>4 DEF InFlight
    <3> QED
      BY <3>1 DEF Covered
  <2> QED
    BY <1>1, <2>1, <2>2, <2>3, <2>4 DEF Covered
<1>9. \A j \in Conns \ {k} : StillStream(j) /\ ch'[j] = ch[j]
  BY <1>1, <1>3 DEF StillStream
<1>10. \A w \in Writers : SameWriter(w)
  BY <1>1 DEF SameWriter
<1> QED
  BY <1>1, <1>7, <1>8, <1>9, <1>10, StreamStepDelivers

\* A replay is in step if the ring has the newest message: a version that is not covered
\* by it has not been given to Publish, so a handler is still building it.
LEMMA ReplayDelivers ==
  ASSUME HonestInv, WiringInv, DeliveryInv, NEW k \in Conns, Replay(k)
  PROVE  DeliveryInv'
<1>0. PICK s, r : s = scope[k] /\ r = rings[s[2]]
  OBVIOUS
<1> DEFINE Newer(i) == Walk(r)[i].version > from[k]
           Tops(i)  == Walk(r)[i].snap.version >= published[s]
<1>1. PICK l, x, b :
        /\ pc[k] = "replay" /\ pc' = [pc EXCEPT ![k] = l] /\ pending' = [pending EXCEPT ![k] = x]
        /\ exact' = [exact EXCEPT ![k] = b]
        /\ b => l = "replaying" /\ x = Walk(r) /\ \E i \in 1 .. r.count : Newer(i) /\ Tops(i)
        /\ l \in {"replaying", "build"}
        /\ UNCHANGED <<versions, published, subs, ch, scope, draft, msgVersion, targets, slow, from,
                       sent, best>>
  <2> DEFINE messages == Walk(r)
             newer    == {i \in 1 .. r.count : messages[i].version > from[k]}
             replays  == Since(r, from[k]).ok /\ newer # {}
             l        == IF replays THEN "replaying" ELSE "build"
             x        == IF replays THEN messages ELSE <<>>
             b        == replays /\ \E i \in newer : messages[i].snap.version >= published[s]
  <2>1. /\ pc[k] = "replay" /\ pc' = [pc EXCEPT ![k] = l] /\ pending' = [pending EXCEPT ![k] = x]
        /\ exact' = [exact EXCEPT ![k] = b]
        /\ UNCHANGED <<versions, published, subs, ch, scope, draft, msgVersion, targets, slow, from,
                       sent, best>>
    BY <1>0, Zenon DEF Replay, storeVars, hubVars, writerVars
  <2>2. b => l = "replaying" /\ x = Walk(r) /\ \E i \in 1 .. r.count : Newer(i) /\ Tops(i)
    BY Zenon
  <2>3. l \in {"replaying", "build"}
    BY Zenon
  <2> HIDE DEF l, x, b
  <2> QED
    BY <2>1, <2>2, <2>3, Zenon
<1>2. HandlerType /\ StreamType /\ HubType /\ StoreType
  BY DEF HonestInv, TypeOK
<1>3. /\ pc'[k] = l /\ \A q \in Procs \ {k} : pc'[q] = pc[q]
      /\ pending'[k] = x /\ exact'[k] = b
      /\ \A j \in Conns \ {k} : pending'[j] = pending[j] /\ exact'[j] = exact[j]
  BY <1>1, <1>2, ProcsAre DEF HandlerType, StreamType
<1>4. s \in Scopes /\ best'[k] = Nil
  BY <1>0, <1>1 DEF HonestInv, ScopeInv, WiringInv, StreamInv
<1>5. Walk(r) \in Seq(MessagesFor(s[2])) /\ Len(Walk(r)) = r.count
  <2>1. r # Nil /\ s[2] \in EnvKeys
    BY <1>0, <1>1, <1>4, PropagationAssumption DEF HonestInv, RingInv
  <2>2. r \in Rings /\ RingHolds(r, MessagesFor(s[2]))
    BY <1>0, <1>2, <2>1 DEF HubType, WiringInv, RingsInv
  <2> QED
    BY <2>2, WalkHolds
<1>6. ASSUME exact'[k]
      PROVE  \E i \in 1 .. Len(pending'[k]) :
               pending'[k][i].version > from'[k] /\ pending'[k][i].snap.version >= published[s]
  BY <1>1, <1>3, <1>5, <1>6
<1> HIDE DEF Newer, Tops
<1>7. SentInv(k)'
  BY <1>1, <1>3, <1>4, <1>6 DEF SentInv
<1>8. CoverInv(k)'
  <2> SUFFICES ASSUME Listening(k)', NEW v \in 1 .. versions[s] PROVE Covered(k, v)'
    BY <1>0, <1>1 DEF CoverInv
  <2>1. pc'[k] = "replaying" /\ exact'[k] /\ x = Walk(r)
    BY <1>1, <1>3 DEF Listening
  <2>2. PICK i \in 1 .. Len(pending'[k]) :
          pending'[k][i].version > from'[k] /\ pending'[k][i].snap.version >= published[s]
    BY <1>6, <2>1
  <2>3. /\ pending'[k][i].snap.version \in Nat /\ published[s] \in Nat /\ v \in Nat
    <3>1. pending'[k][i] \in MessagesFor(s[2])
      BY <1>3, <1>5, <2>1
    <3> QED
      BY <1>2, <1>4, <3>1, SMTT(30) DEF MessagesFor, Messages, Snapshots, HubType, StoreType
  <2>4. CASE v <= published[s]
    <3>1. v <= pending'[k][i].snap.version
      BY <2>2, <2>3, <2>4
    <3> QED
      BY <2>1, <2>2, <3>1 DEF Covered
  <2>5. CASE \E w \in Writers : scope[w] = s /\ msgVersion[w] = v /\ pc[w] \in Building
    <3>1. PICK w \in Writers : scope[w] = s /\ msgVersion[w] = v /\ pc[w] \in Building
      BY <2>5
    <3>2. InFlight(w, k, v)'
      BY <1>0, <1>1, <1>3, <3>1, ProcsAre DEF InFlight, Building
    <3> QED
      BY <3>2 DEF Covered
  <2> QED
    BY <1>4, <2>4, <2>5 DEF DeliveryInv, PublishedInv
<1>9. \A j \in Conns \ {k} : StillStream(j)
  BY <1>1, <1>3, ProcsAre DEF StillStream
<1>10. \A w \in Writers : SameWriter(w)
  BY <1>1, <1>3, ProcsAre DEF SameWriter
<1> QED
  BY <1>1, <1>7, <1>8, <1>9, <1>10, StreamStepDelivers

\* What is replayed is written, or is not newer than what the client has.
LEMMA WriteReplayedDelivers ==
  ASSUME HonestInv, WiringInv, DeliveryInv, NEW k \in Conns, WriteReplayed(k)
  PROVE  DeliveryInv'
<1>0. PICK m, l : m = Head(pending[k]) /\ l = IF Len(pending[k]) = 1 THEN "loop" ELSE "replaying"
  OBVIOUS
<1>1. /\ pc[k] = "replaying" /\ pending' = [pending EXCEPT ![k] = Tail(@)]
      /\ pc' = [pc EXCEPT ![k] = l]
      /\ \/ m.version <= from[k] /\ UNCHANGED <<sent, best>>
         \/ /\ m.version > from[k]
            /\ sent' = [sent EXCEPT ![k] = m.version]
            /\ best' = [best EXCEPT ![k] = Newest(@, m.snap)]
      /\ UNCHANGED <<versions, published, subs, ch, scope, draft, msgVersion, targets, slow, from,
                     exact>>
  BY <1>0 DEF WriteReplayed, storeVars, hubVars, writerVars
<1>2. HandlerType /\ StreamType /\ StoreType /\ ScopeInv /\ pending[k] # <<>> /\ SentInv(k)
  BY <1>1 DEF HonestInv, TypeOK, TransitInv, DeliveryInv
<1>3. /\ pc'[k] = l /\ \A q \in Procs \ {k} : pc'[q] = pc[q]
      /\ pending'[k] = Tail(pending[k])
      /\ \/ m.version <= from[k] /\ sent'[k] = sent[k] /\ best'[k] = best[k]
         \/ m.version > from[k] /\ sent'[k] = m.version /\ best'[k] = Newest(best[k], m.snap)
      /\ \A j \in Conns \ {k} : pending'[j] = pending[j] /\ sent'[j] = sent[j] /\ best'[j] = best[j]
  BY <1>1, <1>2, ProcsAre DEF HandlerType, StreamType
<1>4. /\ m.version \in Nat /\ m.snap \in Snapshots /\ m.snap.version \in Nat
      /\ m.version <= m.snap.version /\ pending[k] \in Seq(Messages)
      /\ from[k] \in Nat /\ sent[k] \in Nat /\ best[k] \in Snapshots \cup {Nil}
  <2>1. m \in MessagesFor(scope[k][2])
    BY <1>0, <1>2, TailHead DEF WiringInv, StreamInv
  <2> QED
    BY <1>2, <2>1 DEF MessagesFor, Messages, Snapshots, StreamType
<1>5. best[k] # Nil => best'[k] # Nil /\ best[k].version <= best'[k].version
  BY <1>3, <1>4, NewestIs DEF Snapshots
<1>6. best'[k] # Nil => best'[k].version \in Nat
  BY <1>3, <1>4, NewestIs DEF Snapshots
<1>7. m.version > from[k] => best'[k] # Nil /\ m.snap.version <= best'[k].version
  <2>1. m.version > from[k] => best'[k] = Newest(best[k], m.snap)
    BY <1>3, <1>4
  <2> QED
    BY <1>4, <2>1, NewestIs
\* A message that is still to be replayed either has just been written, or follows.
<1>8. ASSUME NEW i \in 1 .. Len(pending[k]), pending[k][i].version > from[k]
      PROVE  \/ best'[k] # Nil /\ pending[k][i].snap.version <= best'[k].version
             \/ /\ pc'[k] = "replaying" /\ i - 1 \in 1 .. Len(pending'[k])
                /\ pending'[k][i - 1] = pending[k][i]
  <2>1. CASE pending[k][i] = Head(pending[k])
    BY <1>0, <1>7, <1>8, <2>1
  <2>2. CASE i - 1 \in 1 .. Len(Tail(pending[k])) /\ Tail(pending[k])[i - 1] = pending[k][i]
             /\ Len(pending[k]) # 1
    BY <1>0, <1>3, <2>2
  <2> QED
    BY <1>2, <1>4, <2>1, <2>2, TailAt
<1>9. SentInv(k)'
  <2>1. ASSUME best'[k] # Nil PROVE sent'[k] <= best'[k].version
    <3>1. CASE m.version > from[k] /\ sent'[k] = m.version
      BY <1>4, <1>6, <1>7, <2>1, <3>1
    <3>2. CASE sent'[k] = sent[k] /\ best'[k] = best[k]
      BY <1>1, <1>2, <2>1, <3>2 DEF SentInv
    <3> QED
      BY <1>3, <3>1, <3>2
  <2>2. ASSUME exact[k]
        PROVE  \/ best'[k] # Nil
               \/ /\ pc'[k] = "replaying"
                  /\ \E i \in 1 .. Len(pending'[k]) : pending'[k][i].version > from[k]
    <3>1. CASE best[k] # Nil
      BY <1>5, <3>1
    <3>2. CASE best[k] = Nil
      <4>1. PICK i \in 1 .. Len(pending[k]) : pending[k][i].version > from[k]
        BY <1>1, <1>2, <2>2, <3>2 DEF SentInv
      <4> QED
        BY <1>8, <4>1
    <3> QED
      BY <3>1, <3>2
  <2>3. pc'[k] \in {"loop", "replaying"}
    BY <1>0, <1>3
  <2> QED
    BY <1>1, <2>1, <2>2, <2>3 DEF SentInv
<1>10. CoverInv(k)'
  <2> SUFFICES ASSUME Listening(k)', NEW v \in 1 .. versions[scope[k]] PROVE Covered(k, v)'
    BY <1>1 DEF CoverInv
  <2>1. Covered(k, v) /\ v \in Nat
    BY <1>1, <1>2 DEF DeliveryInv, CoverInv, Listening, ScopeInv, StoreType
  <2>2. CASE best[k] # Nil /\ v <= best[k].version
    <3>1. best[k].version \in Nat /\ best'[k].version \in Nat
      BY <1>4, <1>5, <1>6, <2>2 DEF Snapshots
    <3> QED
      BY <1>5, <2>1, <2>2, <3>1 DEF Covered
  <2>3. ASSUME NEW i \in 1 .. Len(pending[k]), pending[k][i].version > from[k],
               v <= pending[k][i].snap.version
        PROVE  Covered(k, v)'
    <3>1. CASE best'[k] # Nil /\ pending[k][i].snap.version <= best'[k].version
      <4>1. pending[k][i] \in Messages
        BY <1>4
      <4>2. pending[k][i].snap.version \in Nat
        BY <4>1 DEF Messages, Snapshots
      <4> QED
        BY <1>6, <2>1, <2>3, <3>1, <4>2 DEF Covered
    <3>2. CASE /\ pc'[k] = "replaying" /\ i - 1 \in 1 .. Len(pending'[k])
               /\ pending'[k][i - 1] = pending[k][i]
      BY <1>1, <2>3, <3>2 DEF Covered
    <3> QED
      BY <1>8, <2>3, <3>1, <3>2
  <2>4. ASSUME NEW w \in Writers, InFlight(w, k, v) PROVE Covered(k, v)'
    <3>1. InFlight(w, k, v)'
      BY <1>1, <1>3, <2>4, ProcsAre DEF InFlight
    <3> QED
      BY <3>1 DEF Covered
  <2>5. ASSUME NEW i \in 1 .. Len(ch[k]), ch[k][i].version = v PROVE Covered(k, v)'
    BY <1>1, <2>5 DEF Covered
  <2> QED
    BY <2>1, <2>2, <2>3, <2>4, <2>5 DEF Covered
<1>11. \A j \in Conns \ {k} : StillStream(j)
  BY <1>1, <1>3, ProcsAre DEF StillStream
<1>12. \A w \in Writers : SameWriter(w)
  BY <1>1, <1>3, ProcsAre DEF SameWriter
<1> QED
  BY <1>1, <1>9, <1>10, <1>11, <1>12, StreamStepDelivers

LEMMA ConnectDelivers ==
  ASSUME HonestInv, WiringInv, DeliveryInv, NEW c \in Clients, Connect(c)
  PROVE  DeliveryInv'
<1>0. PICK k : k = used + 1
  OBVIOUS
<1>1. /\ k \in Conns /\ pc' = [pc EXCEPT ![k] = "subscribe"]
      /\ scope' = [scope EXCEPT ![k] = ClientScope[c]]
      /\ UNCHANGED <<versions, published, subs, ch, draft, msgVersion, targets, slow, sent, pending,
                     exact, best>>
      /\ \E x : from' = [from EXCEPT ![k] = x]
  BY <1>0, Zenon DEF Connect, storeVars, hubVars, writerVars
<1>2. HandlerType /\ StreamType
  BY DEF HonestInv, TypeOK
<1>3. /\ pc'[k] = "subscribe"
      /\ \A q \in Procs \ {k} : pc'[q] = pc[q] /\ scope'[q] = scope[q]
      /\ \A j \in Conns \ {k} : from'[j] = from[j]
  BY <1>1, <1>2, ProcsAre DEF HandlerType, StreamType
<1>4. \A j \in Conns \ {k} : StillStream(j)
  BY <1>1, <1>3, ProcsAre DEF StillStream
<1>5. \A w \in Writers : SameWriter(w)
  BY <1>1, <1>3, ProcsAre DEF SameWriter
<1> QED
  BY <1>1, <1>3, <1>4, <1>5, NotListening, StreamStepDelivers

\* What the client reads, and what gets lost with the connection, has been written.
LEMMA ReadDelivers ==
  ASSUME DeliveryInv,
         (\E c \in Clients : HandleEvent(c) \/ Drop(c)) \/ UNCHANGED vars
  PROVE  DeliveryInv'
<1>1. UNCHANGED <<versions, published, subs, ch, pc, scope, draft, msgVersion, targets, slow, from,
                  sent, pending, exact, best>>
  BY DEF HandleEvent, Drop, vars, storeVars, hubVars, writerVars, streamVars
<1>2. \A k \in Conns : StillStream(k) /\ StillFlying(k)
  BY <1>1 DEF StillStream, StillFlying, InFlight
<1> QED
  BY <1>1, <1>2, WriterStepDelivers

-----------------------------------------------------------------------------
LEMMA DeliveryInit == Init => DeliveryInv
<1> SUFFICES ASSUME Init PROVE DeliveryInv
  OBVIOUS
<1>1. \A k \in Conns : pc[k] = "idle"
  BY ProcsAre DEF Init
<1>2. \A s \in Scopes : versions[s] = 0
  BY DEF Init
<1> QED
  BY <1>1, <1>2 DEF DeliveryInv, PublishedInv, SentInv, CoverInv, Listening

LEMMA DeliveryNext ==
  ASSUME HonestInv, WiringInv, DeliveryInv, [Next]_vars
  PROVE  DeliveryInv'
<1>1. CASE UNCHANGED vars
  BY <1>1, ReadDelivers
<1>2. ASSUME NEW w \in Writers, NewRequest(w) \/ WriterStep(w) PROVE DeliveryInv'
  BY <1>2, NewRequestDelivers, IncrementDelivers, WriterBuildDelivers, PublishDelivers,
     SendDelivers, UnsubscribeSlowDelivers, RespondDelivers DEF WriterStep
<1>3. ASSUME NEW k \in Conns, StreamStep(k) PROVE DeliveryInv'
  BY <1>3, SubscribeDelivers, ReplayDelivers, WriteReplayedDelivers, StreamBuildDelivers,
     SendInitialDelivers, DeliverDelivers, DisconnectedDelivers DEF StreamStep
<1>4. ASSUME NEW c \in Clients, ClientStep(c) \/ Drop(c) PROVE DeliveryInv'
  BY <1>4, ConnectDelivers, ReadDelivers DEF ClientStep
<1> QED
  BY <1>1, <1>2, <1>3, <1>4 DEF Next

\* NoUpdateLostAlways: for a stream in step with its environment, every version is on its
\* way to the client or covered by what was written to it, in every interleaving of any
\* number of handlers: nothing falls between Subscribe, Replay, the initial snapshot and
\* the queue (sdkStream), and Publish drops a message only for a stream that it then
\* unsubscribes.
THEOREM NoUpdateLostAlways == Spec => []NoUpdateLost
<1>1. HonestInv /\ WiringInv /\ DeliveryInv => NoUpdateLost
  <2> SUFFICES ASSUME HonestInv, DeliveryInv, NEW k \in Conns, InStep(k),
                      NEW v \in 1 .. versions[scope[k]]
               PROVE  \/ best[k].version >= v
                      \/ \E i \in 1 .. Len(ch[k]) : ch[k][i].version = v
                      \/ \E w \in Writers : InFlight(w, k, v)
    BY DEF NoUpdateLost
  <2>1. pc[k] = "loop" /\ Covered(k, v)
    BY DEF InStep, Listening, DeliveryInv, CoverInv
  <2>2. v \in Nat /\ (best[k] # Nil => best[k].version \in Nat)
    <3>1. scope[k] \in Scopes /\ versions[scope[k]] \in Nat
      BY <2>1 DEF HonestInv, ScopeInv, TypeOK, StoreType
    <3> QED
      BY <3>1 DEF HonestInv, TypeOK, StreamType, Snapshots
  <2> QED
    BY <2>1, <2>2 DEF Covered
<1>2. Init => DeliveryInv
  BY DeliveryInit
<1>3. HonestInv /\ WiringInv /\ DeliveryInv /\ [Next]_vars => DeliveryInv'
  BY DeliveryNext
<1> QED
  BY <1>1, <1>2, <1>3, WiringInvariant, PTL DEF Spec
-----------------------------------------------------------------------------
(***************************************************************************)
(* Management requests that come one at a time, where no two projects use    *)
(* the same environment key: messages are published, queued, replayed and   *)
(* written in version order, so what was written last is the newest, and a  *)
(* client that has read everything holds what the store holds.              *)
(***************************************************************************)
OneWriter == \A w, q \in Writers : w = q

-----------------------------------------------------------------------------
(***************************************************************************)
(* What the store holds has a version, or is about to get one.              *)
(***************************************************************************)
Recorded(s) == IF versions[s] = 0 THEN NoContent ELSE committed[s][versions[s]]

SettledInv ==
  \A s \in Scopes :
    \/ Content(s) = Recorded(s)
    \/ \E w \in Writers : pc[w] # "idle" /\ s[1] = scope[w][1] /\ s[2] \in todo[w]

-----------------------------------------------------------------------------
(***************************************************************************)
(* Messages in version order.                                               *)
(***************************************************************************)
\* Messages up to version n, oldest first, each with the snapshot of its own version.
InOrder(q, n) ==
  \A i \in 1 .. Len(q) :
    /\ q[i].version <= n
    /\ q[i].snap.version = q[i].version
    /\ \A j \in 1 .. i : q[j].version <= q[i].version

PublishedLow == \A s \in Scopes : published[s] <= versions[s]

\* Nobody else moves the version while the handler builds, so that the snapshot has the
\* version of the message; it is newer than all that was published.
SerialWriter(w) ==
  /\ pc[w] \in Building =>
       msgVersion[w] = versions[scope[w]] /\ published[scope[w]] < msgVersion[w]
  /\ pc[w] \in Drafting => draft[w].version = msgVersion[w]
  /\ targets[w] # {} =>
       /\ scope[w] \in Scopes
       /\ draft[w].version = msgVersion[w]
       /\ msgVersion[w] = published[scope[w]]

SerialRings ==
  \A s \in Scopes : rings[s[2]] # Nil => InOrder(Walk(rings[s[2]]), published[s])

\* What a stream has still to write is not older than what it has written.
SerialStream(k) ==
  /\ InOrder(ch[k], published[scope[k]])
  /\ pc[k] = "replaying" =>
       /\ InOrder(pending[k], published[scope[k]])
       /\ best[k] # Nil =>
            /\ best[k].version = sent[k]
            /\ \A i \in 1 .. Len(pending[k]) : best[k].version <= pending[k][i].version
  /\ pc[k] = "loop" /\ best[k] # Nil =>
       /\ best[k].version <= sent[k] \/ best[k].version <= published[scope[k]]
       /\ \A i \in 1 .. Len(ch[k]) :
            ch[k][i].version > sent[k] => best[k].version <= ch[k][i].version

OrderInv ==
  /\ PublishedLow
  /\ \A w \in Writers : SerialWriter(w)
  /\ SerialRings
  /\ \A k \in Conns : SerialStream(k)

-----------------------------------------------------------------------------
(***************************************************************************)
(* What was written last is what the client holds, or is on the wire.       *)
(***************************************************************************)
Tip(c) ==
  conn[c] # Nil /\ best[conn[c]] # Nil =>
    IF wire[conn[c]] = <<>> THEN view[c] = best[conn[c]]
    ELSE wire[conn[c]][Len(wire[conn[c]])] = best[conn[c]]

TipInv ==
  \A c \in Clients : Tip(c) /\ \A d \in Clients : conn[c] = conn[d] /\ conn[c] # Nil => c = d

-----------------------------------------------------------------------------
(***************************************************************************)
(* SettledInv is inductive, with any number of handlers.                    *)
(***************************************************************************)
\* Handlers go on with the environments that they have still to publish.
StillOwing ==
  \A w \in Writers : pc[w] # "idle" /\ todo[w] # {} =>
    pc'[w] # "idle" /\ scope'[w][1] = scope[w][1] /\ todo'[w] = todo[w]

LEMMA SettledKept ==
  ASSUME SettledInv, UNCHANGED storeVars, StillOwing
  PROVE  SettledInv'
<1>1. \A s \in Scopes : (Content(s) = Recorded(s))' <=> Content(s) = Recorded(s)
  BY DEF Content, Recorded, storeVars
<1> QED
  BY <1>1 DEF SettledInv, StillOwing

\* A request owes a version to every environment that its write changes.
LEMMA RequestSettled ==
  ASSUME HonestInv, SettledInv, NEW w \in Writers, NEW p \in Projects, NEW envs,
         Request(w, p, envs),
         \A s \in Scopes : Content(s)' = Content(s) \/ (s[1] = p /\ s[2] \in envs)
  PROVE  SettledInv'
<1>1. /\ pc[w] = "idle" /\ pc' = [pc EXCEPT ![w] = "publishing"]
      /\ scope' = [scope EXCEPT ![w] = <<p, Nil>>] /\ todo' = [todo EXCEPT ![w] = envs]
      /\ UNCHANGED <<versions, committed>>
  BY DEF Request
<1>2. HandlerType /\ WriterType
  BY DEF HonestInv, TypeOK
<1>3. /\ pc'[w] # "idle" /\ scope'[w][1] = p /\ todo'[w] = envs
      /\ \A q \in Writers \ {w} : pc'[q] = pc[q] /\ scope'[q] = scope[q] /\ todo'[q] = todo[q]
  BY <1>1, <1>2, ProcsAre DEF HandlerType, WriterType
<1>4. ASSUME NEW s \in Scopes
      PROVE  \/ (Content(s) = Recorded(s))'
             \/ \E q \in Writers : pc'[q] # "idle" /\ s[1] = scope'[q][1] /\ s[2] \in todo'[q]
  <2>1. CASE s[1] = p /\ s[2] \in envs
    BY <1>3, <2>1
  <2>2. CASE Content(s)' = Content(s) /\ Content(s) = Recorded(s)
    BY <1>1, <2>2 DEF Recorded
  <2>3. CASE \E q \in Writers : pc[q] # "idle" /\ s[1] = scope[q][1] /\ s[2] \in todo[q]
    BY <1>1, <1>3, <2>3
  <2> QED
    BY <2>1, <2>2, <2>3 DEF SettledInv
<1> QED
  BY <1>4 DEF SettledInv

LEMMA NewRequestSettled ==
  ASSUME HonestInv, SettledInv, NEW w \in Writers, NewRequest(w)
  PROVE  SettledInv'
<1>0. StoreType /\ \A s \in Scopes : s[1] \in Projects /\ s[2] \in EnvKeys /\ s = <<s[1], s[2]>>
  BY PropagationAssumption DEF HonestInv, TypeOK
<1>1. ASSUME NEW p \in Projects, NEW e \in EnvKeys, PutFlagConfig(w, p, e) PROVE SettledInv'
  <2>1. /\ Request(w, p, {e}) /\ configs' = [configs EXCEPT ![<<p, e>>] = @ + 1]
        /\ UNCHANGED <<flags, segments>>
    BY <1>1 DEF PutFlagConfig
  <2>2. ASSUME NEW s \in Scopes PROVE Content(s)' = Content(s) \/ (s[1] = p /\ s[2] \in {e})
    <3>1. CASE s = <<p, e>>
      BY <3>1
    <3>2. CASE s # <<p, e>>
      <4>1. configs'[s] = configs[s]
        BY <1>0, <2>1, <3>2 DEF StoreType
      <4> QED
        BY <2>1, <4>1 DEF Content
    <3> QED
      BY <3>1, <3>2
  <2> QED
    BY <2>1, <2>2, RequestSettled
<1>2. ASSUME NEW p \in Projects, ChangeFlags(w, p) \/ ChangeSegments(w, p) PROVE SettledInv'
  <2>1. Request(w, p, EnvsOf(p)) /\ configs' = configs
    BY <1>2 DEF ChangeFlags, ChangeSegments
  <2>2. \A r \in Projects \ {p} : flags'[r] = flags[r] /\ segments'[r] = segments[r]
    BY <1>0, <1>2 DEF ChangeFlags, ChangeSegments, StoreType
  <2>3. ASSUME NEW s \in Scopes PROVE Content(s)' = Content(s) \/ (s[1] = p /\ s[2] \in EnvsOf(p))
    <3>1. CASE s[1] = p
      BY <1>0, <3>1 DEF EnvsOf
    <3>2. CASE s[1] # p
      BY <1>0, <2>1, <2>2, <3>2 DEF Content
    <3> QED
      BY <3>1, <3>2
  <2> QED
    BY <2>1, <2>3, RequestSettled
<1> QED
  BY <1>1, <1>2 DEF NewRequest

\* IncrementEnvVersion records what the environment holds.
LEMMA IncrementSettled ==
  ASSUME HonestInv, SettledInv, NEW w \in Writers, NEW e \in EnvKeys, IncrementEnvVersion(w, e)
  PROVE  SettledInv'
<1>0. PICK s : s = <<scope[w][1], e>>
  OBVIOUS
<1>1. /\ pc[w] = "publishing" /\ pc' = [pc EXCEPT ![w] = "build"]
      /\ scope' = [scope EXCEPT ![w] = s] /\ e \in todo[w]
      /\ todo' = [todo EXCEPT ![w] = @ \ {e}]
      /\ versions' = [versions EXCEPT ![s] = @ + 1]
      /\ committed' = [committed EXCEPT ![s] = Append(@, Content(s))]
      /\ UNCHANGED <<flags, segments, configs>>
  BY <1>0 DEF IncrementEnvVersion
<1>2. /\ HandlerType /\ WriterType /\ StoreType /\ s \in Scopes
      /\ Len(committed[s]) = versions[s] /\ Content(s) \in Contents
      /\ \A t \in Scopes : t = <<t[1], t[2]>>
  BY <1>0, <1>1, PropagationAssumption, ContentType DEF HonestInv, TypeOK, ScopeInv, HistoryInv
<1>3. /\ pc'[w] # "idle" /\ scope'[w][1] = scope[w][1] /\ todo'[w] = todo[w] \ {e}
      /\ \A q \in Writers \ {w} : pc'[q] = pc[q] /\ scope'[q] = scope[q] /\ todo'[q] = todo[q]
  BY <1>0, <1>1, <1>2, ProcsAre DEF HandlerType, WriterType
<1>4. \A t \in Scopes : Content(t)' = Content(t)
  BY <1>1 DEF Content
<1>5. (Content(s) = Recorded(s))'
  <2>1. versions'[s] = versions[s] + 1 /\ versions[s] \in Nat
    BY <1>1, <1>2 DEF StoreType
  <2>2. committed[s] \in Seq(Contents) /\ committed'[s] = Append(committed[s], Content(s))
    BY <1>1, <1>2 DEF StoreType
  <2>3. committed'[s][versions[s] + 1] = Content(s)
    BY <1>2, <2>1, <2>2
  <2> QED
    BY <1>2, <1>4, <2>1, <2>3 DEF Recorded
<1>6. ASSUME NEW t \in Scopes, t # s
      PROVE  \/ (Content(t) = Recorded(t))'
             \/ \E q \in Writers : pc'[q] # "idle" /\ t[1] = scope'[q][1] /\ t[2] \in todo'[q]
  <2>1. versions'[t] = versions[t] /\ committed'[t] = committed[t]
    BY <1>1, <1>2, <1>6 DEF StoreType
  <2>2. CASE Content(t) = Recorded(t)
    BY <1>4, <2>1, <2>2 DEF Recorded
  <2>3. CASE \E q \in Writers : pc[q] # "idle" /\ t[1] = scope[q][1] /\ t[2] \in todo[q]
    <3>1. PICK q \in Writers : pc[q] # "idle" /\ t[1] = scope[q][1] /\ t[2] \in todo[q]
      BY <2>3
    <3>2. q = w => t[2] # e
      BY <1>0, <1>2, <1>6, <3>1
    <3> QED
      BY <1>3, <3>1, <3>2
  <2> QED
    BY <2>2, <2>3 DEF SettledInv
<1> QED
  BY <1>5, <1>6 DEF SettledInv

\* No other step forgets an environment that is still to be published.
LEMMA WriterOwes ==
  ASSUME HonestInv, NEW w \in Writers, WriterStep(w)
  PROVE  (UNCHANGED storeVars /\ StillOwing) \/ \E e \in EnvKeys : IncrementEnvVersion(w, e)
<1>1. HandlerType /\ w \in Procs
  BY ProcsAre DEF HonestInv, TypeOK
<1>2. CASE Build(w)
  <2>1. UNCHANGED <<storeVars, scope, todo>> /\ pc[w] # "idle" /\ pc'[w] # "idle"
        /\ \A q \in Writers \ {w} : pc'[q] = pc[q]
    BY <1>1, <1>2, BuildIs, ProcsAre DEF writerVars, Drafting, Building
  <2> QED
    BY <2>1 DEF StillOwing
<1>3. CASE Publish(w)
  <2>1. UNCHANGED <<storeVars, scope, todo>> /\ pc' = [pc EXCEPT ![w] = "publishing"]
    BY <1>3 DEF Publish
  <2>2. pc'[w] # "idle" /\ \A q \in Writers \ {w} : pc'[q] = pc[q]
    BY <1>1, <2>1, ProcsAre DEF HandlerType
  <2> QED
    BY <2>1, <2>2 DEF StillOwing
<1>4. ASSUME NEW k \in Conns, Send(w, k) \/ UnsubscribeSlow(w, k)
      PROVE  UNCHANGED storeVars /\ StillOwing
  <2>1. UNCHANGED <<storeVars, scope, todo, pc>>
    BY <1>4 DEF Send, UnsubscribeSlow
  <2> QED
    BY <2>1 DEF StillOwing
<1>5. CASE Respond(w)
  <2>1. /\ UNCHANGED <<storeVars, todo>> /\ todo[w] = {}
        /\ pc' = [pc EXCEPT ![w] = "idle"] /\ scope' = [scope EXCEPT ![w] = Nil]
    BY <1>5 DEF Respond
  <2>2. \A q \in Writers \ {w} : pc'[q] = pc[q] /\ scope'[q] = scope[q]
    BY <1>1, <2>1, ProcsAre DEF HandlerType
  <2> QED
    BY <2>1, <2>2 DEF StillOwing
<1> QED
  BY <1>2, <1>3, <1>4, <1>5 DEF WriterStep

LEMMA StreamOwes ==
  ASSUME HonestInv, NEW k \in Conns, StreamStep(k)
  PROVE  UNCHANGED storeVars /\ StillOwing
<1>1. UNCHANGED <<storeVars, scope, todo>> /\ \A q \in Procs \ {k} : pc'[q] = pc[q]
  <2> USE DEF writerVars
  <2>0. HandlerType /\ k \in Procs
    BY ProcsAre DEF HonestInv, TypeOK
  <2>1. CASE Subscribe(k)
    BY <2>0, <2>1 DEF Subscribe, HandlerType
  <2>2. CASE Replay(k)
    <3>1. UNCHANGED <<storeVars, scope, todo>> /\ \E l : pc' = [pc EXCEPT ![k] = l]
      BY <2>2, Zenon DEF Replay
    <3> QED
      BY <2>0, <3>1 DEF HandlerType
  <2>3. CASE WriteReplayed(k)
    <3>1. UNCHANGED <<storeVars, scope, todo>> /\ \E l : pc' = [pc EXCEPT ![k] = l]
      BY <2>3, Zenon DEF WriteReplayed
    <3> QED
      BY <2>0, <3>1 DEF HandlerType
  <2>4. CASE Build(k)
    BY <2>0, <2>4, BuildIs
  <2>5. CASE SendInitial(k)
    BY <2>0, <2>5 DEF SendInitial, HandlerType
  <2>6. CASE Deliver(k)
    BY <2>6 DEF Deliver, DeliverFrame
  <2>7. CASE Disconnected(k)
    BY <2>0, <2>7 DEF Disconnected, HandlerType
  <2> QED
    BY <2>1, <2>2, <2>3, <2>4, <2>5, <2>6, <2>7 DEF StreamStep
<1> QED
  BY <1>1, ProcsAre DEF StillOwing

LEMMA ClientOwes ==
  ASSUME HonestInv, NEW c \in Clients, ClientStep(c) \/ Drop(c)
  PROVE  UNCHANGED storeVars /\ StillOwing
<1>1. CASE HandleEvent(c) \/ Drop(c)
  BY <1>1 DEF HandleEvent, Drop, writerVars, StillOwing
<1>2. CASE Connect(c)
  <2>0. PICK k : k = used + 1
    OBVIOUS
  <2>1. /\ UNCHANGED <<storeVars, todo>> /\ k \in Conns /\ pc' = [pc EXCEPT ![k] = "subscribe"]
        /\ scope' = [scope EXCEPT ![k] = ClientScope[c]]
    BY <1>2, <2>0 DEF Connect, writerVars
  <2>2. \A w \in Writers : pc'[w] = pc[w] /\ scope'[w] = scope[w]
    BY <2>1, ProcsAre DEF HonestInv, TypeOK, HandlerType
  <2> QED
    BY <2>1, <2>2 DEF StillOwing
<1> QED
  BY <1>1, <1>2 DEF ClientStep

LEMMA SettledInvariant == Spec => []SettledInv
<1>1. Init => SettledInv
  <2> SUFFICES ASSUME Init, NEW s \in Scopes PROVE Content(s) = Recorded(s)
    BY DEF SettledInv
  <2>1. s[1] \in Projects
    BY PropagationAssumption
  <2> QED
    BY <2>1 DEF Init, Content, Recorded, NoContent
<1>2. ASSUME HonestInv, SettledInv, [Next]_vars PROVE SettledInv'
  <2>1. CASE UNCHANGED vars
    BY <1>2, <2>1, SettledKept DEF vars, storeVars, writerVars, StillOwing
  <2>2. ASSUME NEW w \in Writers, NewRequest(w) \/ WriterStep(w) PROVE SettledInv'
    BY <1>2, <2>2, NewRequestSettled, IncrementSettled, WriterOwes, SettledKept
  <2>3. ASSUME NEW k \in Conns, StreamStep(k) PROVE SettledInv'
    BY <1>2, <2>3, StreamOwes, SettledKept
  <2>4. ASSUME NEW c \in Clients, ClientStep(c) \/ Drop(c) PROVE SettledInv'
    BY <1>2, <2>4, ClientOwes, SettledKept
  <2> QED
    BY <1>2, <2>1, <2>2, <2>3, <2>4 DEF Next
<1>3. HonestInv /\ SettledInv /\ [Next]_vars => SettledInv'
  BY <1>2
<1> QED
  BY <1>1, <1>3, HonestInvariant, PTL DEF Spec

-----------------------------------------------------------------------------
(***************************************************************************)
(* Sequences of messages in version order.                                  *)
(***************************************************************************)
LEMMA MessageNat ==
  ASSUME NEW m \in Messages
  PROVE  m.version \in Nat /\ m.snap \in Snapshots /\ m.snap.version \in Nat
BY DEF Messages, Snapshots

LEMMA NothingInOrder ==
  ASSUME NEW n
  PROVE  InOrder(<<>>, n)
BY DEF InOrder

LEMMA InOrderMore ==
  ASSUME NEW q \in Seq(Messages), NEW n \in Nat, NEW l \in Nat, n <= l, InOrder(q, n)
  PROVE  InOrder(q, l)
<1> SUFFICES ASSUME NEW i \in 1 .. Len(q) PROVE q[i].version <= l
  BY DEF InOrder
<1>1. q[i].version \in Nat /\ q[i].version <= n
  BY MessageNat DEF InOrder
<1> QED
  BY <1>1

LEMMA InOrderTail ==
  ASSUME NEW q \in Seq(Messages), NEW n \in Nat, InOrder(q, n), q # <<>>
  PROVE  /\ InOrder(Tail(q), n)
         /\ Head(q).version <= n /\ Head(q).snap.version = Head(q).version
         /\ \A i \in 1 .. Len(Tail(q)) : Head(q).version <= Tail(q)[i].version
<1>1. Len(q) \in Nat /\ Len(q) # 0 /\ Len(Tail(q)) = Len(q) - 1 /\ Head(q) = q[1]
  OBVIOUS
<1>2. \A i \in 1 .. Len(Tail(q)) : i + 1 \in 1 .. Len(q) /\ Tail(q)[i] = q[i + 1]
  BY <1>1
<1>3. ASSUME NEW i \in 1 .. Len(Tail(q))
      PROVE  /\ Tail(q)[i].version <= n /\ Tail(q)[i].snap.version = Tail(q)[i].version
             /\ Head(q).version <= Tail(q)[i].version
             /\ \A j \in 1 .. i : Tail(q)[j].version <= Tail(q)[i].version
  <2>1. i + 1 \in 1 .. Len(q) /\ Tail(q)[i] = q[i + 1] /\ 1 \in 1 .. i + 1
    BY <1>1, <1>2
  <2>2. ASSUME NEW j \in 1 .. i PROVE Tail(q)[j].version <= Tail(q)[i].version
    <3>1. j + 1 \in 1 .. i + 1 /\ j \in 1 .. Len(Tail(q))
      BY <1>1
    <3> QED
      BY <1>2, <2>1, <3>1 DEF InOrder
  <2> QED
    BY <1>1, <2>1, <2>2 DEF InOrder
<1>4. 1 \in 1 .. Len(q)
  BY <1>1
<1> QED
  BY <1>1, <1>3, <1>4 DEF InOrder

LEMMA InOrderAppend ==
  ASSUME NEW q \in Seq(Messages), NEW n \in Nat, InOrder(q, n), NEW m \in Messages,
         m.snap.version = m.version, n <= m.version
  PROVE  InOrder(Append(q, m), m.version)
<1>1. /\ Len(q) \in Nat /\ Len(Append(q, m)) = Len(q) + 1 /\ Append(q, m)[Len(q) + 1] = m
      /\ \A i \in 1 .. Len(q) : Append(q, m)[i] = q[i]
  OBVIOUS
<1>2. \A i \in 1 .. Len(q) : q[i].version \in Nat /\ q[i].version <= m.version
  <2> SUFFICES ASSUME NEW i \in 1 .. Len(q)
               PROVE  q[i].version \in Nat /\ q[i].version <= m.version
    OBVIOUS
  <2>1. q[i].version \in Nat /\ q[i].version <= n /\ m.version \in Nat
    BY MessageNat DEF InOrder
  <2> QED
    BY <2>1
<1> SUFFICES ASSUME NEW i \in 1 .. Len(q) + 1
             PROVE  /\ Append(q, m)[i].version <= m.version
                    /\ Append(q, m)[i].snap.version = Append(q, m)[i].version
                    /\ \A j \in 1 .. i : Append(q, m)[j].version <= Append(q, m)[i].version
  BY <1>1 DEF InOrder
<1>3. CASE i = Len(q) + 1
  <2>1. m.version <= m.version
    BY MessageNat
  <2>2. ASSUME NEW j \in 1 .. i PROVE Append(q, m)[j].version <= m.version
    <3>1. j \in 1 .. Len(q) \/ j = Len(q) + 1
      BY <1>1, <1>3
    <3> QED
      BY <1>1, <1>2, <2>1, <3>1
  <2> QED
    BY <1>1, <1>3, <2>1, <2>2
<1>4. CASE i \in 1 .. Len(q)
  <2>1. \A j \in 1 .. i : j \in 1 .. Len(q)
    BY <1>1, <1>4
  <2> QED
    BY <1>1, <1>2, <1>4, <2>1 DEF InOrder
<1> QED
  BY <1>1, <1>3, <1>4

\* The walk over a ring with a new message: the old walk without its first message when
\* the ring is full, and then the new message.
LEMMA WalkAppend ==
  ASSUME NEW r \in Rings, NEW m, NEW o, o = IF r.count < RingCap THEN 0 ELSE 1
  PROVE  /\ RingAppend(r, m).count = r.count + 1 - o /\ r.count - o \in Nat
         /\ Walk(RingAppend(r, m))[r.count + 1 - o] = m
         /\ \A i \in 1 .. r.count - o : Walk(RingAppend(r, m))[i] = Walk(r)[i + o]
<1> USE RingCapAssumption
<1>1. /\ r.head \in 0 .. RingCap - 1
      /\ r.count \in 0 .. RingCap
      /\ r.buf \in [0 .. RingCap - 1 -> Messages \cup {EmptySlot}]
      /\ o \in {0, 1}
  BY DEF Rings
<1> DEFINE buf2  == [r.buf EXCEPT ![r.head] = m]
           head2 == (r.head + 1) % RingCap
           cnt2  == NextCount(r)
<1>2. /\ RingAppend(r, m).buf = buf2
      /\ RingAppend(r, m).head = head2
      /\ RingAppend(r, m).count = cnt2
  BY DEF RingAppend
<1>3. cnt2 \in 1 .. RingCap /\ cnt2 = r.count + 1 - o /\ r.count - o \in Nat
  BY <1>1 DEF NextCount
<1>4. head2 \in 0 .. RingCap - 1 /\ head2 = (r.head + 1) % RingCap
  BY <1>1
<1> HIDE DEF buf2, head2, cnt2
<1>5. ASSUME NEW i \in 1 .. cnt2
      PROVE  Walk(RingAppend(r, m))[i] = buf2[SlotOf(head2, cnt2 + 1 - i)]
  <2>1. Walk(RingAppend(r, m))[i] = buf2[(((head2 - cnt2 + RingCap) % RingCap) + i - 1) % RingCap]
    BY <1>2 DEF Walk, Start
  <2>2. cnt2 \in 0 .. RingCap /\ head2 \in 0 .. RingCap - 1
    BY <1>3, <1>4
  <2>3. (((head2 - cnt2 + RingCap) % RingCap) + i - 1) % RingCap = SlotOf(head2, cnt2 + 1 - i)
    BY <2>2, WalkSlot
  <2> QED
    BY <2>1, <2>3
<1>6. Walk(RingAppend(r, m))[cnt2] = m
  <2>1. cnt2 \in 1 .. cnt2 /\ cnt2 + 1 - cnt2 = 1 /\ 1 \in 1 .. RingCap
    BY <1>3
  <2>2. SlotOf(head2, 1) = r.head
    BY <1>1, <1>4, <2>1, SlotShift
  <2>3. Walk(RingAppend(r, m))[cnt2] = buf2[r.head]
    BY <1>5, <2>1, <2>2
  <2> QED
    BY <1>1, <2>3 DEF buf2
<1>7. ASSUME NEW i \in 1 .. r.count - o PROVE Walk(RingAppend(r, m))[i] = Walk(r)[i + o]
  <2>1. PICK j : j = cnt2 + 1 - i
    OBVIOUS
  <2>2. /\ i \in 1 .. cnt2 /\ j \in 1 .. RingCap /\ j # 1 /\ i + o \in 1 .. r.count
        /\ j - 1 = r.count + 1 - (i + o)
    BY <1>1, <1>3, <1>7, <2>1, SMTT(30)
  <2>3. /\ SlotOf(head2, j) = SlotOf(r.head, j - 1)
        /\ SlotOf(r.head, j - 1) # r.head
        /\ SlotOf(r.head, j - 1) \in 0 .. RingCap - 1
    <3>1. PICK h \in 0 .. RingCap - 1, g \in 0 .. RingCap - 1, l \in 1 .. RingCap :
            h = r.head /\ g = head2 /\ l = j
      BY <1>1, <1>4, <2>2
    <3>2. g = (h + 1) % RingCap /\ l # 1
      BY <1>4, <2>2, <3>1
    <3>3. SlotOf(g, l) = SlotOf(h, l - 1) /\ SlotOf(h, l - 1) # h /\ SlotOf(h, l - 1) \in 0 .. RingCap - 1
      BY <3>2, SlotShift
    <3> QED
      BY <3>1, <3>3
  <2>4. Walk(RingAppend(r, m))[i] = r.buf[SlotOf(r.head, j - 1)]
    BY <1>1, <1>5, <2>1, <2>2, <2>3 DEF buf2
  <2>5. PICK l : l = i + o
    OBVIOUS
  <2>6. Walk(r)[l] = r.buf[(Start(r) + l - 1) % RingCap]
    BY <2>2, <2>5 DEF Walk
  <2>7. (Start(r) + l - 1) % RingCap = SlotOf(r.head, r.count + 1 - l)
    BY <1>1, <2>2, <2>5, WalkSlot DEF Start
  <2> QED
    BY <2>2, <2>4, <2>5, <2>6, <2>7
<1> QED
  BY <1>2, <1>3, <1>6, <1>7

LEMMA WalkInOrder ==
  ASSUME NEW r \in Rings, RingHolds(r, Messages), NEW n \in Nat, InOrder(Walk(r), n),
         NEW m \in Messages, m.snap.version = m.version, n <= m.version
  PROVE  InOrder(Walk(RingAppend(r, m)), m.version)
<1>0. PICK o : o = IF r.count < RingCap THEN 0 ELSE 1
  OBVIOUS
<1>1. PICK x, y : x = Walk(r) /\ y = Walk(RingAppend(r, m))
  OBVIOUS
<1>2. x \in Seq(Messages) /\ Len(x) = r.count /\ InOrder(x, n) /\ r.count \in Nat /\ o \in {0, 1}
  BY <1>0, <1>1, WalkHolds DEF Rings
<1>3. Len(y) = r.count - o + 1
  <2>1. RingAppend(r, m) \in Rings /\ RingHolds(RingAppend(r, m), Messages)
    BY RingAppendType, RingAppendHolds
  <2>2. Len(y) = RingAppend(r, m).count
    BY <1>1, <2>1, WalkHolds
  <2>3. RingAppend(r, m).count = r.count + 1 - o
    BY <1>0, WalkAppend
  <2> QED
    BY <1>2, <2>2, <2>3
<1>4. PICK c : c = r.count - o
  OBVIOUS
<1>5. c \in Nat /\ Len(y) = c + 1 /\ y[c + 1] = m /\ \A i \in 1 .. c : y[i] = x[i + o]
  <2>1. r.count + 1 - o = c + 1
    BY <1>2, <1>4
  <2> QED
    BY <1>0, <1>1, <1>3, <1>4, <2>1, WalkAppend
<1>6. \A i \in 1 .. c : i + o \in 1 .. Len(x)
  BY <1>2, <1>4, <1>5
<1>7. \A i \in 1 .. c : y[i].version \in Nat /\ y[i].version <= m.version
  <2> SUFFICES ASSUME NEW i \in 1 .. c PROVE y[i].version \in Nat /\ y[i].version <= m.version
    OBVIOUS
  <2>1. y[i].version \in Nat /\ y[i].version <= n /\ m.version \in Nat
    BY <1>2, <1>5, <1>6, MessageNat, SMTT(30) DEF InOrder
  <2> QED
    BY <2>1
<1>8. SUFFICES ASSUME NEW i \in 1 .. c + 1
               PROVE  /\ y[i].version <= m.version /\ y[i].snap.version = y[i].version
                      /\ \A j \in 1 .. i : y[j].version <= y[i].version
  BY <1>1, <1>5 DEF InOrder
<1>9. CASE i = c + 1
  <2>1. m.version <= m.version
    BY MessageNat
  <2>2. ASSUME NEW j \in 1 .. i PROVE y[j].version <= m.version
    <3>1. j \in 1 .. c \/ j = c + 1
      BY <1>5, <1>9
    <3> QED
      BY <1>5, <1>7, <2>1, <3>1
  <2> QED
    BY <1>5, <1>9, <2>1, <2>2
<1>10. CASE i \in 1 .. c
  <2>1. y[i].snap.version = y[i].version
    BY <1>2, <1>5, <1>6, <1>10 DEF InOrder
  <2>2. ASSUME NEW j \in 1 .. i PROVE y[j].version <= y[i].version
    <3>1. j \in 1 .. c /\ j + o \in 1 .. i + o /\ i + o \in 1 .. Len(x)
      <4>1. o \in Nat
        BY <1>2
      <4>2. c \in Nat
        BY <1>5
      <4>3. i + o \in 1 .. Len(x)
        BY <1>6, <1>10
      <4> QED
        BY <1>10, <4>1, <4>2, <4>3
    <3> QED
      BY <1>2, <1>5, <1>10, <3>1 DEF InOrder
  <2> QED
    BY <1>7, <1>10, <2>1, <2>2
<1> QED
  BY <1>5, <1>9, <1>10

-----------------------------------------------------------------------------
(***************************************************************************)
(* OrderInv is inductive: what a step leaves alone, and the handler.         *)
(***************************************************************************)
LEMMA SerialStreamKept ==
  ASSUME NEW k \in Conns, SerialStream(k), StillStream(k), ch'[k] = ch[k], published' = published
  PROVE  SerialStream(k)'
BY DEF SerialStream, StillStream, InOrder

LEMMA SerialWriterKept ==
  ASSUME NEW w \in Writers, SerialWriter(w), SameWriter(w), versions' = versions,
         published' = published
  PROVE  SerialWriter(w)'
BY DEF SerialWriter, SameWriter

LEMMA SerialRingsKept ==
  ASSUME SerialRings, rings' = rings, published' = published
  PROVE  SerialRings'
BY DEF SerialRings

\* A step of the handler that publishes nothing.
LEMMA OrderWriterStep ==
  ASSUME OneWriter, OrderInv, NEW w \in Writers, SerialWriter(w)', PublishedLow',
         published' = published, rings' = rings,
         \A k \in Conns : SerialStream(k)'
  PROVE  OrderInv'
<1>1. \A q \in Writers : q = w
  BY DEF OneWriter
<1>2. SerialRings'
  BY SerialRingsKept DEF OrderInv
<1> QED
  BY <1>1, <1>2 DEF OrderInv

LEMMA OrderStreamStep ==
  ASSUME OrderInv, NEW k \in Conns, SerialStream(k)', SerialRings', versions' = versions,
         published' = published, \A w \in Writers : SameWriter(w),
         \A j \in Conns \ {k} : StillStream(j) /\ ch'[j] = ch[j]
  PROVE  OrderInv'
<1>1. PublishedLow'
  BY DEF OrderInv, PublishedLow
<1>2. \A w \in Writers : SerialWriter(w)'
  BY SerialWriterKept DEF OrderInv
<1>3. \A j \in Conns : SerialStream(j)'
  BY SerialStreamKept DEF OrderInv
<1> QED
  BY <1>1, <1>2, <1>3 DEF OrderInv

LEMMA NewRequestOrdered ==
  ASSUME OneWriter, HonestInv, WiringInv, OrderInv, NEW w \in Writers, NewRequest(w)
  PROVE  OrderInv'
<1>1. PICK p, envs : p \in Projects /\ Request(w, p, envs)
  BY DEF NewRequest, PutFlagConfig, ChangeFlags, ChangeSegments
<1>2. /\ pc[w] = "idle" /\ pc' = [pc EXCEPT ![w] = "publishing"]
      /\ scope' = [scope EXCEPT ![w] = <<p, Nil>>]
      /\ UNCHANGED <<versions, published, rings, subs, ch, targets, slow, from, sent, pending,
                     exact, best>>
  BY <1>1 DEF Request, hubVars, streamVars
<1>3. HandlerType /\ WriterInv(w)
  BY DEF HonestInv, TypeOK, WiringInv
<1>4. pc'[w] = "publishing" /\ targets[w] = {}
  BY <1>2, <1>3, NobodyLeft, ProcsAre DEF HandlerType
<1>5. SerialWriter(w)' /\ PublishedLow'
  BY <1>2, <1>4 DEF SerialWriter, Building, Drafting, OrderInv, PublishedLow
<1>6. \A k \in Conns : StillStream(k)
  BY <1>2, <1>3, ProcsAre DEF StillStream, HandlerType
<1> QED
  BY <1>2, <1>5, <1>6, SerialStreamKept, OrderWriterStep DEF OrderInv

LEMMA RespondOrdered ==
  ASSUME OneWriter, HonestInv, WiringInv, OrderInv, NEW w \in Writers, Respond(w)
  PROVE  OrderInv'
<1>1. /\ pc[w] = "publishing" /\ PublishReturned(w) /\ pc' = [pc EXCEPT ![w] = "idle"]
      /\ scope' = [scope EXCEPT ![w] = Nil]
      /\ UNCHANGED <<versions, published, rings, subs, ch, targets, slow, from, sent, pending,
                     exact, best>>
  BY DEF Respond, storeVars, hubVars, streamVars
<1>2. HandlerType /\ WriterInv(w)
  BY DEF HonestInv, TypeOK, WiringInv
<1>3. pc'[w] = "idle" /\ targets[w] = {}
  BY <1>1, <1>2, NobodyLeft, ProcsAre DEF HandlerType
<1>4. SerialWriter(w)' /\ PublishedLow'
  BY <1>1, <1>3 DEF SerialWriter, Building, Drafting, OrderInv, PublishedLow
<1>5. \A k \in Conns : StillStream(k)
  BY <1>1, <1>2, ProcsAre DEF StillStream, HandlerType
<1> QED
  BY <1>1, <1>4, <1>5, SerialStreamKept, OrderWriterStep DEF OrderInv

LEMMA IncrementOrdered ==
  ASSUME OneWriter, HonestInv, WiringInv, OrderInv, NEW w \in Writers, NEW e \in EnvKeys,
         IncrementEnvVersion(w, e)
  PROVE  OrderInv'
<1>0. PICK s : s = <<scope[w][1], e>>
  OBVIOUS
<1>1. /\ pc[w] = "publishing" /\ PublishReturned(w) /\ pc' = [pc EXCEPT ![w] = "build"]
      /\ scope' = [scope EXCEPT ![w] = s] /\ e \in todo[w]
      /\ versions' = [versions EXCEPT ![s] = @ + 1]
      /\ msgVersion' = [msgVersion EXCEPT ![w] = versions[s] + 1]
      /\ UNCHANGED <<published, rings, subs, ch, targets, slow, from, sent, pending, exact, best>>
  BY <1>0 DEF IncrementEnvVersion, hubVars, streamVars
<1>2. HandlerType /\ WriterType /\ StoreType /\ HubType /\ WriterInv(w) /\ s \in Scopes
  BY <1>0, <1>1 DEF HonestInv, TypeOK, WiringInv, ScopeInv
<1>3. /\ pc'[w] = "build" /\ scope'[w] = s /\ msgVersion'[w] = versions[s] + 1
      /\ versions'[s] = versions[s] + 1 /\ targets[w] = {}
  BY <1>1, <1>2, NobodyLeft, ProcsAre DEF HandlerType, WriterType, StoreType
<1>4. ASSUME NEW t \in Scopes
      PROVE  /\ published[t] \in Nat /\ versions[t] \in Nat /\ published[t] <= versions[t]
             /\ versions'[t] \in {versions[t], versions[t] + 1}
  BY <1>1, <1>2 DEF HubType, StoreType, OrderInv, PublishedLow
<1>5. PublishedLow'
  <2> SUFFICES ASSUME NEW t \in Scopes PROVE published[t] <= versions'[t]
    BY <1>1 DEF PublishedLow
  <2> QED
    BY <1>4
<1>6. SerialWriter(w)'
  <2>1. published[s] < versions[s] + 1
    BY <1>2, <1>4
  <2> QED
    BY <1>1, <1>3, <2>1 DEF SerialWriter, Drafting, Building
<1>7. \A k \in Conns : StillStream(k)
  BY <1>1, <1>2, ProcsAre DEF StillStream, HandlerType
<1> QED
  BY <1>1, <1>5, <1>6, <1>7, SerialStreamKept, OrderWriterStep DEF OrderInv

\* Build reads the version that the handler has just given to the environment.
LEMMA WriterBuildOrdered ==
  ASSUME OneWriter, HonestInv, WiringInv, OrderInv, NEW w \in Writers, Build(w)
  PROVE  OrderInv'
<1>1. /\ pc[w] \in Building \ {"built"} /\ pc'[w] \in Drafting /\ scope' = scope
      /\ draft'[w].version = IF pc[w] = "build" THEN versions[scope[w]] ELSE draft[w].version
      /\ \A r \in Procs \ {w} : pc'[r] = pc[r]
      /\ UNCHANGED <<versions, published, rings, subs, ch, msgVersion, targets, slow, from, sent,
                     pending, exact, best>>
  BY BuildIs, ProcsAre DEF storeVars, hubVars, writerVars, streamVars
<1>2. targets[w] = {}
  BY <1>1, NobodyLeft DEF WiringInv, Building
<1>3. SerialWriter(w)' /\ PublishedLow'
  BY <1>1, <1>2 DEF OrderInv, SerialWriter, Drafting, Building, PublishedLow
<1>4. \A k \in Conns : StillStream(k)
  BY <1>1, ProcsAre DEF StillStream
<1> QED
  BY <1>1, <1>3, <1>4, SerialStreamKept, OrderWriterStep DEF OrderInv

LEMMA UnsubscribeSlowOrdered ==
  ASSUME OneWriter, HonestInv, OrderInv, NEW w \in Writers, NEW k \in Conns, UnsubscribeSlow(w, k)
  PROVE  OrderInv'
<1>1. /\ subs' = [subs EXCEPT ![scope[w][2]] = @ \ {k}]
      /\ UNCHANGED <<versions, published, rings, ch, pc, scope, draft, msgVersion, targets, from,
                     sent, pending, exact, best>>
  BY DEF UnsubscribeSlow, Unsubscribe, storeVars, streamVars
<1>2. SerialWriter(w)' /\ PublishedLow'
  BY <1>1 DEF OrderInv, SerialWriter, PublishedLow
<1>3. \A j \in Conns : StillStream(j)
  BY <1>1 DEF StillStream, HonestInv, TypeOK, HubType
<1> QED
  BY <1>1, <1>2, <1>3, SerialStreamKept, OrderWriterStep DEF OrderInv

\* A newer message goes to the end of the ring.
LEMMA PublishOrdered ==
  ASSUME NoSharedEnvKeys, OneWriter, HonestInv, WiringInv, OrderInv, NEW w \in Writers, Publish(w)
  PROVE  OrderInv'
<1>0. PICK s, m : s = scope[w] /\ m = Message(msgVersion[w], draft[w])
  OBVIOUS
<1>1. /\ pc[w] = "built" /\ pc' = [pc EXCEPT ![w] = "publishing"]
      /\ rings' = [rings EXCEPT ![s[2]] = IF @ = Nil THEN Nil ELSE RingAppend(@, m)]
      /\ published' = [published EXCEPT ![s] = IF m.version > @ THEN m.version ELSE @]
      /\ UNCHANGED <<versions, subs, ch, scope, draft, msgVersion, slow, from, sent, pending,
                     exact, best>>
  BY <1>0 DEF Publish, storeVars, streamVars
<1>2. HandlerType /\ HubType /\ StoreType /\ WriterInv(w) /\ SerialWriter(w) /\ RingsInv /\ ScopeInv
  BY DEF HonestInv, TypeOK, WiringInv, OrderInv
<1>3. /\ s \in Scopes /\ m \in MessagesFor(s[2]) /\ m \in Messages /\ s[2] \in EnvKeys
      /\ \A t \in Scopes : t[2] \in EnvKeys
  <2>1. s \in Scopes
    BY <1>0, <1>1, BuiltIsSound, ProcsAre
  <2>2. m \in MessagesFor(s[2])
    BY <1>0, <1>1, <1>2, MessageIs
  <2> QED
    BY <2>1, <2>2, PropagationAssumption DEF MessagesFor
<1>4. /\ m.version = msgVersion[w] /\ m.snap = draft[w] /\ m.version \in Nat
      /\ m.version = versions[s] /\ m.snap.version = m.version
      /\ published[s] \in Nat /\ published[s] < m.version
  BY <1>0, <1>1, <1>2, <1>3, MessageNat DEF SerialWriter, Building, Drafting, Message, HubType
<1>5. /\ published'[s] = m.version
      /\ \A t \in Scopes \ {s} : published'[t] = published[t] /\ rings'[t[2]] = rings[t[2]]
  <2>1. \A t \in Scopes \ {s} : t[2] # s[2]
    BY <1>3 DEF NoSharedEnvKeys
  <2> QED
    BY <1>1, <1>2, <1>3, <1>4, <2>1 DEF HubType
<1>6. pc'[w] = "publishing" /\ \A k \in Conns : pc'[k] = pc[k]
  BY <1>1, <1>2, ProcsAre DEF HandlerType
<1>7. PublishedLow'
  <2> SUFFICES ASSUME NEW t \in Scopes PROVE published'[t] <= versions[t]
    BY <1>1 DEF PublishedLow
  <2>1. versions[t] \in Nat
    BY <1>2 DEF StoreType
  <2> QED
    BY <1>4, <1>5, <2>1 DEF OrderInv, PublishedLow
<1>8. SerialWriter(w)'
  BY <1>0, <1>1, <1>3, <1>4, <1>5, <1>6 DEF SerialWriter, Building, Drafting
<1>9. SerialRings'
  <2> SUFFICES ASSUME NEW t \in Scopes, rings'[t[2]] # Nil
               PROVE  InOrder(Walk(rings'[t[2]]), published'[t])
    BY DEF SerialRings
  <2>1. CASE t # s
    BY <1>5, <2>1 DEF OrderInv, SerialRings
  <2>2. CASE t = s
    <3>0. PICK r : r = rings[s[2]]
      OBVIOUS
    <3>1. r # Nil /\ rings'[s[2]] = RingAppend(r, m)
      BY <1>1, <1>2, <1>3, <2>2, <3>0 DEF HubType
    <3>2. r \in Rings /\ RingHolds(r, MessagesFor(s[2])) /\ InOrder(Walk(r), published[s])
      BY <1>2, <1>3, <3>0, <3>1 DEF HubType, RingsInv, OrderInv, SerialRings
    <3>3. RingHolds(r, Messages)
      BY <3>2 DEF RingHolds, MessagesFor
    <3>4. published[s] <= m.version
      BY <1>4
    <3>5. InOrder(Walk(RingAppend(r, m)), m.version)
      BY <1>3, <1>4, <3>2, <3>3, <3>4, WalkInOrder
    <3> QED
      BY <1>5, <2>2, <3>1, <3>5
  <2> QED
    BY <2>1, <2>2
<1>10. ASSUME NEW k \in Conns PROVE SerialStream(k)'
  <2>1. StillStream(k) /\ ch'[k] = ch[k]
    BY <1>1, <1>6 DEF StillStream
  <2>2. ch[k] \in Seq(Messages) /\ pending[k] \in Seq(Messages) /\ SerialStream(k)
        /\ best[k] \in Snapshots \cup {Nil}
    BY <1>2 DEF HonestInv, TypeOK, HubType, StreamType, OrderInv
  <2>3. CASE pc[k] = "idle"
    <3>1. ch[k] = <<>>
      BY <2>3 DEF WiringInv, StreamInv
    <3> QED
      BY <2>1, <2>3, <3>1, NothingInOrder DEF SerialStream, StillStream
  <2>4. CASE pc[k] # "idle"
    <3>1. PICK t : t = scope[k]
      OBVIOUS
    <3>2. t \in Scopes /\ published[t] \in Nat
      BY <1>2, <2>4, <3>1 DEF ScopeInv, HubType
    <3>3. published'[t] \in Nat /\ published[t] <= published'[t]
      BY <1>4, <1>5, <3>2
    <3>4. /\ InOrder(ch[k], published'[t])
          /\ pc[k] = "replaying" => InOrder(pending[k], published'[t])
      BY <2>2, <3>1, <3>2, <3>3, InOrderMore DEF SerialStream
    <3>5. best[k] # Nil /\ best[k].version <= published[t] => best[k].version <= published'[t]
      BY <2>2, <3>2, <3>3 DEF Snapshots
    <3> QED
      BY <2>1, <2>2, <3>1, <3>4, <3>5 DEF SerialStream, StillStream
  <2> QED
    BY <2>3, <2>4
<1>11. \A q \in Writers : q = w
  BY DEF OneWriter
<1> QED
  BY <1>7, <1>8, <1>9, <1>10, <1>11 DEF OrderInv

\* The message that Publish sends is the newest one that was published.
LEMMA SendOrdered ==
  ASSUME NoSharedEnvKeys, OneWriter, HonestInv, WiringInv, OrderInv, NEW w \in Writers,
         NEW k \in Conns, Send(w, k)
  PROVE  OrderInv'
<1>0. PICK m : m = Message(msgVersion[w], draft[w])
  OBVIOUS
<1>1. /\ k \in targets[w] /\ targets' = [targets EXCEPT ![w] = @ \ {k}]
      /\ ch' \in {ch, [ch EXCEPT ![k] = Append(@, m)]}
      /\ UNCHANGED <<versions, published, rings, subs, pc, scope, draft, msgVersion, from, sent,
                     pending, exact, best>>
  BY <1>0, Zenon DEF Send, storeVars, hubVars, streamVars
<1>2. WriterType /\ HubType /\ StreamType /\ WriterInv(w) /\ SerialWriter(w) /\ SerialStream(k)
  BY DEF HonestInv, TypeOK, WiringInv, OrderInv
<1>3. /\ ch'[k] \in {ch[k], Append(ch[k], m)}
      /\ \A j \in Conns \ {k} : ch'[j] = ch[j]
  BY <1>1, <1>2 DEF HubType
<1>4. /\ m \in Messages /\ m.snap.version = m.version /\ m.version \in Nat
      /\ m.version = published[scope[w]] /\ scope[w] \in Scopes
  <2>1. m \in Messages
    BY <1>0, <1>1, <1>2, MessageIs DEF MessagesFor
  <2> QED
    BY <1>0, <1>1, <1>2, <2>1, MessageNat DEF SerialWriter, Message
<1>5. scope[k] = scope[w]
  <2>1. pc[k] # "idle" /\ scope[k][2] = scope[w][2]
    BY <1>1, <1>2 DEF WriterInv
  <2>2. scope[k] \in Scopes
    BY <2>1 DEF HonestInv, ScopeInv
  <2> QED
    BY <1>4, <2>1, <2>2 DEF NoSharedEnvKeys
<1>6. \A j \in Conns : StillStream(j)
  BY <1>1 DEF StillStream
<1>7. SerialStream(k)'
  <2>1. CASE ch'[k] = ch[k]
    BY <1>1, <1>2, <1>6, <2>1, SerialStreamKept
  <2>2. CASE ch'[k] = Append(ch[k], m)
    <3>1. ch[k] \in Seq(Messages) /\ InOrder(ch[k], m.version)
      BY <1>2, <1>4, <1>5 DEF HubType, SerialStream
    <3>2. InOrder(ch'[k], m.version)
      <4>1. m.version <= m.version
        BY <1>4
      <4> QED
        BY <1>4, <2>2, <3>1, <4>1, InOrderAppend
    <3>3. ASSUME pc[k] = "loop", best[k] # Nil, NEW i \in 1 .. Len(ch'[k]), ch'[k][i].version > sent[k]
          PROVE  best[k].version <= ch'[k][i].version
      <4>1. CASE i \in 1 .. Len(ch[k])
        <5>1. ch'[k][i] = ch[k][i]
          BY <1>4, <2>2, <3>1, <4>1
        <5> QED
          BY <1>2, <3>3, <4>1, <5>1 DEF SerialStream
      <4>2. CASE i = Len(ch[k]) + 1
        <5>1. ch'[k][i] = m
          BY <1>4, <2>2, <3>1, <4>2
        <5>2. best[k].version \in Nat /\ sent[k] \in Nat
          BY <1>2, <3>3 DEF StreamType, Snapshots
        <5>3. best[k].version <= sent[k] \/ best[k].version <= m.version
          BY <1>2, <1>4, <1>5, <3>3 DEF SerialStream
        <5> QED
          BY <1>4, <3>3, <5>1, <5>2, <5>3
      <4> QED
        BY <1>4, <2>2, <3>1, <4>1, <4>2
    <3> QED
      BY <1>1, <1>2, <1>4, <1>5, <3>2, <3>3 DEF SerialStream
  <2> QED
    BY <1>3, <2>1, <2>2
<1>8. \A j \in Conns : SerialStream(j)'
  BY <1>1, <1>3, <1>6, <1>7, SerialStreamKept DEF OrderInv
<1>9. SerialWriter(w)' /\ PublishedLow'
  BY <1>1, <1>2 DEF OrderInv, SerialWriter, PublishedLow
<1> QED
  BY <1>1, <1>8, <1>9, OrderWriterStep

-----------------------------------------------------------------------------
(***************************************************************************)
(* OrderInv: the stream handlers and the clients.                           *)
(***************************************************************************)
\* Nothing is asked of a stream that does not write messages, except of its queue.
LEMMA SerialElsewhere ==
  ASSUME NEW k \in Conns, SerialStream(k), pc'[k] \notin {"replaying", "loop"},
         ch'[k] = ch[k], scope'[k] = scope[k], published' = published
  PROVE  SerialStream(k)'
BY DEF SerialStream, InOrder

LEMMA SubscribeOrdered ==
  ASSUME HonestInv, OrderInv, NEW k \in Conns, Subscribe(k)
  PROVE  OrderInv'
<1>1. /\ pc' = [pc EXCEPT ![k] = "replay"]
      /\ subs' = [subs EXCEPT ![scope[k][2]] = @ \cup {k}]
      /\ rings' = [rings EXCEPT ![scope[k][2]] = IF @ = Nil THEN NewEventRing ELSE @]
      /\ UNCHANGED <<versions, published, ch, scope, draft, msgVersion, targets, slow, from, sent,
                     pending, exact, best>>
  BY DEF Subscribe, storeVars, writerVars, streamVars
<1>2. HandlerType /\ HubType
  BY DEF HonestInv, TypeOK
<1>3. pc'[k] = "replay" /\ \A q \in Procs \ {k} : pc'[q] = pc[q]
  BY <1>1, <1>2, ProcsAre DEF HandlerType
<1>4. ASSUME NEW j \in Conns \ {k} PROVE StillStream(j)
  <2>1. j \in subs'[scope[j][2]] => j \in subs[scope[j][2]]
    BY <1>1, <1>2 DEF HubType
  <2> QED
    BY <1>1, <1>3, <2>1, ProcsAre DEF StillStream
<1>5. \A w \in Writers : SameWriter(w)
  BY <1>1, <1>3, ProcsAre DEF SameWriter
<1>6. SerialRings'
  <2> SUFFICES ASSUME NEW s \in Scopes, rings'[s[2]] # Nil
               PROVE  InOrder(Walk(rings'[s[2]]), published[s])
    BY <1>1 DEF SerialRings
  <2>1. (rings[s[2]] # Nil /\ rings'[s[2]] = rings[s[2]]) \/ rings'[s[2]] = NewEventRing
    BY <1>1, <1>2, ContentType DEF HubType, HonestInv, TypeOK
  <2>2. Len(Walk(NewEventRing)) = 0
    <3>1. NewEventRing \in Rings /\ RingHolds(NewEventRing, Messages) /\ NewEventRing.count = 0
      BY NewRingHolds DEF NewEventRing
    <3> QED
      BY <3>1, WalkHolds
  <2>3. InOrder(Walk(NewEventRing), published[s])
    BY <2>2 DEF InOrder
  <2> QED
    BY <2>1, <2>3 DEF OrderInv, SerialRings
<1>7. SerialStream(k)'
  BY <1>1, <1>3, SerialElsewhere DEF OrderInv
<1> QED
  BY <1>1, <1>4, <1>5, <1>6, <1>7, OrderStreamStep

LEMMA StreamBuildOrdered ==
  ASSUME HonestInv, OrderInv, NEW k \in Conns, Build(k)
  PROVE  OrderInv'
<1>1. /\ pc'[k] \in Drafting /\ scope' = scope
      /\ \A r \in Procs \ {k} : pc'[r] = pc[r] /\ draft'[r] = draft[r]
      /\ UNCHANGED <<versions, published, rings, subs, ch, msgVersion, targets, slow, from, sent,
                     pending, exact, best>>
  BY BuildIs, ProcsAre DEF storeVars, hubVars, writerVars, streamVars
<1>2. \A j \in Conns \ {k} : StillStream(j)
  BY <1>1, ProcsAre DEF StillStream
<1>3. \A w \in Writers : SameWriter(w)
  BY <1>1, ProcsAre DEF SameWriter
<1>4. SerialStream(k)' /\ SerialRings'
  BY <1>1, SerialElsewhere, SerialRingsKept DEF Drafting, Building, OrderInv
<1> QED
  BY <1>1, <1>2, <1>3, <1>4, OrderStreamStep

LEMMA DisconnectedOrdered ==
  ASSUME HonestInv, OrderInv, NEW k \in Conns, Disconnected(k)
  PROVE  OrderInv'
<1>1. /\ pc' = [pc EXCEPT ![k] = "closed"] /\ ch' = [ch EXCEPT ![k] = <<>>]
      /\ subs' = [subs EXCEPT ![scope[k][2]] = @ \ {k}]
      /\ UNCHANGED <<versions, published, rings, scope, draft, msgVersion, targets, slow, from,
                     sent, pending, exact, best>>
  BY DEF Disconnected, Unsubscribe, storeVars, writerVars, streamVars
<1>2. HandlerType /\ HubType
  BY DEF HonestInv, TypeOK
<1>3. /\ pc'[k] = "closed" /\ \A q \in Procs \ {k} : pc'[q] = pc[q]
      /\ ch'[k] = <<>> /\ \A j \in Conns \ {k} : ch'[j] = ch[j]
  BY <1>1, <1>2, ProcsAre DEF HandlerType, HubType
<1>4. ASSUME NEW j \in Conns \ {k} PROVE StillStream(j)
  <2>1. j \in subs'[scope[j][2]] => j \in subs[scope[j][2]]
    BY <1>1, <1>2 DEF HubType
  <2> QED
    BY <1>1, <1>3, <2>1, ProcsAre DEF StillStream
<1>5. \A w \in Writers : SameWriter(w)
  BY <1>1, <1>3, ProcsAre DEF SameWriter
<1>6. SerialStream(k)' /\ SerialRings'
  BY <1>1, <1>3, NothingInOrder, SerialRingsKept DEF SerialStream, OrderInv
<1> QED
  BY <1>1, <1>3, <1>4, <1>5, <1>6, OrderStreamStep

\* The first snapshot of a stream is not newer than the version read after it.
LEMMA SendInitialOrdered ==
  ASSUME HonestInv, OrderInv, NEW k \in Conns, SendInitial(k)
  PROVE  OrderInv'
<1>0. PICK s, x : s = scope[k] /\ x = draft[k]
  OBVIOUS
<1>1. /\ pc[k] = "built" /\ pc' = [pc EXCEPT ![k] = "loop"]
      /\ sent' = [sent EXCEPT ![k] = versions[s]]
      /\ best' = [best EXCEPT ![k] = x]
      /\ \E b : exact' = [exact EXCEPT ![k] = b]
      /\ draft' = [draft EXCEPT ![k] = Nil]
      /\ UNCHANGED <<versions, published, rings, subs, ch, scope, msgVersion, targets, slow, from,
                     pending>>
  BY <1>0, Zenon DEF SendInitial, storeVars, hubVars, writerVars
<1>2. HandlerType /\ StreamType /\ StoreType /\ HubType
  BY DEF HonestInv, TypeOK
<1>3. s \in Scopes /\ x \in Snapshots /\ versions[s] \in Nat /\ x.version \in Nat
  BY <1>0, <1>1, <1>2, BuiltIsSound, ProcsAre DEF SoundSnapshots, StoreType, Snapshots
<1>4. x.version <= versions[s]
  BY <1>0, <1>1, ProcsAre DEF HonestInv, DraftInv, DraftOK, Drafting, Building
<1>5. /\ pc'[k] = "loop" /\ \A q \in Procs \ {k} : pc'[q] = pc[q] /\ draft'[q] = draft[q]
      /\ sent'[k] = versions[s] /\ best'[k] = x
      /\ \A j \in Conns \ {k} : sent'[j] = sent[j] /\ best'[j] = best[j] /\ exact'[j] = exact[j]
  BY <1>1, <1>2, ProcsAre DEF HandlerType, StreamType
<1>6. SerialStream(k)'
  <2>1. ASSUME NEW i \in 1 .. Len(ch[k]), ch[k][i].version > versions[s]
        PROVE  x.version <= ch[k][i].version
    <3>1. ch[k][i] \in Messages
      BY <1>2 DEF HubType
    <3> QED
      BY <1>3, <1>4, <2>1, <3>1, MessageNat
  <2>2. InOrder(ch[k], published[scope[k]])
    BY DEF OrderInv, SerialStream
  <2> QED
    BY <1>1, <1>4, <1>5, <2>1, <2>2 DEF SerialStream, InOrder
<1>7. \A j \in Conns \ {k} : StillStream(j)
  BY <1>1, <1>5, ProcsAre DEF StillStream
<1>8. \A w \in Writers : SameWriter(w)
  BY <1>1, <1>5, ProcsAre DEF SameWriter
<1>9. SerialRings'
  BY <1>1, SerialRingsKept DEF OrderInv
<1> QED
  BY <1>1, <1>6, <1>7, <1>8, <1>9, OrderStreamStep

\* A message that the loop writes is not older than what was written before it.
LEMMA NewerIsNewest ==
  ASSUME NEW a \in Snapshots \cup {Nil}, NEW b \in Snapshots, a # Nil => a.version <= b.version
  PROVE  Newest(a, b) = b /\ b # Nil
<1>1. b.version \in Nat /\ (a # Nil => a.version \in Nat)
  BY DEF Snapshots
<1> QED
  BY <1>1, NilAssumption DEF Newest

LEMMA DeliverOrdered ==
  ASSUME HonestInv, OrderInv, NEW k \in Conns, Deliver(k)
  PROVE  OrderInv'
<1>0. PICK m, t, n : m = Head(ch[k]) /\ t = Tail(ch[k]) /\ n = published[scope[k]]
  OBVIOUS
<1>1. /\ pc[k] = "loop" /\ ch[k] # <<>> /\ ch' = [ch EXCEPT ![k] = t]
      /\ \/ m.version <= sent[k] /\ best' = best
         \/ m.version > sent[k] /\ best' = [best EXCEPT ![k] = Newest(@, m.snap)]
      /\ UNCHANGED <<versions, published, rings, subs, pc, scope, draft, msgVersion, targets, slow,
                     from, sent, pending, exact>>
  BY <1>0 DEF Deliver, DeliverFrame, storeVars, hubVars, writerVars
<1>2. HubType /\ StreamType /\ ScopeInv /\ SerialStream(k)
  BY DEF HonestInv, TypeOK, OrderInv
<1>3. /\ ch'[k] = t
      /\ \/ m.version <= sent[k] /\ best'[k] = best[k]
         \/ m.version > sent[k] /\ best'[k] = Newest(best[k], m.snap)
      /\ \A j \in Conns \ {k} : ch'[j] = ch[j] /\ best'[j] = best[j]
  BY <1>1, <1>2 DEF HubType, StreamType
<1>4. /\ n \in Nat /\ ch[k] \in Seq(Messages) /\ m \in Messages /\ t \in Seq(Messages)
      /\ best[k] \in Snapshots \cup {Nil} /\ sent[k] \in Nat
  BY <1>0, <1>1, <1>2, TailHead DEF HubType, StreamType, ScopeInv
<1>5. m.version \in Nat /\ m.snap \in Snapshots /\ m.snap.version \in Nat
  BY <1>4, MessageNat
<1>6. /\ InOrder(t, n) /\ m.version <= n /\ m.snap.version = m.version
      /\ \A i \in 1 .. Len(t) : m.version <= t[i].version
  BY <1>0, <1>1, <1>2, <1>4, InOrderTail DEF SerialStream
<1>7. SerialStream(k)'
  <2>1. CASE m.version <= sent[k] /\ best'[k] = best[k]
    <3>1. ASSUME NEW i \in 1 .. Len(t) PROVE i + 1 \in 1 .. Len(ch[k]) /\ t[i] = ch[k][i + 1]
      <4>1. Len(ch[k]) \in Nat /\ Len(t) = Len(ch[k]) - 1
        BY <1>0, <1>1, <1>4
      <4> QED
        BY <1>0, <1>1, <1>4, <4>1
    <3> QED
      BY <1>0, <1>1, <1>2, <1>3, <1>6, <2>1, <3>1 DEF SerialStream
  <2>2. CASE m.version > sent[k] /\ best'[k] = Newest(best[k], m.snap)
    <3>1. best[k] # Nil => best[k].version <= m.version
      <4>1. 1 \in 1 .. Len(ch[k]) /\ m = ch[k][1]
        BY <1>0, <1>1, <1>4
      <4> QED
        BY <1>1, <1>2, <2>2, <4>1 DEF SerialStream
    <3>2. best'[k] = m.snap
      BY <1>4, <1>5, <1>6, <2>2, <3>1, NewerIsNewest
    <3> QED
      BY <1>0, <1>1, <1>3, <1>6, <3>2 DEF SerialStream
  <2> QED
    BY <1>3, <2>1, <2>2
<1>8. \A j \in Conns \ {k} : StillStream(j) /\ ch'[j] = ch[j]
  BY <1>1, <1>3 DEF StillStream
<1>9. \A w \in Writers : SameWriter(w)
  BY <1>1 DEF SameWriter
<1>10. SerialRings'
  BY <1>1, SerialRingsKept DEF OrderInv
<1> QED
  BY <1>1, <1>7, <1>8, <1>9, <1>10, OrderStreamStep

LEMMA ReplayOrdered ==
  ASSUME HonestInv, WiringInv, OrderInv, NEW k \in Conns, Replay(k)
  PROVE  OrderInv'
<1>0. PICK s, r : s = scope[k] /\ r = rings[s[2]]
  OBVIOUS
<1>1. PICK l, x, b :
        /\ pc[k] = "replay" /\ pc' = [pc EXCEPT ![k] = l] /\ pending' = [pending EXCEPT ![k] = x]
        /\ exact' = [exact EXCEPT ![k] = b]
        /\ (l = "replaying" /\ x = Walk(r)) \/ l = "build"
        /\ UNCHANGED <<versions, published, rings, subs, ch, scope, draft, msgVersion, targets, slow,
                       from, sent, best>>
  <2> DEFINE messages == Walk(r)
             newer    == {i \in 1 .. r.count : messages[i].version > from[k]}
             replays  == Since(r, from[k]).ok /\ newer # {}
             l        == IF replays THEN "replaying" ELSE "build"
             x        == IF replays THEN messages ELSE <<>>
             b        == replays /\ \E i \in newer : messages[i].snap.version >= published[s]
  <2>1. /\ pc[k] = "replay" /\ pc' = [pc EXCEPT ![k] = l] /\ pending' = [pending EXCEPT ![k] = x]
        /\ exact' = [exact EXCEPT ![k] = b]
        /\ UNCHANGED <<versions, published, rings, subs, ch, scope, draft, msgVersion, targets, slow,
                       from, sent, best>>
    BY <1>0, Zenon DEF Replay, storeVars, hubVars, writerVars
  <2>2. (l = "replaying" /\ x = Walk(r)) \/ l = "build"
    BY Zenon
  <2> HIDE DEF l, x, b
  <2> QED
    BY <2>1, <2>2, Zenon
<1>2. HandlerType /\ StreamType /\ HubType
  BY DEF HonestInv, TypeOK
<1>3. /\ pc'[k] = l /\ \A q \in Procs \ {k} : pc'[q] = pc[q]
      /\ pending'[k] = x
      /\ \A j \in Conns \ {k} : pending'[j] = pending[j] /\ exact'[j] = exact[j]
  BY <1>1, <1>2, ProcsAre DEF HandlerType, StreamType
<1>4. s \in Scopes /\ best[k] = Nil /\ r # Nil
  BY <1>0, <1>1 DEF HonestInv, ScopeInv, RingInv, WiringInv, StreamInv
<1>5. InOrder(Walk(r), published[s])
  BY <1>0, <1>4 DEF OrderInv, SerialRings
<1>6. SerialStream(k)'
  <2>1. CASE l = "build"
    BY <1>1, <1>3, <2>1, SerialElsewhere DEF OrderInv
  <2>2. CASE l = "replaying" /\ x = Walk(r)
    BY <1>0, <1>1, <1>3, <1>4, <1>5, <2>2 DEF SerialStream, OrderInv
  <2> QED
    BY <1>1, <2>1, <2>2
<1>7. \A j \in Conns \ {k} : StillStream(j)
  BY <1>1, <1>3, ProcsAre DEF StillStream
<1>8. \A w \in Writers : SameWriter(w)
  BY <1>1, <1>3, ProcsAre DEF SameWriter
<1>9. SerialRings'
  BY <1>1, SerialRingsKept DEF OrderInv
<1> QED
  BY <1>1, <1>6, <1>7, <1>8, <1>9, OrderStreamStep

LEMMA WriteReplayedOrdered ==
  ASSUME HonestInv, WiringInv, OrderInv, NEW k \in Conns, WriteReplayed(k)
  PROVE  OrderInv'
<1>0. PICK m, t, n, l : /\ m = Head(pending[k]) /\ t = Tail(pending[k]) /\ n = published[scope[k]]
                        /\ l = IF Len(pending[k]) = 1 THEN "loop" ELSE "replaying"
  OBVIOUS
<1>1. /\ pc[k] = "replaying" /\ pending' = [pending EXCEPT ![k] = t]
      /\ pc' = [pc EXCEPT ![k] = l]
      /\ \/ m.version <= from[k] /\ UNCHANGED <<sent, best>>
         \/ /\ m.version > from[k]
            /\ sent' = [sent EXCEPT ![k] = m.version]
            /\ best' = [best EXCEPT ![k] = Newest(@, m.snap)]
      /\ UNCHANGED <<versions, published, rings, subs, ch, scope, draft, msgVersion, targets, slow,
                     from, exact>>
  BY <1>0 DEF WriteReplayed, storeVars, hubVars, writerVars
<1>2. /\ HandlerType /\ StreamType /\ HubType /\ ScopeInv /\ pending[k] # <<>> /\ SerialStream(k)
  BY <1>1 DEF HonestInv, TypeOK, TransitInv, OrderInv
<1>3. /\ pc'[k] = l /\ \A q \in Procs \ {k} : pc'[q] = pc[q]
      /\ pending'[k] = t
      /\ \/ sent'[k] = sent[k] /\ best'[k] = best[k]
         \/ sent'[k] = m.version /\ best'[k] = Newest(best[k], m.snap)
      /\ \A j \in Conns \ {k} : pending'[j] = pending[j] /\ sent'[j] = sent[j] /\ best'[j] = best[j]
  BY <1>1, <1>2, ProcsAre DEF HandlerType, StreamType
<1>4. /\ n \in Nat /\ pending[k] \in Seq(Messages) /\ m \in Messages /\ t \in Seq(Messages)
      /\ ch[k] \in Seq(Messages) /\ best[k] \in Snapshots \cup {Nil} /\ sent[k] \in Nat
  BY <1>0, <1>1, <1>2, TailHead DEF HubType, StreamType, ScopeInv
<1>5. m.version \in Nat /\ m.snap \in Snapshots /\ m.snap.version \in Nat
  BY <1>4, MessageNat
<1>6. /\ InOrder(t, n) /\ m.version <= n /\ m.snap.version = m.version
      /\ \A i \in 1 .. Len(t) : m.version <= t[i].version
  BY <1>0, <1>1, <1>2, <1>4, InOrderTail DEF SerialStream
<1>7. 1 \in 1 .. Len(pending[k]) /\ m = pending[k][1]
  BY <1>0, <1>2, <1>4
<1>8. best[k] # Nil => best[k].version <= m.version /\ best[k].version = sent[k]
  BY <1>1, <1>2, <1>7 DEF SerialStream
\* What has just been written is the message of version sentVersion.
<1>9. best'[k] # Nil =>
        /\ best'[k].version = sent'[k] /\ best'[k].version \in Nat
        /\ \A i \in 1 .. Len(t) : best'[k].version <= t[i].version
  <2>1. CASE sent'[k] = sent[k] /\ best'[k] = best[k]
    <3> SUFFICES ASSUME best[k] # Nil, NEW i \in 1 .. Len(t)
                 PROVE  best[k].version <= t[i].version
      BY <1>4, <1>8, <2>1
    <3>1. t[i] \in Messages /\ m.version <= t[i].version
      BY <1>4, <1>6
    <3>2. t[i].version \in Nat /\ best[k].version \in Nat /\ best[k].version <= m.version
      BY <1>4, <1>8, <3>1, MessageNat
    <3> QED
      BY <1>5, <3>1, <3>2
  <2>2. CASE sent'[k] = m.version /\ best'[k] = Newest(best[k], m.snap)
    <3>1. best'[k] = m.snap
      BY <1>4, <1>5, <1>6, <1>8, <2>2, NewerIsNewest
    <3> QED
      BY <1>5, <1>6, <2>2, <3>1
  <2> QED
    BY <1>3, <2>1, <2>2
<1>10. SerialStream(k)'
  <2>1. ASSUME best'[k] # Nil, NEW i \in 1 .. Len(ch[k]), ch[k][i].version > sent'[k]
        PROVE  best'[k].version <= ch[k][i].version
    <3>1. ch[k][i] \in Messages
      BY <1>4
    <3> QED
      BY <1>9, <2>1, <3>1, MessageNat
  <2>2. best'[k] # Nil => best'[k].version <= sent'[k]
    BY <1>9
  <2>3. InOrder(ch[k], n)
    BY <1>0, <1>2 DEF SerialStream
  <2> QED
    BY <1>0, <1>1, <1>3, <1>6, <1>9, <2>1, <2>2, <2>3 DEF SerialStream
<1>11. \A j \in Conns \ {k} : StillStream(j)
  BY <1>1, <1>3, ProcsAre DEF StillStream
<1>12. \A w \in Writers : SameWriter(w)
  BY <1>1, <1>3, ProcsAre DEF SameWriter
<1>13. SerialRings'
  BY <1>1, SerialRingsKept DEF OrderInv
<1> QED
  BY <1>1, <1>10, <1>11, <1>12, <1>13, OrderStreamStep

LEMMA ConnectOrdered ==
  ASSUME HonestInv, WiringInv, OrderInv, NEW c \in Clients, Connect(c)
  PROVE  OrderInv'
<1>0. PICK k : k = used + 1
  OBVIOUS
<1>1. /\ k \in Conns /\ pc' = [pc EXCEPT ![k] = "subscribe"]
      /\ scope' = [scope EXCEPT ![k] = ClientScope[c]]
      /\ UNCHANGED <<versions, published, rings, subs, ch, draft, msgVersion, targets, slow, sent,
                     pending, exact, best>>
      /\ \E x : from' = [from EXCEPT ![k] = x]
  BY <1>0, Zenon DEF Connect, storeVars, hubVars, writerVars
<1>2. HandlerType /\ StreamType /\ StreamInv(k) /\ used \in Nat
  BY <1>1, PropagationAssumption DEF HonestInv, TypeOK, ClientType, WiringInv
<1>3. /\ pc'[k] = "subscribe"
      /\ \A q \in Procs \ {k} : pc'[q] = pc[q] /\ scope'[q] = scope[q]
      /\ \A j \in Conns \ {k} : from'[j] = from[j]
  BY <1>1, <1>2, ProcsAre DEF HandlerType, StreamType
<1>4. ch[k] = <<>>
  <2>1. k > used
    BY <1>0, <1>2
  <2> QED
    BY <1>2, <2>1 DEF StreamInv
<1>5. SerialStream(k)' /\ SerialRings'
  BY <1>1, <1>3, <1>4, NothingInOrder, SerialRingsKept DEF SerialStream, OrderInv
<1>6. \A j \in Conns \ {k} : StillStream(j)
  BY <1>1, <1>3, ProcsAre DEF StillStream
<1>7. \A w \in Writers : SameWriter(w)
  BY <1>1, <1>3, ProcsAre DEF SameWriter
<1> QED
  BY <1>1, <1>5, <1>6, <1>7, OrderStreamStep

LEMMA ReadOrdered ==
  ASSUME OrderInv, (\E c \in Clients : HandleEvent(c) \/ Drop(c)) \/ UNCHANGED vars
  PROVE  OrderInv'
<1>1. UNCHANGED <<versions, published, rings, subs, ch, pc, scope, draft, msgVersion, targets, slow,
                  from, sent, pending, exact, best>>
  BY DEF HandleEvent, Drop, vars, storeVars, hubVars, writerVars, streamVars
<1> QED
  BY <1>1 DEF OrderInv, PublishedLow, SerialWriter, SerialRings, SerialStream

LEMMA OrderInit == Init => OrderInv
<1> SUFFICES ASSUME Init PROVE OrderInv
  OBVIOUS
<1>1. \A k \in Conns : pc[k] = "idle" /\ ch[k] = <<>>
  BY ProcsAre DEF Init
<1>2. \A w \in Writers : pc[w] = "idle" /\ targets[w] = {}
  BY ProcsAre DEF Init
<1>3. \A s \in Scopes : versions[s] = 0 /\ published[s] = 0 /\ rings[s[2]] = Nil
  <2>1. \A s \in Scopes : s[2] \in EnvKeys
    BY PropagationAssumption
  <2> QED
    BY <2>1 DEF Init
<1> QED
  BY <1>1, <1>2, <1>3, NothingInOrder
  DEF OrderInv, PublishedLow, SerialWriter, Building, Drafting, SerialRings, SerialStream

LEMMA OrderNext ==
  ASSUME NoSharedEnvKeys, OneWriter, HonestInv, WiringInv, OrderInv, [Next]_vars
  PROVE  OrderInv'
<1>1. CASE UNCHANGED vars
  BY <1>1, ReadOrdered
<1>2. ASSUME NEW w \in Writers, NewRequest(w) \/ WriterStep(w) PROVE OrderInv'
  BY <1>2, NewRequestOrdered, IncrementOrdered, WriterBuildOrdered, PublishOrdered,
     SendOrdered, UnsubscribeSlowOrdered, RespondOrdered DEF WriterStep
<1>3. ASSUME NEW k \in Conns, StreamStep(k) PROVE OrderInv'
  BY <1>3, SubscribeOrdered, ReplayOrdered, WriteReplayedOrdered, StreamBuildOrdered,
     SendInitialOrdered, DeliverOrdered, DisconnectedOrdered DEF StreamStep
<1>4. ASSUME NEW c \in Clients, ClientStep(c) \/ Drop(c) PROVE OrderInv'
  BY <1>4, ConnectOrdered, ReadOrdered DEF ClientStep
<1> QED
  BY <1>1, <1>2, <1>3, <1>4 DEF Next

-----------------------------------------------------------------------------
(***************************************************************************)
(* TipInv is inductive.                                                     *)
(***************************************************************************)
\* What stream k has written, and what the clients hold, is left alone.
LEMMA TipKept ==
  ASSUME TipInv, UNCHANGED <<conn, wire, best, view>>
  PROVE  TipInv'
BY DEF TipInv, Tip

\* A stream writes one more snapshot, the one with the highest label.
LEMMA TipWrites ==
  ASSUME HonestInv, TipInv, NEW k \in Conns, NEW x \in Snapshots,
         wire' = [wire EXCEPT ![k] = Append(@, x)], best' = [best EXCEPT ![k] = x],
         UNCHANGED <<conn, view>>
  PROVE  TipInv'
<1>1. StreamType /\ ClientType
  BY DEF HonestInv, TypeOK
<1>2. /\ wire'[k] = Append(wire[k], x) /\ best'[k] = x /\ wire[k] \in Seq(Snapshots)
      /\ \A j \in Conns \ {k} : wire'[j] = wire[j] /\ best'[j] = best[j]
  BY <1>1 DEF StreamType
<1>3. wire'[k] # <<>> /\ wire'[k][Len(wire'[k])] = x
  <2>1. Len(Append(wire[k], x)) = Len(wire[k]) + 1 /\ Len(wire[k]) \in Nat
    BY <1>2
  <2> QED
    BY <1>2, <2>1
<1>4. ASSUME NEW c \in Clients PROVE Tip(c)'
  <2>1. CASE conn[c] = k
    BY <1>2, <1>3, <2>1 DEF Tip
  <2>2. CASE conn[c] # k
    BY <1>1, <1>2, <2>2 DEF Tip, TipInv, ClientType
  <2> QED
    BY <2>1, <2>2
<1> QED
  BY <1>4 DEF TipInv

LEMMA DeliverTip ==
  ASSUME HonestInv, OrderInv, TipInv, NEW k \in Conns, Deliver(k)
  PROVE  TipInv'
<1>0. PICK m : m = Head(ch[k])
  OBVIOUS
<1>1. /\ pc[k] = "loop" /\ ch[k] # <<>> /\ UNCHANGED <<conn, view>>
      /\ \/ m.version <= sent[k] /\ UNCHANGED <<wire, best>>
         \/ /\ m.version > sent[k] /\ wire' = [wire EXCEPT ![k] = Append(@, m.snap)]
            /\ best' = [best EXCEPT ![k] = Newest(@, m.snap)]
  BY <1>0, Zenon DEF Deliver, DeliverFrame, clientVars
<1>2. HubType /\ StreamType /\ SerialStream(k)
  BY DEF HonestInv, TypeOK, OrderInv
<1>3. /\ ch[k] \in Seq(Messages) /\ m \in Messages /\ m = ch[k][1] /\ 1 \in 1 .. Len(ch[k])
      /\ best[k] \in Snapshots \cup {Nil}
  BY <1>0, <1>1, <1>2, TailHead DEF HubType, StreamType
<1>4. m.snap \in Snapshots /\ m.snap.version = m.version
  BY <1>2, <1>3, MessageNat DEF SerialStream, InOrder
<1>5. CASE m.version <= sent[k] /\ UNCHANGED <<wire, best>>
  BY <1>1, <1>5, TipKept
<1>6. CASE /\ m.version > sent[k] /\ wire' = [wire EXCEPT ![k] = Append(@, m.snap)]
           /\ best' = [best EXCEPT ![k] = Newest(@, m.snap)]
  <2>1. best[k] # Nil => best[k].version <= m.snap.version
    BY <1>1, <1>2, <1>3, <1>4, <1>6 DEF SerialStream
  <2>2. Newest(best[k], m.snap) = m.snap
    BY <1>3, <1>4, <2>1, NewerIsNewest
  <2>3. best' = [best EXCEPT ![k] = m.snap]
    BY <1>6, <2>2
  <2> QED
    BY <1>1, <1>4, <1>6, <2>3, TipWrites
<1> QED
  BY <1>1, <1>5, <1>6

LEMMA WriteReplayedTip ==
  ASSUME HonestInv, OrderInv, TipInv, NEW k \in Conns, WriteReplayed(k)
  PROVE  TipInv'
<1>0. PICK m : m = Head(pending[k])
  OBVIOUS
<1>1. /\ pc[k] = "replaying" /\ UNCHANGED <<conn, view>>
      /\ \/ UNCHANGED <<wire, best>>
         \/ /\ wire' = [wire EXCEPT ![k] = Append(@, m.snap)]
            /\ best' = [best EXCEPT ![k] = Newest(@, m.snap)]
  BY <1>0, Zenon DEF WriteReplayed, clientVars
<1>2. StreamType /\ SerialStream(k) /\ pending[k] # <<>>
  BY <1>1 DEF HonestInv, TypeOK, OrderInv, TransitInv
<1>3. /\ pending[k] \in Seq(Messages) /\ m \in Messages /\ m = pending[k][1]
      /\ 1 \in 1 .. Len(pending[k]) /\ best[k] \in Snapshots \cup {Nil}
  BY <1>0, <1>1, <1>2, TailHead DEF StreamType
<1>4. m.snap \in Snapshots /\ m.snap.version = m.version
  BY <1>1, <1>2, <1>3, MessageNat DEF SerialStream, InOrder
<1>5. CASE UNCHANGED <<wire, best>>
  BY <1>1, <1>5, TipKept
<1>6. CASE /\ wire' = [wire EXCEPT ![k] = Append(@, m.snap)]
           /\ best' = [best EXCEPT ![k] = Newest(@, m.snap)]
  <2>1. best[k] # Nil => best[k].version <= m.snap.version
    BY <1>1, <1>2, <1>3, <1>4 DEF SerialStream
  <2>2. Newest(best[k], m.snap) = m.snap
    BY <1>3, <1>4, <2>1, NewerIsNewest
  <2>3. best' = [best EXCEPT ![k] = m.snap]
    BY <1>6, <2>2
  <2> QED
    BY <1>1, <1>4, <1>6, <2>3, TipWrites
<1> QED
  BY <1>1, <1>5, <1>6

LEMMA SendInitialTip ==
  ASSUME HonestInv, TipInv, NEW k \in Conns, SendInitial(k)
  PROVE  TipInv'
<1>0. PICK x : x = draft[k]
  OBVIOUS
<1>1. /\ pc[k] = "built" /\ UNCHANGED <<conn, view>>
      /\ wire' = [wire EXCEPT ![k] = Append(@, x)] /\ best' = [best EXCEPT ![k] = x]
  BY <1>0, Zenon DEF SendInitial, clientVars
<1>2. x \in Snapshots
  BY <1>0, <1>1, BuiltIsSound, ProcsAre DEF SoundSnapshots
<1> QED
  BY <1>1, <1>2, TipWrites

\* The client reads the oldest event; the last one that it reads is the tip.
LEMMA HandleEventTip ==
  ASSUME HonestInv, TipInv, NEW c \in Clients, HandleEvent(c)
  PROVE  TipInv'
<1>0. PICK k, x, t : k = conn[c] /\ x = Head(wire[k]) /\ t = Tail(wire[k])
  OBVIOUS
<1>1. /\ k # Nil /\ wire[k] # <<>> /\ view' = [view EXCEPT ![c] = x]
      /\ wire' = [wire EXCEPT ![k] = t] /\ UNCHANGED <<conn, best>>
  BY <1>0, Zenon DEF HandleEvent, streamVars
<1>2. StreamType /\ ClientType
  BY DEF HonestInv, TypeOK
<1>3. k \in Conns /\ wire[k] \in Seq(Snapshots)
  BY <1>0, <1>1, <1>2 DEF StreamType, ClientType
<1>4. /\ wire'[k] = t /\ view'[c] = x
      /\ \A j \in Conns \ {k} : wire'[j] = wire[j]
      /\ \A d \in Clients \ {c} : view'[d] = view[d]
  BY <1>1, <1>2, <1>3 DEF StreamType, ClientType
<1>5. IF t = <<>> THEN x = wire[k][Len(wire[k])] ELSE t[Len(t)] = wire[k][Len(wire[k])]
  <2>1. /\ t \in Seq(Snapshots) /\ x = wire[k][1] /\ Len(wire[k]) \in Nat /\ Len(wire[k]) # 0
        /\ Len(t) = Len(wire[k]) - 1
    BY <1>0, <1>1, <1>3
  <2>2. CASE t = <<>>
    <3>1. Len(t) = 0
      BY <2>2
    <3>2. Len(wire[k]) = 1
      BY <2>1, <3>1
    <3> QED
      BY <2>1, <2>2, <3>2
  <2>3. CASE t # <<>>
    <3>1. Len(t) \in 1 .. Len(t)
      BY <2>1, <2>3
    <3>2. t[Len(t)] = wire[k][Len(t) + 1]
      BY <1>0, <1>1, <1>3, <2>1, <3>1
    <3>3. Len(t) + 1 = Len(wire[k])
      BY <2>1
    <3> QED
      BY <2>3, <3>2, <3>3
  <2> QED
    BY <2>2, <2>3
<1>6. Tip(c)'
  BY <1>0, <1>1, <1>4, <1>5 DEF TipInv, Tip
<1>7. ASSUME NEW d \in Clients \ {c} PROVE Tip(d)'
  <2>1. conn[d] # k /\ (conn[d] # Nil => conn[d] \in Conns)
    BY <1>0, <1>1, <1>2 DEF TipInv, ClientType
  <2> QED
    BY <1>1, <1>4, <2>1 DEF TipInv, Tip
<1> QED
  BY <1>1, <1>6, <1>7 DEF TipInv

LEMMA DropTip ==
  ASSUME HonestInv, TipInv, NEW c \in Clients, Drop(c)
  PROVE  TipInv'
<1>0. PICK k : k = conn[c]
  OBVIOUS
<1>1. /\ k # Nil /\ conn' = [conn EXCEPT ![c] = Nil]
      /\ wire' = [wire EXCEPT ![k] = <<>>] /\ UNCHANGED <<view, best>>
  BY <1>0, Zenon DEF Drop, streamVars
<1>2. StreamType /\ ClientType
  BY DEF HonestInv, TypeOK
<1>3. /\ conn'[c] = Nil /\ \A d \in Clients \ {c} : conn'[d] = conn[d]
      /\ \A j \in Conns \ {k} : wire'[j] = wire[j]
  BY <1>1, <1>2 DEF StreamType, ClientType
<1>4. ASSUME NEW d \in Clients \ {c} PROVE Tip(d)'
  <2>1. conn[d] # k /\ (conn[d] # Nil => conn[d] \in Conns)
    BY <1>0, <1>1, <1>2 DEF TipInv, ClientType
  <2> QED
    BY <1>1, <1>3, <2>1 DEF TipInv, Tip
<1>5. Tip(c)'
  BY <1>3 DEF Tip
<1> QED
  BY <1>3, <1>4, <1>5 DEF TipInv

\* A new connection is nobody else's, and nothing has been written to it.
LEMMA ConnectTip ==
  ASSUME HonestInv, WiringInv, TipInv, NEW c \in Clients, Connect(c)
  PROVE  TipInv'
<1>0. PICK k : k = used + 1
  OBVIOUS
<1>1. k \in Conns /\ conn' = [conn EXCEPT ![c] = k] /\ UNCHANGED <<view, best, wire>>
  BY <1>0, Zenon DEF Connect
<1>2. ClientType /\ used \in Nat
  BY PropagationAssumption DEF HonestInv, TypeOK, ClientType
<1>3. conn'[c] = k /\ \A d \in Clients \ {c} : conn'[d] = conn[d]
  BY <1>1, <1>2 DEF ClientType
<1>4. pc[k] = "idle" /\ best[k] = Nil
  <2>1. k > used
    BY <1>0, <1>2
  <2> QED
    BY <1>1, <2>1 DEF WiringInv, StreamInv
<1>5. \A d \in Clients : conn[d] # k
  <2>1. k # Nil
    BY <1>1, NilAssumption
  <2> QED
    BY <1>4, <2>1 DEF WiringInv, ClientInv
<1>6. Tip(c)'
  BY <1>1, <1>3, <1>4 DEF Tip
<1>7. \A d \in Clients \ {c} : Tip(d)'
  BY <1>1, <1>3 DEF Tip, TipInv
<1> QED
  BY <1>3, <1>5, <1>6, <1>7 DEF TipInv

\* Nothing else writes to a stream.
LEMMA TipFrame ==
  ASSUME TipInv,
         \/ \E w \in Writers : NewRequest(w) \/ WriterStep(w)
         \/ \E k \in Conns : Subscribe(k) \/ Replay(k) \/ Build(k) \/ Disconnected(k)
         \/ UNCHANGED vars
  PROVE  TipInv'
<1> DEFINE Same == UNCHANGED <<conn, wire, best, view>>
<1> USE DEF clientVars, streamVars
<1>1. ASSUME NEW q, Build(q) PROVE Same
  BY <1>1 DEF Build, BuildGetEnvVersion, BuildListFlags, BuildListSegments,
     BuildGetFlagConfig, BuildStep
<1>2. ASSUME NEW w \in Writers, NewRequest(w) PROVE Same
  BY <1>2 DEF NewRequest, PutFlagConfig, ChangeFlags, ChangeSegments, Request
<1>3. ASSUME NEW w \in Writers, WriterStep(w) PROVE Same
  <2>1. ASSUME NEW e \in EnvKeys, IncrementEnvVersion(w, e) PROVE Same
    BY <2>1 DEF IncrementEnvVersion
  <2>2. CASE Publish(w)
    BY <2>2 DEF Publish
  <2>3. ASSUME NEW k \in Conns, Send(w, k) \/ UnsubscribeSlow(w, k) PROVE Same
    BY <2>3 DEF Send, UnsubscribeSlow
  <2>4. CASE Respond(w)
    BY <2>4 DEF Respond
  <2> QED
    BY <1>1, <1>3, <2>1, <2>2, <2>3, <2>4 DEF WriterStep
<1>4. ASSUME NEW k \in Conns, Subscribe(k) \/ Disconnected(k) PROVE Same
  BY <1>4 DEF Subscribe, Disconnected
<1>5. ASSUME NEW k \in Conns, Replay(k) PROVE Same
  BY <1>5, Zenon DEF Replay
<1>6. ASSUME UNCHANGED vars PROVE Same
  BY <1>6 DEF vars
<1>7. Same
  BY <1>1, <1>2, <1>3, <1>4, <1>5, <1>6
<1> QED
  BY <1>7, TipKept

LEMMA TipNext ==
  ASSUME HonestInv, WiringInv, OrderInv, TipInv, [Next]_vars
  PROVE  TipInv'
<1>1. ASSUME NEW k \in Conns, StreamStep(k) PROVE TipInv'
  BY <1>1, TipFrame, WriteReplayedTip, SendInitialTip, DeliverTip DEF StreamStep
<1>2. ASSUME NEW c \in Clients, ClientStep(c) \/ Drop(c) PROVE TipInv'
  BY <1>2, ConnectTip, HandleEventTip, DropTip DEF ClientStep
<1> QED
  BY <1>1, <1>2, TipFrame DEF Next

LEMMA TipInit == Init => TipInv
BY DEF Init, TipInv, Tip

LEMMA OrderInvariant ==
  ASSUME NoSharedEnvKeys, OneWriter
  PROVE  Spec => [](OrderInv /\ TipInv)
<1>1. Init => OrderInv /\ TipInv
  BY OrderInit, TipInit
<1>2. HonestInv /\ WiringInv /\ OrderInv /\ TipInv /\ [Next]_vars => (OrderInv /\ TipInv)'
  BY OrderNext, TipNext
<1> QED
  BY <1>1, <1>2, WiringInvariant, PTL DEF Spec

-----------------------------------------------------------------------------
(***************************************************************************)
(* What the clients hold.                                                   *)
(***************************************************************************)
LEMMA ScopedNext ==
  ASSUME NoSharedEnvKeys, HonestInv, WiringInv, ScopedDelivery, [Next]_vars
  PROVE  ScopedDelivery'
<1>1. ASSUME NEW c \in Clients, HandleEvent(c) PROVE ScopedDelivery'
  <2>1. Feed!Give(c)
    BY <1>1, EventIsGiven
  <2>2. view' = [view EXCEPT ![c] = view'[c]] /\ ScopeOf(view'[c]) = ClientScope[c]
    BY <2>1 DEF Feed!Give, Feed!Honest, ScopeOf
  <2>3. \A d \in Clients \ {c} : view'[d] = view[d]
    BY <2>2 DEF HonestInv, TypeOK, ClientType
  <2> QED
    BY <2>2, <2>3 DEF ScopedDelivery
<1>2. CASE view' = view
  BY <1>2 DEF ScopedDelivery
<1> QED
  BY <1>1, <1>2, ViewSteps

\* ScopedDeliveryAlways: a client evaluates with snapshots of the project and environment
\* of its SDK key only (sdkStream, Publish, handleEvent), if no two projects use the same
\* environment key.  The hub knows an environment by its key alone, and the run
\* shared_env_key shows what happens without the hypothesis.
THEOREM ScopedDeliveryAlways ==
  ASSUME NoSharedEnvKeys
  PROVE  Spec => []ScopedDelivery
<1>1. Init => ScopedDelivery
  BY DEF Init, ScopedDelivery
<1>2. HonestInv /\ WiringInv /\ ScopedDelivery /\ [Next]_vars => ScopedDelivery'
  BY ScopedNext
<1> QED
  BY <1>1, <1>2, WiringInvariant, PTL DEF Spec

LEMMA AtLeastAntisym ==
  ASSUME NEW a \in Contents, NEW b \in Contents, AtLeast(a, b), AtLeast(b, a)
  PROVE  a = b
BY DEF Contents, AtLeast

\* With one handler, everything that was written is read, the last of it is the newest,
\* the newest covers every version, and every write has its version.
LEMMA QuietIsCurrent ==
  ASSUME HonestInv, WiringInv, DeliveryInv, OrderInv, TipInv, SettledInv, ScopedDelivery,
         NEW c \in Clients, Quiet(c), InStep(conn[c])
  PROVE  Current(c)
<1>0. PICK k, s, x : k = conn[c] /\ s = ClientScope[c] /\ x = view[c]
  OBVIOUS
<1>1. /\ \A w \in Writers : pc[w] = "idle"
      /\ k # Nil /\ pc[k] = "loop" /\ ch[k] = <<>> /\ wire[k] = <<>>
      /\ k \in subs[scope[k][2]] /\ exact[k]
  BY <1>0 DEF Quiet, InStep
<1>2. k \in Conns /\ scope[k] = s /\ s \in Scopes
  BY <1>0, <1>1, PropagationAssumption DEF HonestInv, TypeOK, ClientType, WiringInv, ClientInv
<1>3. best[k] # Nil /\ x = best[k]
  BY <1>0, <1>1, <1>2 DEF DeliveryInv, SentInv, TipInv, Tip
<1>4. /\ x \in Snapshots /\ x.version \in Nat /\ ContentOf(x) \in Contents
      /\ ScopeOf(x) = s /\ Sound(x) /\ x # Nil
  <2>1. x # Nil /\ x \in SoundSnapshots
    BY <1>0, <1>3 DEF HonestInv, TransitInv
  <2> QED
    BY <1>0, <2>1, ContentOfType DEF SoundSnapshots, ScopedDelivery
<1>5. /\ AtLeast(Content(s), ContentOf(x)) /\ Content(s) \in Contents
      /\ \A v \in 1 .. x.version : AtLeast(ContentOf(x), committed[s][v])
      /\ versions[s] \in Nat
  BY <1>2, <1>4, ContentType DEF Sound, HonestInv, TypeOK, StoreType
<1>6. Content(s) = Recorded(s)
  BY <1>1, <1>2 DEF SettledInv
<1>7. AtLeast(ContentOf(x), Content(s))
  <2>1. CASE versions[s] = 0
    <3>1. Content(s) = NoContent
      BY <1>6, <2>1 DEF Recorded
    <3> QED
      BY <1>4, <3>1 DEF AtLeast, Contents, NoContent
  <2>2. CASE versions[s] # 0
    <3>1. PICK v : v = versions[s]
      OBVIOUS
    <3>2. v \in 1 .. versions[s] /\ v \in Nat
      BY <1>5, <2>2, <3>1
    <3>3. Covered(k, v)
      BY <1>1, <1>2, <3>2 DEF DeliveryInv, CoverInv, Listening
    <3>4. \A w \in Writers : ~ InFlight(w, k, v)
      BY <1>1, NothingInFlight DEF WiringInv
    <3>5. v <= x.version
      BY <1>1, <1>3, <3>3, <3>4 DEF Covered
    <3>6. v \in 1 .. x.version
      BY <1>4, <3>2, <3>5
    <3> QED
      BY <1>5, <1>6, <2>2, <3>1, <3>6 DEF Recorded
  <2> QED
    BY <2>1, <2>2
<1>8. ContentOf(x) = Content(s)
  BY <1>4, <1>5, <1>7, AtLeastAntisym
<1> QED
  BY <1>0, <1>4, <1>8 DEF Current

\* SerialChangesReachSDKAlways: when management requests come one at a time, a client whose
\* stream is in step is left with exactly what the store holds as soon as everything has
\* been delivered (management handlers, Publish, sdkStream, handleEvent), for any number of
\* streams, clients, environments and projects that do not share environment keys.
THEOREM SerialChangesReachSDKAlways ==
  ASSUME NoSharedEnvKeys
  PROVE  Spec => []SerialChangesReachSDK
<1>1. CASE Cardinality(Writers) = 1
  <2>1. OneWriter
    <3>1. PICK w : Writers = {w}
      BY <1>1, WritersAssumption, FS_Singleton
    <3> QED
      BY <3>1 DEF OneWriter
  <2>2. HonestInv /\ WiringInv /\ DeliveryInv /\ OrderInv /\ TipInv /\ SettledInv
          /\ ScopedDelivery => SerialChangesReachSDK
    BY QuietIsCurrent DEF SerialChangesReachSDK, ChangeReachesSDK
  <2>3. Init => DeliveryInv
    BY DeliveryInit
  <2>4. HonestInv /\ WiringInv /\ DeliveryInv /\ [Next]_vars => DeliveryInv'
    BY DeliveryNext
  <2>5. Spec => [](OrderInv /\ TipInv)
    BY <2>1, OrderInvariant
  <2>6. Spec => []ScopedDelivery
    BY ScopedDeliveryAlways
  <2> QED
    BY <2>2, <2>3, <2>4, <2>5, <2>6, WiringInvariant, SettledInvariant, PTL DEF Spec
<1>2. CASE Cardinality(Writers) # 1
  <2>1. SerialChangesReachSDK
    BY <1>2 DEF SerialChangesReachSDK
  <2> QED
    BY <2>1, PTL
<1> QED
  BY <1>1, <1>2
=============================================================================
