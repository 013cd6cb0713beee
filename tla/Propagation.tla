---------------------------- MODULE Propagation ----------------------------
(***************************************************************************)
(* How a change of a flag reaches the SDKs: the management handlers of      *)
(* internal/api/server.go, the snapshot builder (internal/snapshot), the    *)
(* SSE hub and its replay rings (internal/stream), the stream handler       *)
(* sdkStream, and the streaming client of sdk/go/pennant.                   *)
(*                                                                         *)
(* Nothing here is atomic across two calls.  A management handler writes    *)
(* the store, increments the version of an environment, builds a snapshot   *)
(* with one store call per part, publishes it under the hub's lock, and     *)
(* sends it to each subscriber, every one of these in a step of its own.    *)
(* A stream handler subscribes, replays or builds, and only then reads      *)
(* the version that it will compare messages with.  Go's net/http runs      *)
(* every handler on a goroutine of its own, so all of them interleave.      *)
(*                                                                         *)
(* Data is abstracted to revisions: each write of the flags, the segments   *)
(* or an environment's configs makes the next revision of that part.  Two   *)
(* snapshots have the same content exactly when they hold the same          *)
(* revisions.  The set of projects and environments is fixed, so the store  *)
(* calls of this path do not fail.                                          *)
(***************************************************************************)
EXTENDS EventRing, SnapshotContent, FiniteSets

CONSTANTS
  Projects,      \* project keys
  EnvKeys,       \* environment keys
  Scopes,        \* the <<project, environment>> pairs that exist
  Writers,       \* management requests that may be in progress at once
  Clients,       \* SDK instances
  ClientScope,   \* the <<project, environment>> of each client's SDK key
  ChanCap,       \* capacity of Subscriber.Ch (32 in hub.go)
  Kinds,         \* bound on what requests write: "config", "flags", "segments"
  MaxWrites,     \* bound on the number of management requests
  MaxConns,      \* bound on the number of stream connections
  Nil            \* a nil pointer

Conns == 1 .. MaxConns
Procs == Writers \cup Conns

\* ListEnvironments.
EnvsOf(p) == {e \in EnvKeys : <<p, e>> \in Scopes}

ASSUME PropagationAssumption ==
  /\ Scopes \subseteq Projects \X EnvKeys
  /\ ClientScope \in [Clients -> Scopes]
  /\ ChanCap \in Nat \ {0}
  /\ MaxWrites \in Nat
  /\ MaxConns \in Nat
  /\ Writers \cap Conns = {}

\* A server has finitely many requests in progress.
ASSUME WritersAssumption == IsFiniteSet(Writers)

VARIABLES
  flags,        \* project -> revision of its flags             (store)
  segments,     \* project -> revision of its segments          (store)
  configs,      \* scope -> revision of its flag configs        (store)
  versions,     \* scope -> version                             (store)
  rings,        \* environment key -> replay ring, or Nil       (hub)
  subs,         \* environment key -> subscribed connections    (hub)
  active,       \* the ActiveConnections metric                 (hub)
  ch,           \* connection -> the queue Subscriber.Ch        (hub)
  pc,           \* handler -> where it is
  scope,        \* handler -> the <<project, environment>> it works on
  draft,        \* handler -> the snapshot that Build returns
  todo,         \* writer -> environments still to be published
  msgVersion,   \* writer -> newVersion
  targets,      \* writer -> subscribers Publish has still to send to
  slow,         \* writer -> subscribers whose queue was full
  from,         \* connection -> fromVersion (Last-Event-ID)
  sent,         \* connection -> sentVersion
  pending,      \* connection -> the messages that are being replayed
  wire,         \* connection -> events written and not yet read by the client
  up,           \* connection -> the client has not gone away
  conn,         \* client -> its connection, or Nil
  view,         \* client -> the snapshot it evaluates with, or Nil
  used,         \* connections made so far (subSeq)
  writes,       \* requests made so far
  committed,    \* history: scope -> the content at each version
  published,    \* history: scope -> the highest version given to Publish
  exact,        \* history: connection -> its initial events cover the version
                \*          it skips by and everything published before them
  best          \* history: connection -> the highest-labelled snapshot written

storeVars  == <<flags, segments, configs, versions, committed>>
hubVars    == <<rings, subs, active, published>>
writerVars == <<todo, msgVersion, targets, slow>>
streamVars == <<from, sent, pending, exact, best>>
clientVars == <<conn, view, used>>
vars == <<storeVars, hubVars, ch, pc, scope, draft, writerVars, streamVars,
          wire, up, clientVars, writes>>

-----------------------------------------------------------------------------
\* What the store holds for an environment, part by part.
Content(s) ==
  [flags |-> flags[s[1]], segments |-> segments[s[1]], config |-> configs[s]]

Message(version, snap) == [version |-> version, snap |-> snap]

Newest(a, b) == IF a = Nil \/ b.version >= a.version THEN b ELSE a

Init ==
  /\ flags = [p \in Projects |-> 0]
  /\ segments = [p \in Projects |-> 0]
  /\ configs = [s \in Scopes |-> 0]
  /\ versions = [s \in Scopes |-> 0]
  /\ committed = [s \in Scopes |-> <<>>]
  /\ published = [s \in Scopes |-> 0]
  /\ rings = [e \in EnvKeys |-> Nil]
  /\ subs = [e \in EnvKeys |-> {}]
  /\ active = 0
  /\ ch = [k \in Conns |-> <<>>]
  /\ pc = [q \in Procs |-> "idle"]
  /\ scope = [q \in Procs |-> Nil]
  /\ draft = [q \in Procs |-> Nil]
  /\ todo = [w \in Writers |-> {}]
  /\ msgVersion = [w \in Writers |-> 0]
  /\ targets = [w \in Writers |-> {}]
  /\ slow = [w \in Writers |-> {}]
  /\ from = [k \in Conns |-> 0]
  /\ sent = [k \in Conns |-> 0]
  /\ pending = [k \in Conns |-> <<>>]
  /\ exact = [k \in Conns |-> FALSE]
  /\ best = [k \in Conns |-> Nil]
  /\ wire = [k \in Conns |-> <<>>]
  /\ up = [k \in Conns |-> FALSE]
  /\ conn = [c \in Clients |-> Nil]
  /\ view = [c \in Clients |-> Nil]
  /\ used = 0
  /\ writes = 0

-----------------------------------------------------------------------------
(***************************************************************************)
(* Management handlers, up to the end of the store write.                   *)
(***************************************************************************)

\* The part common to all of them: a request arrives, its write succeeds and
\* the environments in envs remain to be published.  A request that is refused
\* (bad body, invalid flag, conflict, not found) changes nothing.
Request(w, p, envs) ==
  /\ pc[w] = "idle"
  /\ writes < MaxWrites
  /\ writes' = writes + 1
  /\ pc' = [pc EXCEPT ![w] = "publishing"]
  /\ scope' = [scope EXCEPT ![w] = <<p, Nil>>]
  /\ todo' = [todo EXCEPT ![w] = envs]
  /\ UNCHANGED <<versions, committed, hubVars, ch, draft, msgVersion, targets,
                 slow, streamVars, wire, up, clientVars>>

\* putFlagConfig: UpsertFlagConfig, for one environment.
PutFlagConfig(w, p, e) ==
  /\ "config" \in Kinds
  /\ <<p, e>> \in Scopes
  /\ Request(w, p, {e})
  /\ configs' = [configs EXCEPT ![<<p, e>>] = @ + 1]
  /\ UNCHANGED <<flags, segments>>

\* createFlag, updateFlag, deleteFlag: they change what ListFlags returns and
\* then publish every environment of the project.
ChangeFlags(w, p) ==
  /\ "flags" \in Kinds
  /\ Request(w, p, EnvsOf(p))
  /\ flags' = [flags EXCEPT ![p] = @ + 1]
  /\ UNCHANGED <<segments, configs>>

\* createSegment, updateSegment, deleteSegment.
ChangeSegments(w, p) ==
  /\ "segments" \in Kinds
  /\ Request(w, p, EnvsOf(p))
  /\ segments' = [segments EXCEPT ![p] = @ + 1]
  /\ UNCHANGED <<flags, configs>>

-----------------------------------------------------------------------------
(***************************************************************************)
(* publishFlagChange, and the same calls at the end of putFlagConfig: for    *)
(* each environment IncrementEnvVersion, Build, Publish.                    *)
(***************************************************************************)

\* Publish has returned: nothing is left to send and nobody to unsubscribe.
PublishReturned(w) == targets[w] = {} /\ slow[w] = {}

\* IncrementEnvVersion, of the next environment.
IncrementEnvVersion(w, e) ==
  LET s == <<scope[w][1], e>>
  IN  /\ pc[w] = "publishing"
      /\ PublishReturned(w)
      /\ e \in todo[w]
      /\ todo' = [todo EXCEPT ![w] = @ \ {e}]
      /\ scope' = [scope EXCEPT ![w] = s]
      /\ versions' = [versions EXCEPT ![s] = @ + 1]
      /\ committed' = [committed EXCEPT ![s] = Append(@, Content(s))]
      /\ msgVersion' = [msgVersion EXCEPT ![w] = versions[s] + 1]
      /\ pc' = [pc EXCEPT ![w] = "build"]
      /\ UNCHANGED <<flags, segments, configs, hubVars, ch, draft, targets, slow,
                     streamVars, wire, up, clientVars, writes>>

\* The handler has published everything and answers the request.
Respond(w) ==
  /\ pc[w] = "publishing"
  /\ PublishReturned(w)
  /\ todo[w] = {}
  /\ pc' = [pc EXCEPT ![w] = "idle"]
  /\ scope' = [scope EXCEPT ![w] = Nil]
  /\ draft' = [draft EXCEPT ![w] = Nil]
  /\ msgVersion' = [msgVersion EXCEPT ![w] = 0]
  /\ UNCHANGED <<storeVars, hubVars, ch, todo, targets, slow, streamVars,
                 wire, up, clientVars, writes>>

-----------------------------------------------------------------------------
(***************************************************************************)
(* Builder.Build, run by a management handler or by a stream handler: one   *)
(* store call per step, the version first.                                  *)
(***************************************************************************)
BuildStep(q, here, next, snap) ==
  /\ pc[q] = here
  /\ pc' = [pc EXCEPT ![q] = next]
  /\ draft' = [draft EXCEPT ![q] = snap]
  /\ UNCHANGED <<storeVars, hubVars, ch, scope, writerVars, streamVars, wire,
                 up, clientVars, writes>>

NewSnapshot(s, version) ==
  [project |-> s[1], env |-> s[2], version |-> version,
   flags |-> 0, segments |-> 0, config |-> 0]

BuildGetEnvVersion(q) ==
  BuildStep(q, "build", "flags", NewSnapshot(scope[q], versions[scope[q]]))

BuildListFlags(q) ==
  BuildStep(q, "flags", "segments",
            [draft[q] EXCEPT !.flags = flags[scope[q][1]]])

BuildListSegments(q) ==
  BuildStep(q, "segments", "config",
            [draft[q] EXCEPT !.segments = segments[scope[q][1]]])

\* Mutant: Build stamps the version once it has read the data.
BuildGetFlagConfig_VersionLast(q) ==
  BuildStep(q, "config", "built",
            [draft[q] EXCEPT !.config = configs[scope[q]],
                             !.version = versions[scope[q]]])

BuildGetFlagConfig(q) ==
  BuildStep(q, "config", "built", [draft[q] EXCEPT !.config = configs[scope[q]]])

-----------------------------------------------------------------------------
(***************************************************************************)
(* Hub.Publish and Hub.Unsubscribe.                                         *)
(***************************************************************************)

\* Under RLock: append to the ring, if there is one, and copy the subscribers.
Publish(w) ==
  LET e   == scope[w][2]
      msg == Message(msgVersion[w], draft[w])
  IN  /\ pc[w] = "built"
      /\ rings' = [rings EXCEPT ![e] = IF @ = Nil THEN Nil ELSE RingAppend(@, msg)]
      /\ published' = [published EXCEPT ![scope[w]] =
                         IF msg.version > @ THEN msg.version ELSE @]
      /\ targets' = [targets EXCEPT ![w] = subs[e]]
      /\ pc' = [pc EXCEPT ![w] = "publishing"]
      /\ UNCHANGED <<storeVars, subs, active, ch, scope, draft, todo, msgVersion,
                     slow, streamVars, wire, up, clientVars, writes>>

\* Mutant: a send that waits for room in the queue.
Send_Blocking(w, k) ==
  /\ pc[w] = "publishing"
  /\ k \in targets[w]
  /\ Len(ch[k]) < ChanCap
  /\ targets' = [targets EXCEPT ![w] = @ \ {k}]
  /\ ch' = [ch EXCEPT ![k] = Append(@, Message(msgVersion[w], draft[w]))]
  /\ UNCHANGED <<storeVars, hubVars, pc, scope, draft, todo, msgVersion, slow,
                 streamVars, wire, up, clientVars, writes>>

\* Mutant: a full queue drops the message and the subscriber stays.
Send_DropSilently(w, k) ==
  /\ pc[w] = "publishing"
  /\ k \in targets[w]
  /\ targets' = [targets EXCEPT ![w] = @ \ {k}]
  /\ ch' = [ch EXCEPT ![k] = IF Len(@) < ChanCap
                             THEN Append(@, Message(msgVersion[w], draft[w]))
                             ELSE @]
  /\ UNCHANGED <<storeVars, hubVars, pc, scope, draft, todo, msgVersion, slow,
                 streamVars, wire, up, clientVars, writes>>

\* The non-blocking send to one subscriber.
Send(w, k) ==
  /\ pc[w] = "publishing"
  /\ k \in targets[w]
  /\ targets' = [targets EXCEPT ![w] = @ \ {k}]
  /\ \/ /\ Len(ch[k]) < ChanCap
        /\ ch' = [ch EXCEPT ![k] = Append(@, Message(msgVersion[w], draft[w]))]
        /\ slow' = slow
     \/ /\ Len(ch[k]) >= ChanCap
        /\ slow' = [slow EXCEPT ![w] = @ \cup {k}]
        /\ ch' = ch
  /\ UNCHANGED <<storeVars, hubVars, pc, scope, draft, todo, msgVersion,
                 streamVars, wire, up, clientVars, writes>>

\* Mutant: the metric is decremented for a subscriber that is already gone.
Unsubscribe_Unchecked(e, k) ==
  /\ subs' = [subs EXCEPT ![e] = @ \ {k}]
  /\ active' = active - 1
  /\ UNCHANGED <<rings, published>>

\* Unsubscribe removes a subscriber that is still there and closes nothing.
Unsubscribe(e, k) ==
  /\ subs' = [subs EXCEPT ![e] = @ \ {k}]
  /\ active' = IF k \in subs[e] THEN active - 1 ELSE active
  /\ UNCHANGED <<rings, published>>

\* The second loop of Publish.
UnsubscribeSlow(w, k) ==
  /\ pc[w] = "publishing"
  /\ targets[w] = {}
  /\ k \in slow[w]
  /\ slow' = [slow EXCEPT ![w] = @ \ {k}]
  /\ Unsubscribe(scope[w][2], k)
  /\ UNCHANGED <<storeVars, ch, pc, scope, draft, todo, msgVersion, targets,
                 streamVars, wire, up, clientVars, writes>>

-----------------------------------------------------------------------------
(***************************************************************************)
(* sdkStream, on connection k.                                              *)
(***************************************************************************)

\* Hub.Subscribe, with ensureEnv.
Subscribe(k) ==
  LET e == scope[k][2]
  IN  /\ pc[k] = "subscribe"
      /\ subs' = [subs EXCEPT ![e] = @ \cup {k}]
      /\ rings' = [rings EXCEPT ![e] = IF @ = Nil THEN NewEventRing ELSE @]
      /\ active' = active + 1
      /\ pc' = [pc EXCEPT ![k] = "replay"]
      /\ UNCHANGED <<storeVars, published, ch, scope, draft, writerVars,
                     streamVars, wire, up, clientVars, writes>>

\* Hub.Replay and its two outcomes: a copy of the ring to be written, when it
\* holds anything newer than fromVersion, or a snapshot to be built.
Replay(k) ==
  LET ring     == rings[scope[k][2]]
      messages == Walk(ring)
      newer    == {i \in 1 .. ring.count : messages[i].version > from[k]}
      replays  == Since(ring, from[k]).ok /\ newer # {}
  IN  /\ pc[k] = "replay"
      /\ pc' = [pc EXCEPT ![k] = IF replays THEN "replaying" ELSE "build"]
      /\ pending' = [pending EXCEPT ![k] = IF replays THEN messages ELSE <<>>]
      /\ exact' = [exact EXCEPT ![k] =
                     /\ replays
                     /\ \E i \in newer :
                          messages[i].snap.version >= published[scope[k]]]
      /\ UNCHANGED <<storeVars, hubVars, ch, scope, draft, writerVars, from, sent,
                     best, wire, up, clientVars, writes>>

\* The loop over the messages of Since, which leaves out the ones that are not
\* newer than fromVersion.
WriteReplayed(k) ==
  LET msg == Head(pending[k])
  IN  /\ pc[k] = "replaying"
      /\ pending' = [pending EXCEPT ![k] = Tail(@)]
      /\ pc' = [pc EXCEPT ![k] = IF Len(pending[k]) = 1 THEN "loop" ELSE "replaying"]
      /\ \/ /\ msg.version <= from[k]
            /\ UNCHANGED <<wire, sent, best>>
         \/ /\ msg.version > from[k]
            /\ wire' = [wire EXCEPT ![k] = Append(@, msg.snap)]
            /\ sent' = [sent EXCEPT ![k] = msg.version]
            /\ best' = [best EXCEPT ![k] = Newest(@, msg.snap)]
      /\ UNCHANGED <<storeVars, hubVars, ch, scope, draft, writerVars, from, exact,
                     up, clientVars, writes>>

\* Mutant: the initial snapshot is labelled with the version read after Build.
SendInitial_Relabel(k) ==
  LET snap == [draft[k] EXCEPT !.version = versions[scope[k]]]
  IN  /\ pc[k] = "built"
      /\ sent' = [sent EXCEPT ![k] = snap.version]
      /\ wire' = [wire EXCEPT ![k] = Append(@, snap)]
      /\ best' = [best EXCEPT ![k] = snap]
      /\ exact' = [exact EXCEPT ![k] = TRUE]
      /\ draft' = [draft EXCEPT ![k] = Nil]
      /\ pc' = [pc EXCEPT ![k] = "loop"]
      /\ UNCHANGED <<storeVars, hubVars, ch, scope, writerVars, from, pending, up,
                     clientVars, writes>>

\* GetEnvVersion after Build: the version that later messages are compared
\* with is read after the data that is sent.
SendInitial(k) ==
  /\ pc[k] = "built"
  /\ sent' = [sent EXCEPT ![k] = versions[scope[k]]]
  /\ wire' = [wire EXCEPT ![k] = Append(@, draft[k])]
  /\ best' = [best EXCEPT ![k] = draft[k]]
  /\ exact' = [exact EXCEPT ![k] = (draft[k].version = versions[scope[k]])]
  /\ draft' = [draft EXCEPT ![k] = Nil]
  /\ pc' = [pc EXCEPT ![k] = "loop"]
  /\ UNCHANGED <<storeVars, hubVars, ch, scope, writerVars, from, pending, up,
                 clientVars, writes>>

\* What Deliver leaves alone.
DeliverFrame ==
  UNCHANGED <<storeVars, hubVars, pc, scope, draft, writerVars, from, sent,
              pending, exact, up, clientVars, writes>>

\* Mutant: the message that follows sentVersion is skipped as well.
Deliver_OffByOne(k) ==
  /\ pc[k] = "loop"
  /\ ch[k] # <<>>
  /\ ch' = [ch EXCEPT ![k] = Tail(@)]
  /\ \/ /\ Head(ch[k]).version <= sent[k] + 1
        /\ UNCHANGED <<wire, best>>
     \/ /\ Head(ch[k]).version > sent[k] + 1
        /\ wire' = [wire EXCEPT ![k] = Append(@, Head(ch[k]).snap)]
        /\ best' = [best EXCEPT ![k] = Newest(@, Head(ch[k]).snap)]
  /\ DeliverFrame

\* Mutant: the message is written, not its Data.
Deliver_WholeMessage(k) ==
  /\ pc[k] = "loop"
  /\ ch[k] # <<>>
  /\ ch' = [ch EXCEPT ![k] = Tail(@)]
  /\ wire' = [wire EXCEPT ![k] = Append(@, Head(ch[k]))]
  /\ best' = best
  /\ DeliverFrame

\* One message of the loop: skipped when its version is not above
\* sentVersion, which the loop never updates, written otherwise.
Deliver(k) ==
  /\ pc[k] = "loop"
  /\ ch[k] # <<>>
  /\ ch' = [ch EXCEPT ![k] = Tail(@)]
  /\ \/ /\ Head(ch[k]).version <= sent[k]
        /\ UNCHANGED <<wire, best>>
     \/ /\ Head(ch[k]).version > sent[k]
        /\ wire' = [wire EXCEPT ![k] = Append(@, Head(ch[k]).snap)]
        /\ best' = [best EXCEPT ![k] = Newest(@, Head(ch[k]).snap)]
  /\ DeliverFrame

\* ctx.Done, or a write that fails: the deferred Unsubscribe runs.
Disconnected(k) ==
  /\ pc[k] = "loop"
  /\ ~ up[k]
  /\ pc' = [pc EXCEPT ![k] = "closed"]
  /\ ch' = [ch EXCEPT ![k] = <<>>]
  /\ Unsubscribe(scope[k][2], k)
  /\ UNCHANGED <<storeVars, scope, draft, writerVars, streamVars, wire, up,
                 clientVars, writes>>

-----------------------------------------------------------------------------
(***************************************************************************)
(* The client of sdk/go/pennant, and the connection under it.               *)
(***************************************************************************)

\* connect: Last-Event-ID is the version of the snapshot in hand.
Connect(c) ==
  LET k == used + 1
  IN  /\ conn[c] = Nil
      /\ k \in Conns
      /\ used' = k
      /\ conn' = [conn EXCEPT ![c] = k]
      /\ up' = [up EXCEPT ![k] = TRUE]
      /\ scope' = [scope EXCEPT ![k] = ClientScope[c]]
      /\ from' = [from EXCEPT ![k] = IF view[c] = Nil THEN 0 ELSE view[c].version]
      /\ pc' = [pc EXCEPT ![k] = "subscribe"]
      /\ UNCHANGED <<storeVars, hubVars, ch, draft, writerVars, sent, pending,
                     exact, best, wire, view, writes>>

\* handleEvent, event put: the snapshot is stored whatever its version.
HandleEvent(c) ==
  LET k == conn[c]
  IN  /\ k # Nil
      /\ wire[k] # <<>>
      /\ view' = [view EXCEPT ![c] = Head(wire[k])]
      /\ wire' = [wire EXCEPT ![k] = Tail(@)]
      /\ UNCHANGED <<storeVars, hubVars, ch, pc, scope, draft, writerVars,
                     streamVars, up, conn, used, writes>>

\* The network drops the connection; what was not read is lost.
Drop(c) ==
  LET k == conn[c]
  IN  /\ k # Nil
      /\ up' = [up EXCEPT ![k] = FALSE]
      /\ conn' = [conn EXCEPT ![c] = Nil]
      /\ wire' = [wire EXCEPT ![k] = <<>>]
      /\ UNCHANGED <<storeVars, hubVars, ch, pc, scope, draft, writerVars,
                     streamVars, view, used, writes>>

-----------------------------------------------------------------------------
Build(q) ==
  \/ BuildGetEnvVersion(q)
  \/ BuildListFlags(q)
  \/ BuildListSegments(q)
  \/ BuildGetFlagConfig(q)

\* The steps of a management handler once its request has been accepted.
WriterStep(w) ==
  \/ \E e \in EnvKeys : IncrementEnvVersion(w, e)
  \/ Build(w)
  \/ Publish(w)
  \/ \E k \in Conns : Send(w, k)
  \/ \E k \in Conns : UnsubscribeSlow(w, k)
  \/ Respond(w)

NewRequest(w) ==
  \E p \in Projects :
    \/ \E e \in EnvKeys : PutFlagConfig(w, p, e)
    \/ ChangeFlags(w, p)
    \/ ChangeSegments(w, p)

StreamStep(k) ==
  \/ Subscribe(k)
  \/ Replay(k)
  \/ WriteReplayed(k)
  \/ Build(k)
  \/ SendInitial(k)
  \/ Deliver(k)
  \/ Disconnected(k)

ClientStep(c) == Connect(c) \/ HandleEvent(c)

Next ==
  \/ \E w \in Writers : NewRequest(w) \/ WriterStep(w)
  \/ \E k \in Conns : StreamStep(k)
  \/ \E c \in Clients : ClientStep(c) \/ Drop(c)

Spec == Init /\ [][Next]_vars

\* The scheduler runs every management handler that can run.  Nothing is
\* assumed of the streams or of the clients.
WriterFairSpec == Spec /\ \A w \in Writers : WF_vars(WriterStep(w))

\* Every stream handler that can run does, and a client keeps reading and
\* reconnecting (the endless loop of streamLoop).  Connections need never drop.
StreamFairness ==
  /\ \A k \in Conns : WF_vars(StreamStep(k))
  /\ \A c \in Clients : WF_vars(ClientStep(c))

FairSpec == WriterFairSpec /\ StreamFairness

-----------------------------------------------------------------------------
Snapshots ==
  [project : Projects, env : EnvKeys, version : Nat,
   flags : Nat, segments : Nat, config : Nat]
Messages  == [version : Nat, snap : Snapshots]
Rings     ==
  [buf    : [0 .. RingCap - 1 -> Messages \cup {EmptySlot}],
   head   : 0 .. RingCap - 1,
   count  : 0 .. RingCap,
   minVer : Nat,
   maxVer : Nat]
Locations == {"idle", "publishing", "build", "flags", "segments", "config",
              "built", "subscribe", "replay", "replaying", "loop", "closed"}

\* A nil pointer is not a pointer to anything.
ASSUME NilAssumption ==
  /\ Nil \notin Conns
  /\ Nil \notin Rings
  /\ Nil \notin Snapshots

StoreType ==
  /\ flags \in [Projects -> Nat]
  /\ segments \in [Projects -> Nat]
  /\ configs \in [Scopes -> Nat]
  /\ versions \in [Scopes -> Nat]
  /\ committed \in [Scopes -> Seq(Contents)]

HubType ==
  /\ rings \in [EnvKeys -> Rings \cup {Nil}]
  /\ subs \in [EnvKeys -> SUBSET Conns]
  /\ active \in Int
  /\ published \in [Scopes -> Nat]
  /\ ch \in [Conns -> Seq(Messages)]

\* A request has a project before it has an environment.
HandlerType ==
  /\ pc \in [Procs -> Locations]
  /\ scope \in [Procs -> (Projects \X (EnvKeys \cup {Nil})) \cup {Nil}]
  /\ draft \in [Procs -> Snapshots \cup {Nil}]

WriterType ==
  /\ todo \in [Writers -> SUBSET EnvKeys]
  /\ msgVersion \in [Writers -> Nat]
  /\ targets \in [Writers -> SUBSET Conns]
  /\ slow \in [Writers -> SUBSET Conns]
  /\ writes \in 0 .. MaxWrites

StreamType ==
  /\ from \in [Conns -> Nat]
  /\ sent \in [Conns -> Nat]
  /\ pending \in [Conns -> Seq(Messages)]
  /\ exact \in [Conns -> BOOLEAN]
  /\ best \in [Conns -> Snapshots \cup {Nil}]
  /\ wire \in [Conns -> Seq(Snapshots)]
  /\ up \in [Conns -> BOOLEAN]

ClientType ==
  /\ conn \in [Clients -> Conns \cup {Nil}]
  /\ view \in [Clients -> Snapshots \cup {Nil}]
  /\ used \in 0 .. MaxConns

\* TypeOK: every variable has the shape of the Go state it stands for; what is
\* queued is a message, what is written to a stream or stored by a client is a
\* snapshot (Message.Data, not the Message), and counters stay in their bounds.
TypeOK ==
  /\ StoreType
  /\ HubType
  /\ HandlerType
  /\ WriterType
  /\ StreamType
  /\ ClientType

-----------------------------------------------------------------------------
ScopeOf(snap) == <<snap.project, snap.env>>

\* A snapshot labelled v holds every write that was finished when the version
\* became v, or any earlier one, and nothing that the store has not held.
Sound(snap) ==
  LET s == ScopeOf(snap)
  IN  /\ s \in Scopes
      /\ snap.version <= versions[s]
      /\ AtLeast(Content(s), ContentOf(snap))
      /\ \A v \in 1 .. snap.version : AtLeast(ContentOf(snap), committed[s][v])

\* LabelsAreHonest: whatever an SDK evaluates with contains every change that
\* its version number promises, however Build interleaves with management
\* requests.  It is why Last-Event-ID may be the snapshot's version: Build
\* reads the version before the data and handlers increment it after writing.
LabelsAreHonest == \A c \in Clients : view[c] # Nil => Sound(view[c])

\* What the service promises its SDKs, read off the state of the code.
Feed == INSTANCE SnapshotFeed
          WITH content <- [s \in Scopes |-> Content(s)], history <- committed

\* ImplementsFeed: everything the handlers, the hub and the clients do together
\* is a step of SnapshotFeed or leaves it unchanged, as long as no two projects
\* use the same environment key.
ImplementsFeed == Feed!Spec

\* SubscribersCounted: ActiveConnections is the number of subscribers, and a
\* stream handler that has returned is not one of them, although both Publish
\* and the deferred call may unsubscribe the same stream.
SubscribersCounted ==
  /\ active = Cardinality({k \in Conns : \E e \in EnvKeys : k \in subs[e]})
  /\ \A k \in Conns : pc[k] = "closed" => \A e \in EnvKeys : k \notin subs[e]

\* The stream of k is subscribed, and what it sent first covers the version
\* that it skips messages by and every message published before.  A stream
\* gets out of step in three ways: a version is incremented between Build and
\* GetEnvVersion, the ring that it replays lacks the newest message, or
\* Publish finds its queue full.
InStep(k) == pc[k] = "loop" /\ k \in subs[scope[k][2]] /\ exact[k]

\* Handler w has yet to send to k the message with version v of the scope of k.
InFlight(w, k, v) ==
  /\ scope[w] = scope[k]
  /\ msgVersion[w] = v
  /\ \/ pc[w] \in {"build", "flags", "segments", "config", "built"}
     \/ pc[w] = "publishing" /\ k \in targets[w] \cup slow[w]

\* NoUpdateLost: for a stream in step with its environment, every version is
\* on its way to the client or already covered by what was written to it:
\* nothing falls between Subscribe, Replay, the initial snapshot and the queue
\* (sdkStream), whatever the order in which handlers publish.
NoUpdateLost ==
  \A k \in Conns : InStep(k) =>
    \A v \in 1 .. versions[scope[k]] :
      \/ best[k].version >= v
      \/ \E i \in 1 .. Len(ch[k]) : ch[k][i].version = v
      \/ \E w \in Writers : InFlight(w, k, v)

\* Nobody is writing, and everything sent on the client's stream has been read.
Quiet(c) ==
  /\ \A w \in Writers : pc[w] = "idle"
  /\ conn[c] # Nil
  /\ pc[conn[c]] = "loop"
  /\ ch[conn[c]] = <<>>
  /\ wire[conn[c]] = <<>>

Current(c) == view[c] # Nil /\ ContentOf(view[c]) = Content(ClientScope[c])

\* A client whose stream is in step holds exactly what the store holds as soon
\* as everything has been delivered.
ChangeReachesSDK ==
  \A c \in Clients : Quiet(c) /\ InStep(conn[c]) => Current(c)

\* SerialChangesReachSDK: when management requests come one at a time, a
\* change reaches every client whose stream is in step, and it is what the
\* client is left with: the handlers publish in version order then, so the
\* last event written to a stream is the newest.
SerialChangesReachSDK == Cardinality(Writers) = 1 => ChangeReachesSDK

\* PublisherNeverStalls: "MUST be non-blocking: a slow client must never stall
\* the publisher" (hub.go).  Every accepted request is answered, with nothing
\* assumed of the streams and the clients.
PublisherNeverStalls ==
  \A w \in Writers : pc[w] # "idle" ~> pc[w] = "idle"

\* ConnectedClientCatchesUp: if the streams and the clients get to run as well,
\* a client whose stream stays in step ends up with what the store holds
\* (requests one at a time, as in SerialChangesReachSDK).
ConnectedClientCatchesUp ==
  Cardinality(Writers) = 1 /\ StreamFairness =>
    \A c \in Clients : <>[](conn[c] # Nil /\ InStep(conn[c]) => Current(c))

-----------------------------------------------------------------------------
(***************************************************************************)
(* What the documentation says and the code does not do.                    *)
(***************************************************************************)

\* NoEventsMissed: "Subscribe before sending the initial snapshot so no events
\* are missed" (sdkStream): a subscribed client that has read everything is
\* current.
NoEventsMissed ==
  \A c \in Clients :
    Quiet(c) /\ conn[c] \in subs[ClientScope[c][2]] => Current(c)

\* SlowClientReconnects: "the client will reconnect and receive a fresh full
\* snapshot" (Publish): a client whose stream was unsubscribed while it was
\* connected does not stay on that stream.
SlowClientReconnects ==
  \A c \in Clients, k \in Conns :
    (conn[c] = k /\ pc[k] = "loop" /\ k \notin subs[ClientScope[c][2]])
      ~> conn[c] # k

\* ScopedDelivery: "SDK keys are scoped to a project + environment pair": a
\* client only ever evaluates with a snapshot of its own project.
ScopedDelivery ==
  \A c \in Clients : view[c] # Nil => ScopeOf(view[c]) = ClientScope[c]

\* ConcurrentChangesReachSDK: "A flag change reaches every healthy connected
\* SDK": with requests in progress at the same time too, a client whose stream
\* is in step is left with what the store holds.
ConcurrentChangesReachSDK == ChangeReachesSDK
=============================================================================
