--------------------------- MODULE ServicesProofs ---------------------------
(***************************************************************************)
(* The parts beside the propagation of flags, for any instance: NothingLost,*)
(* StoredOnce and QueriesAgree of the analytics ingestor, SessionsNeverFork *)
(* of the refresh tokens, ForgettingIsInvisible of the rate limiter,        *)
(* PatchesFollow of snapshot deltas and ReadyMeansSnapshot of the Go client.*)
(* The parts share no state and no lemma refers to two of them.             *)
(***************************************************************************)
EXTENDS Ingestor, Sessions, RateLimit, SnapshotDelta, GoClient, UpToInduction,
        FiniteSetTheorems, TLAPS

(***************************************************************************)
(* The analytics ingestor.                                                  *)
(***************************************************************************)
Stopping == {"wait", "flush", "insert", "exited"}

\* Where each goroutine may be, and that only a flush in progress has a batch.
Places ==
  /\ \A h \in Trackers : ipc[h] \in {"idle", "handling", "flush", "insert"}
  /\ ipc["loop"] \in {"select", "flush", "insert", "returned"}
  /\ ipc["main"] \in {"serving", "shutdown"} \cup Stopping
  /\ \A a \in Actors : ipc[a] # "insert" => batch[a] = <<>>

\* Stop flushes when the loop has returned, and what it takes is the last batch
\* if Shutdown waited for the requests.
StopIsLast ==
  /\ ipc["main"] \in {"flush", "insert", "exited"} => ipc["loop"] = "returned"
  /\ ipc["main"] \in Stopping /\ clean => \A h \in Trackers : ipc[h] = "idle"
  /\ ipc["main"] \in {"insert", "exited"} /\ clean => buf = <<>>

Conserved == seen = Pending \cup Elements(stored)

IngestorInv == IngestorTypeOK /\ Places /\ StopIsLast /\ Conserved

LEMMA ElementsEmpty == Elements(<<>>) = {}
BY DEF Elements

LEMMA ElementsAppend ==
  ASSUME NEW S, NEW s \in Seq(S), NEW e \in S
  PROVE  Elements(Append(s, e)) = Elements(s) \cup {e}
<1>1. /\ DOMAIN Append(s, e) = 1 .. Len(s) + 1 /\ DOMAIN s = 1 .. Len(s)
      /\ Append(s, e)[Len(s) + 1] = e
      /\ \A i \in 1 .. Len(s) : Append(s, e)[i] = s[i]
      /\ Len(s) \in Nat
  OBVIOUS
<1> QED
  BY <1>1 DEF Elements

LEMMA ElementsConcat ==
  ASSUME NEW S, NEW s \in Seq(S), NEW t \in Seq(S)
  PROVE  Elements(s \o t) = Elements(s) \cup Elements(t)
<1>1. /\ DOMAIN (s \o t) = 1 .. Len(s) + Len(t)
      /\ DOMAIN s = 1 .. Len(s) /\ DOMAIN t = 1 .. Len(t)
      /\ \A i \in 1 .. Len(s) : (s \o t)[i] = s[i]
      /\ \A i \in 1 .. Len(t) : (s \o t)[Len(s) + i] = t[i]
      /\ Len(s) \in Nat /\ Len(t) \in Nat
  OBVIOUS
<1>2. \A i \in 1 .. Len(s) + Len(t) :
        i \in 1 .. Len(s) \/ \E j \in 1 .. Len(t) : i = Len(s) + j
  <2>1. SUFFICES ASSUME NEW i \in 1 .. Len(s) + Len(t), i > Len(s)
                 PROVE  \E j \in 1 .. Len(t) : i = Len(s) + j
    BY <1>1, SMTT(30)
  <2>2. i - Len(s) \in 1 .. Len(t) /\ i = Len(s) + (i - Len(s))
    BY <1>1, <2>1
  <2> QED
    BY <2>2
<1>3. Elements(s \o t) \subseteq Elements(s) \cup Elements(t)
  BY <1>1, <1>2, SMTT(30) DEF Elements
<1>4. Elements(s) \subseteq Elements(s \o t)
  BY <1>1 DEF Elements
<1>5. \A j \in 1 .. Len(t) : Len(s) + j \in 1 .. Len(s) + Len(t)
  BY <1>1
<1>6. Elements(t) \subseteq Elements(s \o t)
  BY <1>1, <1>5 DEF Elements
<1> QED
  BY <1>3, <1>4, <1>6

LEMMA ActorsAre ==
  /\ "loop" \in Actors /\ "main" \in Actors
  /\ \A h \in Trackers : h \in Actors /\ h # "loop" /\ h # "main"
  /\ \A a \in Actors : a \in Trackers \/ a = "loop" \/ a = "main"
BY IngestorAssumption DEF Actors

LEMMA IngestorInitInv == IngestorInit => IngestorInv
<1> SUFFICES ASSUME IngestorInit PROVE IngestorInv
  OBVIOUS
<1>1. /\ ipc["loop"] = "select" /\ ipc["main"] = "serving"
      /\ \A h \in Trackers : ipc[h] = "idle"
      /\ \A a \in Actors : batch[a] = <<>>
  BY ActorsAre DEF IngestorInit
<1>2. IngestorTypeOK
  <2>1. <<>> \in Seq(Events)
    OBVIOUS
  <2>2. batch \in [Actors -> Seq(Events)]
    BY <2>1 DEF IngestorInit
  <2>3. ipc \in [Actors -> Labels]
    BY DEF IngestorInit, Labels
  <2> QED
    BY <2>1, <2>2, <2>3 DEF IngestorInit, IngestorTypeOK
<1>3. Conserved
  BY <1>1, ElementsEmpty DEF IngestorInit, Conserved, Pending
<1> QED
  BY <1>1, <1>2, <1>3 DEF IngestorInv, Places, StopIsLast, Stopping

\* Elements of the batches when one of them is exchanged.
LEMMA BatchesExcept ==
  ASSUME NEW f \in [Actors -> Seq(Events)], NEW a \in Actors, NEW s \in Seq(Events)
  PROVE  /\ UNION {Elements([f EXCEPT ![a] = s][b]) : b \in Actors}
              = Elements(s) \cup UNION {Elements(f[b]) : b \in Actors \ {a}}
         /\ UNION {Elements(f[b]) : b \in Actors}
              = Elements(f[a]) \cup UNION {Elements(f[b]) : b \in Actors \ {a}}
<1>1. [f EXCEPT ![a] = s][a] = s /\ \A b \in Actors \ {a} : [f EXCEPT ![a] = s][b] = f[b]
  OBVIOUS
<1> QED
  BY <1>1

\* What a step of actor a does to the places, when it goes to label l.
LEMMA GotoIs ==
  ASSUME IngestorTypeOK, NEW a \in Actors, NEW l, Goto(a, l)
  PROVE  ipc'[a] = l /\ \A b \in Actors \ {a} : ipc'[b] = ipc[b]
BY DEF IngestorTypeOK, Goto

\* A step that only moves a goroutine keeps the events where they are.
LEMMA GotoInv ==
  ASSUME IngestorInv, NEW a \in Actors, NEW l \in Labels, Goto(a, l),
         UNCHANGED <<buf, batch, stored, seen>>, clean' \in BOOLEAN, Places', StopIsLast'
  PROVE  IngestorInv'
<1>1. IngestorTypeOK'
  BY DEF IngestorInv, IngestorTypeOK, Goto
<1>2. Conserved'
  BY DEF IngestorInv, Conserved, Pending
<1> QED
  BY <1>1, <1>2 DEF IngestorInv

LEMMA TrackInv ==
  ASSUME IngestorInv, NEW h \in Trackers, NEW e \in Events, Track(h, e)
  PROVE  IngestorInv'
<1> DEFINE l == IF Len(buf') >= MaxBatch THEN "flush" ELSE "handling"
<1>1. /\ buf' = Append(buf, e) /\ seen' = seen \cup {e} /\ Goto(h, l)
      /\ UNCHANGED <<batch, stored, clean>> /\ ipc[h] = "handling"
  BY DEF Track
<1>2. h \in Actors /\ h # "loop" /\ h # "main" /\ l \in {"flush", "handling"}
  BY ActorsAre
<1> HIDE DEF l
<1>3. ipc'[h] = l /\ \A b \in Actors \ {h} : ipc'[b] = ipc[b]
  BY <1>1, <1>2, GotoIs DEF IngestorInv
<1>4. ~(ipc["main"] \in Stopping /\ clean)
  BY <1>1 DEF IngestorInv, StopIsLast
<1>5. IngestorTypeOK'
  <2>1. buf' \in Seq(Events) /\ seen' \subseteq Events
    BY <1>1 DEF IngestorInv, IngestorTypeOK
  <2>2. ipc' \in [Actors -> Labels]
    BY <1>1, <1>2 DEF Goto, IngestorInv, IngestorTypeOK, Labels
  <2> QED
    BY <1>1, <2>1, <2>2 DEF IngestorInv, IngestorTypeOK
<1>6. Places'
  BY <1>1, <1>2, <1>3, ActorsAre DEF IngestorInv, Places
<1>7. StopIsLast'
  BY <1>1, <1>2, <1>3, <1>4, ActorsAre DEF IngestorInv, StopIsLast, Stopping
<1>8. Conserved'
  <2>1. Elements(buf') = Elements(buf) \cup {e}
    BY <1>1, ElementsAppend DEF IngestorInv, IngestorTypeOK
  <2>2. Pending' = Pending \cup {e}
    BY <1>1, <2>1 DEF Pending
  <2> QED
    BY <1>1, <2>2 DEF IngestorInv, Conserved
<1> QED
  BY <1>5, <1>6, <1>7, <1>8 DEF IngestorInv

LEMMA AfterFlushIs ==
  /\ \A h \in Trackers : AfterFlush(h) = "handling"
  /\ AfterFlush("loop") = "select" /\ AfterFlush("main") = "exited"
  /\ \A a \in Actors : AfterFlush(a) \in Labels
BY ActorsAre DEF AfterFlush, Labels

\* A flush takes the whole buffer, or finds nothing.
LEMMA TakeInv ==
  ASSUME IngestorInv, NEW a \in Actors, TakeBatch(a)
  PROVE  IngestorInv'
<1>1. ipc[a] = "flush" /\ UNCHANGED <<stored, clean, seen>> /\ batch[a] = <<>>
  BY DEF TakeBatch, IngestorInv, Places
<1>2. CASE buf = <<>>
  <2>1. Goto(a, AfterFlush(a)) /\ UNCHANGED <<buf, batch>>
    BY <1>2 DEF TakeBatch
  <2>2. ipc'[a] = AfterFlush(a) /\ \A b \in Actors \ {a} : ipc'[b] = ipc[b]
    BY <2>1, GotoIs DEF IngestorInv
  <2>3. Places'
    BY <1>1, <2>1, <2>2, ActorsAre, AfterFlushIs DEF IngestorInv, Places, Stopping
  <2>4. StopIsLast'
    BY <1>1, <1>2, <2>1, <2>2, ActorsAre, AfterFlushIs DEF IngestorInv, StopIsLast, Places, Stopping
  <2> QED
    BY <1>1, <2>1, <2>3, <2>4, AfterFlushIs, GotoInv DEF IngestorInv, IngestorTypeOK
<1>3. CASE buf # <<>>
  <2>1. Goto(a, "insert") /\ buf' = <<>> /\ batch' = [batch EXCEPT ![a] = buf]
    BY <1>3 DEF TakeBatch
  <2>2. ipc'[a] = "insert" /\ \A b \in Actors \ {a} : ipc'[b] = ipc[b]
    BY <2>1, GotoIs DEF IngestorInv
  <2>3. \A b \in Actors \ {a} : batch'[b] = batch[b]
    BY <2>1 DEF IngestorInv, IngestorTypeOK
  <2>4. IngestorTypeOK'
    <3>1. ipc' \in [Actors -> Labels]
      BY <2>1 DEF Goto, IngestorInv, IngestorTypeOK, Labels
    <3>2. batch' \in [Actors -> Seq(Events)] /\ buf' \in Seq(Events)
      BY <2>1 DEF IngestorInv, IngestorTypeOK
    <3> QED
      BY <1>1, <3>1, <3>2 DEF IngestorInv, IngestorTypeOK
  <2>5. Places'
    BY <1>1, <2>2, <2>3, ActorsAre DEF IngestorInv, Places, Stopping
  <2>6. StopIsLast'
    BY <1>1, <2>1, <2>2, ActorsAre DEF IngestorInv, StopIsLast, Places, Stopping
  <2>7. Conserved'
    <3>1. Pending' = Pending
      <4>1. UNION {Elements(batch'[b]) : b \in Actors}
              = Elements(buf) \cup UNION {Elements(batch[b]) : b \in Actors \ {a}}
        BY <2>1, BatchesExcept DEF IngestorInv, IngestorTypeOK
      <4>2. UNION {Elements(batch[b]) : b \in Actors}
              = UNION {Elements(batch[b]) : b \in Actors \ {a}}
        BY <1>1, BatchesExcept, ElementsEmpty DEF IngestorInv, IngestorTypeOK
      <4> QED
        BY <2>1, <4>1, <4>2, ElementsEmpty DEF Pending
    <3> QED
      BY <1>1, <3>1 DEF IngestorInv, Conserved
  <2> QED
    BY <2>4, <2>5, <2>6, <2>7 DEF IngestorInv
<1> QED
  BY <1>2, <1>3

\* What a flush took goes into the store.
LEMMA InsertInv ==
  ASSUME IngestorInv, NEW a \in Actors, InsertBatch(a)
  PROVE  IngestorInv'
<1>1. /\ ipc[a] = "insert" /\ stored' = stored \o batch[a]
      /\ batch' = [batch EXCEPT ![a] = <<>>]
      /\ Goto(a, AfterFlush(a)) /\ UNCHANGED <<buf, clean, seen>>
  BY DEF InsertBatch
<1>2. ipc'[a] = AfterFlush(a) /\ \A b \in Actors \ {a} : ipc'[b] = ipc[b]
  BY <1>1, GotoIs DEF IngestorInv
<1>3. batch'[a] = <<>> /\ \A b \in Actors \ {a} : batch'[b] = batch[b]
  BY <1>1 DEF IngestorInv, IngestorTypeOK
<1>4. IngestorTypeOK'
  <2>1. ipc' \in [Actors -> Labels]
    BY <1>1, AfterFlushIs DEF Goto, IngestorInv, IngestorTypeOK
  <2>2. batch[a] \in Seq(Events) /\ <<>> \in Seq(Events)
    BY DEF IngestorInv, IngestorTypeOK
  <2>3. batch' \in [Actors -> Seq(Events)] /\ stored' \in Seq(Events)
    BY <1>1, <2>2 DEF IngestorInv, IngestorTypeOK
  <2> QED
    BY <1>1, <2>1, <2>3 DEF IngestorInv, IngestorTypeOK
<1>5. Places'
  BY <1>1, <1>2, <1>3, ActorsAre, AfterFlushIs DEF IngestorInv, Places, Stopping
<1>6. StopIsLast'
  BY <1>1, <1>2, ActorsAre, AfterFlushIs DEF IngestorInv, StopIsLast, Places, Stopping
<1>7. Conserved'
  <2>1. Elements(stored') = Elements(stored) \cup Elements(batch[a])
    BY <1>1, ElementsConcat DEF IngestorInv, IngestorTypeOK
  <2>2. /\ UNION {Elements(batch'[b]) : b \in Actors}
             = UNION {Elements(batch[b]) : b \in Actors \ {a}}
        /\ UNION {Elements(batch[b]) : b \in Actors}
             = Elements(batch[a]) \cup UNION {Elements(batch[b]) : b \in Actors \ {a}}
    <3>1. <<>> \in Seq(Events)
      OBVIOUS
    <3> QED
      BY <1>1, <3>1, BatchesExcept, ElementsEmpty DEF IngestorInv, IngestorTypeOK
  <2> QED
    BY <1>1, <2>1, <2>2 DEF IngestorInv, Conserved, Pending
<1> QED
  BY <1>4, <1>5, <1>6, <1>7 DEF IngestorInv

\* The steps that only move a goroutine.
LEMMA MovesInv ==
  ASSUME IngestorInv,
         \/ \E h \in Trackers : BeginTrack(h) \/ EndTrack(h)
         \/ LoopTick \/ LoopDone \/ Signal \/ StopFlushes
         \/ \E inTime \in BOOLEAN : ShutdownReturns(inTime)
  PROVE  IngestorInv'
<1> USE ActorsAre DEF IngestorInv
<1>1. ASSUME NEW h \in Trackers, BeginTrack(h) \/ EndTrack(h) PROVE IngestorInv'
  <2>1. PICK l \in {"handling", "idle"} : Goto(h, l)
    BY <1>1 DEF BeginTrack, EndTrack
  <2>2. UNCHANGED <<buf, batch, stored, clean, seen>>
    BY <1>1 DEF BeginTrack, EndTrack
  <2>3. ipc'[h] = l /\ (\A b \in Actors \ {h} : ipc'[b] = ipc[b]) /\ ipc[h] # "insert"
    BY <1>1, <2>1, GotoIs DEF BeginTrack, EndTrack
  <2>4. Places'
    BY <2>1, <2>2, <2>3 DEF Places
  <2>5. StopIsLast'
    BY <1>1, <2>1, <2>2, <2>3 DEF StopIsLast, Stopping, BeginTrack, EndTrack, Goto
  <2> QED
    BY <2>1, <2>2, <2>4, <2>5, GotoInv DEF Labels, IngestorTypeOK
<1>2. ASSUME NEW l \in {"flush", "returned"}, Goto("loop", l), ipc["loop"] = "select",
             UNCHANGED <<buf, batch, stored, clean, seen>>
      PROVE  IngestorInv'
  <2>1. ipc'["loop"] = l /\ \A b \in Actors \ {"loop"} : ipc'[b] = ipc[b]
    BY <1>2, GotoIs
  <2>2. Places' /\ StopIsLast'
    BY <1>2, <2>1 DEF Places, StopIsLast, Stopping
  <2> QED
    BY <1>2, <2>2, GotoInv DEF Labels, IngestorTypeOK
<1>3. CASE LoopTick \/ LoopDone
  BY <1>2, <1>3 DEF LoopTick, LoopDone
<1>4. ASSUME NEW l \in {"shutdown", "wait", "flush"}, Goto("main", l), clean' \in BOOLEAN,
             ipc["main"] \in {"serving", "shutdown", "wait"},
             UNCHANGED <<buf, batch, stored, seen>>,
             l = "flush" => ipc["loop"] = "returned",
             l # "shutdown" /\ clean' => \A h \in Trackers : ipc[h] = "idle"
      PROVE  IngestorInv'
  <2>1. ipc'["main"] = l /\ \A b \in Actors \ {"main"} : ipc'[b] = ipc[b]
    BY <1>4, GotoIs
  <2>2. Places' /\ StopIsLast'
    BY <1>4, <2>1 DEF Places, StopIsLast, Stopping
  <2> QED
    BY <1>4, <2>2, GotoInv DEF Labels
<1>5. CASE Signal
  BY <1>4, <1>5 DEF Signal, IngestorTypeOK
<1>6. CASE StopFlushes
  BY <1>4, <1>6 DEF StopFlushes, IngestorTypeOK, StopIsLast, Stopping
<1>7. CASE \E inTime \in BOOLEAN : ShutdownReturns(inTime)
  <2>1. PICK inTime \in BOOLEAN : ShutdownReturns(inTime)
    BY <1>7
  <2> QED
    BY <1>4, <2>1 DEF ShutdownReturns
<1> QED
  BY <1>1, <1>3, <1>5, <1>6, <1>7

LEMMA IngestorNextInv == IngestorInv /\ [IngestorNext]_ingestorVars => IngestorInv'
<1> SUFFICES ASSUME IngestorInv, [IngestorNext]_ingestorVars PROVE IngestorInv'
  OBVIOUS
<1>1. CASE \E h \in Trackers, e \in Events : Track(h, e)
  BY <1>1, TrackInv
<1>2. CASE \E a \in Actors : TakeBatch(a)
  BY <1>2, TakeInv
<1>3. CASE \E a \in Actors : InsertBatch(a)
  BY <1>3, InsertInv
<1>4. CASE UNCHANGED ingestorVars
  BY <1>4 DEF ingestorVars, IngestorInv, IngestorTypeOK, Places, StopIsLast, Conserved, Pending
<1> QED
  BY <1>1, <1>2, <1>3, <1>4, MovesInv DEF IngestorNext

\* Every event given to Track is in the buffer, in a batch or in the store, and a
\* shutdown that waits for the requests leaves none behind
\* (internal/analytics/ingestor.go:49-95, cmd/server/main.go:51), for any number
\* of requests, events and events in a batch.
THEOREM NothingLostAlways == IngestorSpec => []NothingLost
<1>1. IngestorInv => NothingLost
  <2> SUFFICES ASSUME IngestorInv, ipc["main"] = "exited", clean PROVE Pending = {}
    BY DEF IngestorInv, Conserved, NothingLost
  <2>1. buf = <<>>
    BY DEF IngestorInv, StopIsLast
  <2>2. \A a \in Actors : batch[a] = <<>>
    BY ActorsAre DEF IngestorInv, StopIsLast, Places, Stopping
  <2> QED
    BY <2>1, <2>2, ElementsEmpty DEF Pending
<1> QED
  BY IngestorInitInv, IngestorNextInv, <1>1, PTL DEF IngestorSpec

-----------------------------------------------------------------------------
(***************************************************************************)
(* StoredOnce.  The invariant speaks of positions and not of counts: the    *)
(* buffer, the store and the batches repeat nothing and share nothing.      *)
(***************************************************************************)
NoRepeats(s) == \A i, j \in DOMAIN s : s[i] = s[j] => i = j

Disjoint(s, t) == Elements(s) \cap Elements(t) = {}

\* Every event is in one place at most.
OnePlace ==
  /\ NoRepeats(buf) /\ NoRepeats(stored) /\ Disjoint(buf, stored)
  /\ \A a \in Actors :
       /\ NoRepeats(batch[a]) /\ Disjoint(buf, batch[a]) /\ Disjoint(stored, batch[a])
       /\ \A b \in Actors : a # b => Disjoint(batch[a], batch[b])

LEMMA NoRepeatsEmpty == NoRepeats(<<>>)
BY DEF NoRepeats

LEMMA NoRepeatsAppend ==
  ASSUME NEW S, NEW s \in Seq(S), NEW e \in S, NoRepeats(s), e \notin Elements(s)
  PROVE  NoRepeats(Append(s, e))
<1>1. /\ DOMAIN Append(s, e) = 1 .. Len(s) + 1 /\ DOMAIN s = 1 .. Len(s)
      /\ Append(s, e)[Len(s) + 1] = e
      /\ \A i \in 1 .. Len(s) : Append(s, e)[i] = s[i]
      /\ Len(s) \in Nat
  OBVIOUS
<1> QED
  BY <1>1 DEF NoRepeats, Elements

LEMMA NoRepeatsConcat ==
  ASSUME NEW S, NEW s \in Seq(S), NEW t \in Seq(S),
         NoRepeats(s), NoRepeats(t), Disjoint(s, t)
  PROVE  NoRepeats(s \o t)
<1>1. /\ DOMAIN (s \o t) = 1 .. Len(s) + Len(t)
      /\ DOMAIN s = 1 .. Len(s) /\ DOMAIN t = 1 .. Len(t)
      /\ \A i \in 1 .. Len(s) : (s \o t)[i] = s[i]
      /\ \A i \in 1 .. Len(s) + Len(t) : i > Len(s) =>
           i - Len(s) \in 1 .. Len(t) /\ (s \o t)[i] = t[i - Len(s)]
      /\ Len(s) \in Nat /\ Len(t) \in Nat
  OBVIOUS
<1> SUFFICES ASSUME NEW i \in 1 .. Len(s) + Len(t), NEW j \in 1 .. Len(s) + Len(t),
                    (s \o t)[i] = (s \o t)[j]
             PROVE  i = j
  BY <1>1 DEF NoRepeats
<1>2. CASE i <= Len(s) /\ j <= Len(s)
  BY <1>1, <1>2 DEF NoRepeats
<1>3. CASE i > Len(s) /\ j > Len(s)
  BY <1>1, <1>3 DEF NoRepeats
<1>4. ASSUME NEW k \in 1 .. Len(s), NEW m \in 1 .. Len(t) PROVE s[k] # t[m]
  <2>1. s[k] \in Elements(s) /\ t[m] \in Elements(t)
    BY <1>1 DEF Elements
  <2> QED
    BY <2>1 DEF Disjoint
<1>5. CASE i <= Len(s) /\ j > Len(s)
  BY <1>1, <1>4, <1>5
<1>6. CASE i > Len(s) /\ j <= Len(s)
  BY <1>1, <1>4, <1>6
<1> QED
  BY <1>1, <1>2, <1>3, <1>5, <1>6

\* Every flush moves what it took from one place to the next, also when several
\* flush at the same time, and Track puts in what is in no place yet.
LEMMA OnePlaceNext ==
  ASSUME IngestorInv, OnePlace, [IngestorNext]_ingestorVars
  PROVE  OnePlace'
<1>1. ASSUME NEW h \in Trackers, NEW e \in Events, Track(h, e) PROVE OnePlace'
  <2>1. buf' = Append(buf, e) /\ UNCHANGED <<batch, stored>> /\ e \notin seen
    BY <1>1 DEF Track
  <2>2. /\ e \notin Elements(buf) /\ e \notin Elements(stored)
        /\ \A a \in Actors : e \notin Elements(batch[a])
    BY <2>1 DEF IngestorInv, Conserved, Pending
  <2>3. Elements(buf') = Elements(buf) \cup {e}
    BY <2>1, ElementsAppend DEF IngestorInv, IngestorTypeOK
  <2>4. NoRepeats(buf')
    BY <2>1, <2>2, NoRepeatsAppend DEF IngestorInv, IngestorTypeOK, OnePlace
  <2> QED
    BY <2>1, <2>2, <2>3, <2>4 DEF OnePlace, Disjoint
<1>2. ASSUME NEW a \in Actors, TakeBatch(a) PROVE OnePlace'
  <2>1. CASE buf = <<>>
    BY <1>2, <2>1 DEF TakeBatch, OnePlace
  <2>2. CASE buf # <<>>
    <3>1. buf' = <<>> /\ batch' = [batch EXCEPT ![a] = buf] /\ UNCHANGED stored
      BY <1>2, <2>2 DEF TakeBatch
    <3>2. batch'[a] = buf /\ \A b \in Actors \ {a} : batch'[b] = batch[b]
      BY <3>1 DEF IngestorInv, IngestorTypeOK
    <3>3. Elements(buf') = {} /\ NoRepeats(buf')
      BY <3>1, ElementsEmpty, NoRepeatsEmpty
    <3>4. \A b \in Actors \ {a} :
            /\ NoRepeats(batch'[b]) /\ Disjoint(stored', batch'[b])
            /\ Disjoint(batch'[a], batch'[b]) /\ Disjoint(batch'[b], batch'[a])
      BY <3>1, <3>2 DEF OnePlace, Disjoint
    <3>5. NoRepeats(batch'[a]) /\ Disjoint(stored', batch'[a]) /\ NoRepeats(stored')
      BY <3>1, <3>2 DEF OnePlace, Disjoint
    <3>6. \A b, c \in Actors : b # c => Disjoint(batch'[b], batch'[c])
      BY <3>2, <3>4 DEF OnePlace
    <3> QED
      BY <3>3, <3>4, <3>5, <3>6 DEF OnePlace, Disjoint
  <2> QED
    BY <2>1, <2>2
<1>3. ASSUME NEW a \in Actors, InsertBatch(a) PROVE OnePlace'
  <2>1. /\ stored' = stored \o batch[a] /\ batch' = [batch EXCEPT ![a] = <<>>]
        /\ UNCHANGED buf
    BY <1>3 DEF InsertBatch
  <2>2. batch'[a] = <<>> /\ \A b \in Actors \ {a} : batch'[b] = batch[b]
    BY <2>1 DEF IngestorInv, IngestorTypeOK
  <2>3. stored \in Seq(Events) /\ batch[a] \in Seq(Events)
    BY DEF IngestorInv, IngestorTypeOK
  <2>4. NoRepeats(stored')
    BY <2>1, <2>3, NoRepeatsConcat DEF OnePlace
  <2>5. Elements(stored') = Elements(stored) \cup Elements(batch[a])
    BY <2>1, <2>3, ElementsConcat
  <2>6. Elements(batch'[a]) = {} /\ NoRepeats(batch'[a])
    BY <2>2, ElementsEmpty, NoRepeatsEmpty
  <2>7. Disjoint(buf', stored') /\ NoRepeats(buf')
    BY <2>1, <2>5 DEF OnePlace, Disjoint
  <2>8. \A b \in Actors :
          NoRepeats(batch'[b]) /\ Disjoint(buf', batch'[b]) /\ Disjoint(stored', batch'[b])
    BY <2>1, <2>2, <2>5, <2>6 DEF OnePlace, Disjoint
  <2>9. \A b, c \in Actors : b # c => Disjoint(batch'[b], batch'[c])
    BY <2>2, <2>6 DEF OnePlace, Disjoint
  <2> QED
    BY <2>4, <2>7, <2>8, <2>9 DEF OnePlace
<1>4. CASE UNCHANGED <<buf, batch, stored>>
  BY <1>4 DEF OnePlace
<1> QED
  BY <1>1, <1>2, <1>3, <1>4
  DEF IngestorNext, ingestorVars, BeginTrack, EndTrack, LoopTick, LoopDone, Signal,
      ShutdownReturns, StopFlushes

\* Without repetitions the positions of an element are one or none.
LEMMA CountIs ==
  ASSUME NEW S, NEW s \in Seq(S), NoRepeats(s), NEW e
  PROVE  Cardinality({i \in DOMAIN s : s[i] = e}) = IF e \in Elements(s) THEN 1 ELSE 0
<1>1. CASE e \in Elements(s)
  <2>1. PICK i \in DOMAIN s : s[i] = e
    BY <1>1 DEF Elements
  <2>2. {j \in DOMAIN s : s[j] = e} = {i}
    BY <2>1 DEF NoRepeats
  <2> QED
    BY <1>1, <2>2, FS_Singleton
<1>2. CASE e \notin Elements(s)
  <2>1. {j \in DOMAIN s : s[j] = e} = {}
    BY <1>2 DEF Elements
  <2> QED
    BY <1>2, <2>1, FS_EmptySet
<1> QED
  BY <1>1, <1>2

\* No event is stored twice or is about to be, for any number of goroutines that
\* flush at the same time (internal/analytics/ingestor.go:84-94).
THEOREM StoredOnceAlways == IngestorSpec => []StoredOnce
<1>1. IngestorInit => OnePlace
  <2> SUFFICES ASSUME IngestorInit PROVE OnePlace
    OBVIOUS
  <2>1. buf = <<>> /\ stored = <<>> /\ \A a \in Actors : batch[a] = <<>>
    BY DEF IngestorInit
  <2> QED
    BY <2>1, NoRepeatsEmpty, ElementsEmpty DEF OnePlace, Disjoint
<1>2. IngestorInv /\ OnePlace => StoredOnce
  <2> SUFFICES ASSUME IngestorInv, OnePlace, NEW e \in Events
               PROVE  Cardinality({i \in DOMAIN buf : buf[i] = e})
                        + Cardinality({i \in DOMAIN stored : stored[i] = e})
                        + Cardinality({a \in Actors : e \in Elements(batch[a])})
                        = IF e \in seen THEN 1 ELSE 0
    BY DEF StoredOnce
  <2>1. /\ Cardinality({i \in DOMAIN buf : buf[i] = e}) = IF e \in Elements(buf) THEN 1 ELSE 0
        /\ Cardinality({i \in DOMAIN stored : stored[i] = e})
             = IF e \in Elements(stored) THEN 1 ELSE 0
    BY CountIs DEF IngestorInv, IngestorTypeOK, OnePlace
  <2>2. CASE \E a \in Actors : e \in Elements(batch[a])
    <3>1. PICK a \in Actors : e \in Elements(batch[a])
      BY <2>2
    <3>2. {b \in Actors : e \in Elements(batch[b])} = {a}
      BY <3>1 DEF OnePlace, Disjoint
    <3>3. e \notin Elements(buf) /\ e \notin Elements(stored)
      BY <3>1 DEF OnePlace, Disjoint
    <3>4. e \in seen
      BY <3>1 DEF IngestorInv, Conserved, Pending
    <3>5. Cardinality({b \in Actors : e \in Elements(batch[b])}) = 1
      BY <3>2, FS_Singleton
    <3> QED
      BY <2>1, <3>3, <3>4, <3>5
  <2>3. CASE ~ \E a \in Actors : e \in Elements(batch[a])
    <3>1. {b \in Actors : e \in Elements(batch[b])} = {}
      BY <2>3
    <3>2. Cardinality({b \in Actors : e \in Elements(batch[b])}) = 0
      BY <3>1, FS_EmptySet
    <3>3. e \in seen <=> e \in Elements(buf) \/ e \in Elements(stored)
      BY <2>3 DEF IngestorInv, Conserved, Pending
    <3>4. ~(e \in Elements(buf) /\ e \in Elements(stored))
      BY DEF OnePlace, Disjoint
    <3> QED
      BY <2>1, <3>2, <3>3, <3>4
  <2> QED
    BY <2>2, <2>3
<1>3. IngestorInv /\ OnePlace /\ [IngestorNext]_ingestorVars => OnePlace'
  BY OnePlaceNext
<1> QED
  BY IngestorInitInv, IngestorNextInv, <1>1, <1>2, <1>3, PTL DEF IngestorSpec

-----------------------------------------------------------------------------
(***************************************************************************)
(* QueriesAgree.  A query is a loop over the list; what it holds after k     *)
(* events is a matter of the set of the first k, because no event is there   *)
(* twice.                                                                   *)
(***************************************************************************)
Before(s, k) == {s[i] : i \in 1 .. k}
Ctxs(S) == {e.ctx : e \in S}

LEMMA BeforeStep ==
  ASSUME NEW S, NEW s \in Seq(S)
  PROVE  /\ Before(s, 0) = {} /\ Before(s, Len(s)) = Elements(s)
         /\ \A k \in 0 .. Len(s) : Before(s, k) \subseteq S
         /\ \A k \in 1 .. Len(s) : /\ Before(s, k) = Before(s, k - 1) \cup {s[k]}
                                   /\ s[k] \in S /\ k - 1 \in 0 .. Len(s) /\ k \in 0 .. Len(s)
<1>1. DOMAIN s = 1 .. Len(s) /\ Len(s) \in Nat /\ \A i \in 1 .. Len(s) : s[i] \in S
  OBVIOUS
<1>2. ASSUME NEW k \in 1 .. Len(s) PROVE Before(s, k) = Before(s, k - 1) \cup {s[k]}
  <2>1. 1 .. k = (1 .. k - 1) \cup {k}
    BY <1>1
  <2> QED
    BY <2>1 DEF Before
<1>3. \A k \in 0 .. Len(s) : \A i \in 1 .. k : i \in 1 .. Len(s)
  BY <1>1
<1>4. \A k \in 1 .. Len(s) : k - 1 \in 0 .. Len(s) /\ k \in 0 .. Len(s)
  BY <1>1
<1> QED
  BY <1>1, <1>2, <1>3, <1>4 DEF Before, Elements

LEMMA BeforeFinite ==
  ASSUME NEW S, NEW s \in Seq(S)
  PROVE  \A k \in 0 .. Len(s) : IsFiniteSet(Before(s, k))
<1> DEFINE T == {k \in 0 .. Len(s) : IsFiniteSet(Before(s, k))}
<1>0. Len(s) \in Nat
  OBVIOUS
<1>1. 0 \in T
  BY <1>0, BeforeStep, FS_EmptySet
<1>2. ASSUME NEW k \in 0 .. Len(s), k \in T, k < Len(s) PROVE k + 1 \in T
  <2>1. k + 1 \in 1 .. Len(s) /\ k + 1 \in 0 .. Len(s) /\ (k + 1) - 1 = k
    BY <1>0, <1>2
  <2>2. Before(s, k + 1) = Before(s, k) \cup {s[k + 1]}
    BY <2>1, BeforeStep
  <2>3. IsFiniteSet(Before(s, k) \cup {s[k + 1]})
    BY <1>2, FS_AddElement
  <2> QED
    BY <2>1, <2>2, <2>3
<1> HIDE DEF T
<1>3. \A k \in 0 .. Len(s) : k \in T
  BY <1>0, <1>1, <1>2, UpTo
<1> QED
  BY <1>3 DEF T

\* The count of the events in T goes up with each one.
CountsUp(s, k, T) ==
  /\ Cardinality(Before(s, k - 1) \cap T) \in Nat
  /\ s[k] \in T => Cardinality(Before(s, k) \cap T) = Cardinality(Before(s, k - 1) \cap T) + 1
  /\ s[k] \notin T => Before(s, k) \cap T = Before(s, k - 1) \cap T

LEMMA CountStep ==
  ASSUME NEW s \in Seq(Events), NoRepeats(s), NEW k \in 1 .. Len(s), NEW T
  PROVE  CountsUp(s, k, T)
<1>1. PICK B : B = Before(s, k - 1) \cap T
  OBVIOUS
<1>2. /\ k - 1 \in 0 .. Len(s) /\ Before(s, k) = Before(s, k - 1) \cup {s[k]}
  BY BeforeStep
<1>3. IsFiniteSet(Before(s, k - 1))
  BY <1>2, BeforeFinite
<1>4. IsFiniteSet(B) /\ Cardinality(B) \in Nat
  <2>1. B \in SUBSET Before(s, k - 1)
    BY <1>1
  <2> QED
    BY <1>3, <2>1, FS_Subset, FS_CardinalityType
<1>5. s[k] \notin Before(s, k - 1)
  <2>1. DOMAIN s = 1 .. Len(s) /\ Len(s) \in Nat
    OBVIOUS
  <2>2. \A i \in 1 .. k - 1 : i \in 1 .. Len(s) /\ i # k
    BY <2>1
  <2> QED
    BY <2>1, <2>2 DEF Before, NoRepeats
<1>6. ASSUME s[k] \in T PROVE Before(s, k) \cap T = B \cup {s[k]} /\ s[k] \notin B
  BY <1>1, <1>2, <1>5, <1>6
<1>7. Cardinality(B \cup {s[k]}) = IF s[k] \in B THEN Cardinality(B) ELSE Cardinality(B) + 1
  BY <1>4, FS_AddElement
<1>8. s[k] \notin T => Before(s, k) \cap T = B
  BY <1>1, <1>2
<1> QED
  BY <1>1, <1>4, <1>6, <1>7, <1>8 DEF CountsUp

LEMMA CtxsFinite ==
  ASSUME NEW S, NEW s \in Seq(S)
  PROVE  \A k \in 0 .. Len(s) : \A T : IsFiniteSet(Ctxs(Before(s, k) \cap T))
<1>1. PICK c : c = [i \in 1 .. Len(s) |-> s[i].ctx]
  OBVIOUS
<1>2. PICK A : A = {s[i].ctx : i \in 1 .. Len(s)}
  OBVIOUS
<1>3. c \in Seq(A) /\ Len(c) = Len(s) /\ Len(s) \in Nat
  BY <1>1, <1>2
<1> SUFFICES ASSUME NEW k \in 0 .. Len(s), NEW T PROVE IsFiniteSet(Ctxs(Before(s, k) \cap T))
  OBVIOUS
<1>4. IsFiniteSet(Before(c, k))
  BY <1>3, BeforeFinite
<1>5. Ctxs(Before(s, k) \cap T) \in SUBSET Before(c, k)
  <2>1. \A i \in 1 .. k : i \in 1 .. Len(s) /\ c[i] = s[i].ctx
    BY <1>1, <1>3
  <2> QED
    BY <2>1 DEF Ctxs, Before
<1> QED
  BY <1>4, <1>5, FS_Subset

\* The evaluations of a flag, those of them from since on, and what the loop of
\* QueryFlagInsights holds of them after k events.
EvalEvents(env, f) == {e \in Events : IsEval(e, env) /\ e.flag = f}
RecentEvents(env, since, f) == {e \in EvalEvents(env, f) : e.time >= since}
InsightOf(s, k, R) ==
  [total  |-> Cardinality(Before(s, k) \cap R),
   counts |-> [v \in EvVariations |-> Cardinality(Before(s, k) \cap {e \in R : e.variation = v})],
   unique |-> Cardinality(Ctxs(Before(s, k) \cap R)),
   seen   |-> Ctxs(Before(s, k) \cap R)]

\* One more event of R is counted as CountEval does, in this way.
CountedIn(fi, e) ==
  [total  |-> fi.total + 1,
   counts |-> IF e.variation = Nil THEN fi.counts
              ELSE [fi.counts EXCEPT ![e.variation] = @ + 1],
   unique |-> IF e.ctx \in fi.seen THEN fi.unique ELSE fi.unique + 1,
   seen   |-> fi.seen \cup {e.ctx}]

LEMMA InsightStep ==
  ASSUME NEW s \in Seq(Events), NoRepeats(s), NEW k \in 1 .. Len(s), NEW R
  PROVE  /\ s[k] \notin R => InsightOf(s, k, R) = InsightOf(s, k - 1, R)
         /\ s[k] \in R /\ s[k].variation \in EvVariations \cup {Nil} =>
              InsightOf(s, k, R) = CountedIn(InsightOf(s, k - 1, R), s[k])
<1>1. PICK x, V : V = [v \in EvVariations |-> {e \in R : e.variation = v}] /\ x = s[k]
  OBVIOUS
<1>2. /\ k - 1 \in 0 .. Len(s) /\ Before(s, k) = Before(s, k - 1) \cup {x}
  BY <1>1, BeforeStep
<1>3. PICK P, Q : P = Before(s, k - 1) \cap R /\ Q = Before(s, k) \cap R
  OBVIOUS
<1>4. \A i \in {k - 1, k} : InsightOf(s, i, R) =
        [total  |-> Cardinality(Before(s, i) \cap R),
         counts |-> [v \in EvVariations |-> Cardinality(Before(s, i) \cap V[v])],
         unique |-> Cardinality(Ctxs(Before(s, i) \cap R)),
         seen   |-> Ctxs(Before(s, i) \cap R)]
  BY <1>1 DEF InsightOf
<1>5. ASSUME x \notin R PROVE InsightOf(s, k, R) = InsightOf(s, k - 1, R)
  <2>1. \A v \in EvVariations : Before(s, k) \cap V[v] = Before(s, k - 1) \cap V[v]
    BY <1>1, <1>2, <1>5
  <2>2. P = Q
    BY <1>2, <1>3, <1>5
  <2> QED
    BY <1>3, <1>4, <2>1, <2>2
<1>6. ASSUME x \in R, x.variation \in EvVariations \cup {Nil}
      PROVE  InsightOf(s, k, R) = CountedIn(InsightOf(s, k - 1, R), x)
  <2>1. Cardinality(Q) = Cardinality(P) + 1
    <3>1. CountsUp(s, k, R)
      BY CountStep, Zenon
    <3> QED
      BY <1>1, <1>3, <1>6, <3>1 DEF CountsUp
  <2>2. Ctxs(Q) = Ctxs(P) \cup {x.ctx}
    <3>1. Q = P \cup {x}
      BY <1>2, <1>3, <1>6
    <3> QED
      BY <3>1 DEF Ctxs
  <2>3. IsFiniteSet(Ctxs(P))
    BY <1>2, <1>3, CtxsFinite
  <2>4. Cardinality(Ctxs(Q)) =
          IF x.ctx \in Ctxs(P) THEN Cardinality(Ctxs(P)) ELSE Cardinality(Ctxs(P)) + 1
    BY <2>2, <2>3, FS_AddElement
  <2>5. PICK c : c = [v \in EvVariations |-> Cardinality(Before(s, k - 1) \cap V[v])]
    OBVIOUS
  <2>6. ASSUME NEW v \in EvVariations
        PROVE  Cardinality(Before(s, k) \cap V[v]) =
                 (IF x.variation = v THEN c[v] + 1 ELSE c[v])
    <3>1. x \in V[v] <=> x.variation = v
      BY <1>1, <1>6
    <3>2. CountsUp(s, k, V[v])
      BY CountStep, Zenon
    <3> QED
      BY <1>1, <2>5, <3>1, <3>2 DEF CountsUp
  <2>7. Nil \notin EvVariations
    BY IngestorAssumption
  <2>8. [v \in EvVariations |-> Cardinality(Before(s, k) \cap V[v])] =
          IF x.variation = Nil THEN c ELSE [c EXCEPT ![x.variation] = @ + 1]
    BY <1>6, <2>5, <2>6, <2>7
  <2>9. InsightOf(s, k - 1, R) = [total |-> Cardinality(P), counts |-> c,
                                  unique |-> Cardinality(Ctxs(P)), seen |-> Ctxs(P)]
    BY <1>3, <1>4, <2>5
  <2>10. InsightOf(s, k, R) =
           [total  |-> Cardinality(Q),
            counts |-> IF x.variation = Nil THEN c ELSE [c EXCEPT ![x.variation] = @ + 1],
            unique |-> Cardinality(Ctxs(Q)), seen |-> Ctxs(Q)]
    BY <1>3, <1>4, <2>8
  <2>11. PICK fi : fi = InsightOf(s, k - 1, R)
    OBVIOUS
  <2>12. /\ fi.total = Cardinality(P) /\ fi.counts = c
         /\ fi.unique = Cardinality(Ctxs(P)) /\ fi.seen = Ctxs(P)
    BY <2>9, <2>11
  <2>13. InsightOf(s, k, R) = CountedIn(fi, x)
    BY <2>1, <2>2, <2>4, <2>10, <2>12, Zenon DEF CountedIn
  <2> QED
    BY <2>11, <2>13
<1> QED
  BY <1>1, <1>5, <1>6

LEMMA InsightZero ==
  ASSUME NEW s \in Seq(Events), NEW R
  PROVE  InsightOf(s, 0, R) = NoInsight
<1>1. \A T : Before(s, 0) \cap T = {}
  BY BeforeStep
<1>2. Ctxs({}) = {} /\ Cardinality({}) = 0
  BY FS_EmptySet DEF Ctxs
<1>3. \A T : Cardinality(Before(s, 0) \cap T) = 0
  BY <1>1, <1>2
<1>4. Ctxs(Before(s, 0) \cap R) = {}
  BY <1>1, <1>2
<1> QED
  BY <1>2, <1>3, <1>4 DEF InsightOf, NoInsight

InsightsAt(s, env, since, k) ==
  [f \in EvFlags |-> InsightOf(s, k, RecentEvents(env, since, f))]

LEMMA InsightsStep ==
  ASSUME NEW s \in Seq(Events), NoRepeats(s), NEW k \in 1 .. Len(s), NEW env, NEW since
  PROVE  InsightsAt(s, env, since, k) =
           IF IsEval(s[k], env) /\ s[k].time >= since
             THEN CountEval(InsightsAt(s, env, since, k - 1), s[k])
             ELSE InsightsAt(s, env, since, k - 1)
<1>1. PICK x, p : x = s[k] /\ p = InsightsAt(s, env, since, k - 1)
  OBVIOUS
<1>2. x \in Events
  BY <1>1, BeforeStep
<1>3. \A f \in EvFlags : x \in RecentEvents(env, since, f) <=>
                           IsEval(x, env) /\ x.time >= since /\ x.flag = f
  BY <1>2 DEF RecentEvents, EvalEvents
<1>4. \A f \in EvFlags : p[f] = InsightOf(s, k - 1, RecentEvents(env, since, f))
  BY <1>1 DEF InsightsAt
<1>5. p = [f \in EvFlags |-> p[f]]
  BY <1>1 DEF InsightsAt
<1>6. CASE ~(IsEval(x, env) /\ x.time >= since)
  <2>1. \A f \in EvFlags : InsightOf(s, k, RecentEvents(env, since, f)) = p[f]
    BY <1>1, <1>3, <1>4, <1>6, InsightStep
  <2> QED
    BY <1>1, <1>5, <1>6, <2>1 DEF InsightsAt
<1>7. CASE IsEval(x, env) /\ x.time >= since
  <2>1. x.flag \in EvFlags /\ x.variation \in EvVariations \cup {Nil}
    BY <1>2, <1>7, IngestorAssumption DEF IsEval
  <2>2. \A f \in EvFlags \ {x.flag} : InsightOf(s, k, RecentEvents(env, since, f)) = p[f]
    BY <1>1, <1>3, <1>4, InsightStep
  <2>3. InsightOf(s, k, RecentEvents(env, since, x.flag)) = CountedIn(p[x.flag], x)
    BY <1>1, <1>3, <1>4, <1>7, <2>1, InsightStep
  <2>4. CountEval(p, x) = [p EXCEPT ![x.flag] = CountedIn(p[x.flag], x)]
    BY DEF CountEval, CountedIn
  <2>5. [f \in EvFlags |-> InsightOf(s, k, RecentEvents(env, since, f))] = CountEval(p, x)
    BY <1>5, <2>1, <2>2, <2>3, <2>4
  <2> QED
    BY <1>1, <1>7, <2>5 DEF InsightsAt
<1> QED
  BY <1>6, <1>7

LEMMA InsightsAre ==
  ASSUME NEW s \in Seq(Events), NoRepeats(s), NEW env, NEW since
  PROVE  QueryFlagInsights(s, env, since) = InsightsAt(s, env, since, Len(s))
<1> DEFINE n == Len(s)
           step(g, k) == IF k = 0 THEN [f \in EvFlags |-> NoInsight]
                         ELSE IF IsEval(s[k], env) /\ s[k].time >= since
                              THEN CountEval(g[k - 1], s[k])
                              ELSE g[k - 1]
           byFlag == CHOOSE g : g = [k \in 0 .. n |-> step(g, k)]
<1>0. n \in Nat
  OBVIOUS
<1>1. PICK h : h = [k \in 0 .. n |-> InsightsAt(s, env, since, k)]
  OBVIOUS
<1>2. ASSUME NEW k \in 0 .. n PROVE h[k] = step(h, k)
  <2>1. CASE k = 0
    BY <1>0, <1>1, <2>1, InsightZero DEF InsightsAt
  <2>2. CASE k # 0
    <3>1. k \in 1 .. n /\ k - 1 \in 0 .. n
      BY <1>0, <2>2
    <3>2. h[k] = InsightsAt(s, env, since, k) /\ h[k - 1] = InsightsAt(s, env, since, k - 1)
      BY <1>1, <3>1
    <3> QED
      BY <2>2, <3>1, <3>2, InsightsStep
  <2> QED
    BY <2>1, <2>2
<1>3. h = [k \in 0 .. n |-> step(h, k)]
  <2> HIDE DEF step, n
  <2> QED
    BY <1>1, <1>2
<1>4. byFlag = [k \in 0 .. n |-> step(byFlag, k)]
  <2> HIDE DEF step, n
  <2> QED
    BY <1>3, Zenon
<1>5. QueryFlagInsights(s, env, since) = byFlag[n]
  BY DEF QueryFlagInsights
<1> HIDE DEF byFlag
<1>6. byFlag = h
  <2> HIDE DEF n
  <2>1. byFlag = [k \in 0 .. n |-> byFlag[k]] /\ h = [k \in 0 .. n |-> h[k]]
    <3> HIDE DEF step
    <3> QED
      BY <1>1, <1>4
  <2>2. ASSUME NEW k \in 0 .. n PROVE byFlag[k] = step(byFlag, k) /\ h[k] = step(h, k)
    <3> HIDE DEF step
    <3> QED
      BY <1>2, <1>4
  <2>3. byFlag[0] = h[0]
    <3>1. 0 \in 0 .. n
      BY <1>0
    <3> QED
      BY <2>2, <3>1
  <2>4. ASSUME NEW k \in 1 .. n, byFlag[k - 1] = h[k - 1] PROVE byFlag[k] = h[k]
    <3>1. k \in 0 .. n /\ k # 0
      BY <1>0
    <3> QED
      BY <2>2, <2>4, <3>1
  <2>5. Alike(n, byFlag, h)
    BY <2>1, <2>3, <2>4 DEF Alike
  <2> QED
    BY <1>0, <2>5, SameUpTo
<1> QED
  BY <1>0, <1>1, <1>5, <1>6

\* What the loop of QueryStaleFlags holds of the evaluations in S.
StaleStates == [EvFlags -> [last : Int, variations : SUBSET EvVariations]]
StaleOf(st, S) ==
  /\ st.last \in Int /\ st.last >= 0
  /\ \A e \in S : e.time <= st.last
  /\ st.last = 0 \/ \E e \in S : e.time = st.last
  /\ st.variations = {e.variation : e \in S} \ {Nil}

LEMMA NoteType ==
  ASSUME NEW st \in StaleStates, NEW x \in Events, NEW env, IsEval(x, env)
  PROVE  NoteEval(st, x) \in StaleStates
<1>1. x.flag \in EvFlags /\ x.variation \in EvVariations \cup {Nil} /\ x.time \in Int
  BY IngestorAssumption DEF IsEval
<1>2. PICK y : y = [last |-> IF x.time > st[x.flag].last THEN x.time ELSE st[x.flag].last,
                    variations |-> IF x.variation = Nil THEN st[x.flag].variations
                                   ELSE st[x.flag].variations \cup {x.variation}]
  OBVIOUS
<1>3. y \in [last : Int, variations : SUBSET EvVariations]
  BY <1>1, <1>2 DEF StaleStates
<1>4. NoteEval(st, x) = [st EXCEPT ![x.flag] = y]
  BY <1>2 DEF NoteEval
<1> QED
  BY <1>1, <1>3, <1>4 DEF StaleStates

\* The states of the loop, and that QueryStaleFlags reads the last of them.
StaleRuns(s, env) ==
  {g \in [0 .. Len(s) -> StaleStates] :
     /\ g[0] = [f \in EvFlags |-> [last |-> 0, variations |-> {}]]
     /\ \A k \in 1 .. Len(s) :
          g[k] = IF IsEval(s[k], env) THEN NoteEval(g[k - 1], s[k]) ELSE g[k - 1]}

LEMMA StaleRunsExist ==
  ASSUME NEW s \in Seq(Events), NEW env
  PROVE  \E g : g \in StaleRuns(s, env)
<1>1. PICK n, A, a : /\ n = Len(s) /\ A = StaleStates
                     /\ a = [f \in EvFlags |-> [last |-> 0, variations |-> {}]]
  OBVIOUS
<1>2. n \in Nat /\ a \in A /\ \A k \in 1 .. n : s[k] \in Events
  BY <1>1 DEF StaleStates
<1>3. PICK d : d = [p \in A \X (1 .. n) |->
                      IF IsEval(s[p[2]], env) THEN NoteEval(p[1], s[p[2]]) ELSE p[1]]
  OBVIOUS
<1>4. d \in Bodies(n, A)
  <2>1. ASSUME NEW p \in A \X (1 .. n)
        PROVE  (IF IsEval(s[p[2]], env) THEN NoteEval(p[1], s[p[2]]) ELSE p[1]) \in A
    <3>1. p[1] \in A /\ p[2] \in 1 .. n
      OBVIOUS
    <3> QED
      BY <1>1, <1>2, <3>1, NoteType
  <2> QED
    BY <1>3, <2>1 DEF Bodies
<1>5. PICK g : g \in Runs(n, A, a, d)
  BY <1>2, <1>4, DefinedUpTo
<1>6. g \in [0 .. n -> A] /\ g[0] = a /\ \A k \in 1 .. n : g[k] = d[<<g[k - 1], k>>]
  BY <1>5 DEF Runs
<1>7. ASSUME NEW k \in 1 .. n
      PROVE  g[k] = IF IsEval(s[k], env) THEN NoteEval(g[k - 1], s[k]) ELSE g[k - 1]
  <2>1. k - 1 \in 0 .. n
    BY <1>2
  <2>2. PICK x : x = <<g[k - 1], k>>
    OBVIOUS
  <2>3. x \in A \X (1 .. n) /\ x[1] = g[k - 1] /\ x[2] = k
    BY <1>6, <2>1, <2>2
  <2>4. d[x] = IF IsEval(s[x[2]], env) THEN NoteEval(x[1], s[x[2]]) ELSE x[1]
    BY <1>3, <2>3
  <2> QED
    BY <1>6, <2>2, <2>3, <2>4
<1> QED
  BY <1>1, <1>6, <1>7 DEF StaleRuns

StaleReason(st, threshold) ==
  CASE st.last = 0 -> Nil
    [] st.last # 0 /\ st.last < threshold -> "no_evals_30d"
    [] st.last # 0 /\ st.last >= threshold /\ Cardinality(st.variations) <= 1 ->
         "single_variation"
    [] OTHER -> Nil

LEMMA StaleIs ==
  ASSUME NEW s \in Seq(Events), NEW env, NEW threshold
  PROVE  \E g \in StaleRuns(s, env) :
           \A f \in EvFlags :
             QueryStaleFlags(s, env, threshold)[f] = StaleReason(g[Len(s)][f], threshold)
<1> DEFINE n == Len(s)
           step(g, k) == IF k = 0 THEN [f \in EvFlags |-> [last |-> 0, variations |-> {}]]
                         ELSE IF IsEval(s[k], env)
                              THEN NoteEval(g[k - 1], s[k])
                              ELSE g[k - 1]
           state == CHOOSE g : g = [k \in 0 .. n |-> step(g, k)]
<1>0. n \in Nat
  OBVIOUS
<1>1. PICK h : h \in StaleRuns(s, env)
  BY StaleRunsExist
<1>2. h = [k \in 0 .. n |-> h[k]]
  BY <1>1 DEF StaleRuns
<1>3. ASSUME NEW k \in 0 .. n PROVE h[k] = step(h, k)
  <2>1. k = 0 \/ k \in 1 .. n
    BY <1>0
  <2> QED
    BY <1>1, <2>1 DEF StaleRuns
<1>4. h = [k \in 0 .. n |-> step(h, k)]
  <2> HIDE DEF step, n
  <2> QED
    BY <1>2, <1>3
<1>5. state = [k \in 0 .. n |-> step(state, k)]
  <2> HIDE DEF step, n
  <2> QED
    BY <1>4, Zenon
<1>6. \A f \in EvFlags :
        QueryStaleFlags(s, env, threshold)[f] = StaleReason(state[n][f], threshold)
  BY DEF QueryStaleFlags, StaleReason
<1> HIDE DEF state
<1>7. state = h
  <2> HIDE DEF n
  <2>1. state = [k \in 0 .. n |-> state[k]]
    <3> HIDE DEF step
    <3> QED
      BY <1>5
  <2>2. ASSUME NEW k \in 0 .. n PROVE state[k] = step(state, k) /\ h[k] = step(h, k)
    <3> HIDE DEF step
    <3> QED
      BY <1>3, <1>5
  <2>3. state[0] = h[0]
    <3>1. 0 \in 0 .. n
      BY <1>0
    <3> QED
      BY <2>2, <3>1
  <2>4. ASSUME NEW k \in 1 .. n, state[k - 1] = h[k - 1] PROVE state[k] = h[k]
    <3>1. k \in 0 .. n /\ k # 0
      BY <1>0
    <3> QED
      BY <2>2, <2>4, <3>1
  <2>5. Alike(n, state, h)
    BY <1>2, <2>1, <2>3, <2>4 DEF Alike
  <2> QED
    BY <1>0, <2>5, SameUpTo
<1> QED
  BY <1>1, <1>6, <1>7

\* The loop keeps the newest time and the variations of what it has read.
LEMMA StaleRunIs ==
  ASSUME NEW s \in Seq(Events), NEW env, NEW f \in EvFlags, NEW g \in StaleRuns(s, env)
  PROVE  StaleOf(g[Len(s)][f], Elements(s) \cap EvalEvents(env, f))
<1> DEFINE T == {k \in 0 .. Len(s) : StaleOf(g[k][f], Before(s, k) \cap EvalEvents(env, f))}
<1>0. Len(s) \in Nat
  OBVIOUS
<1>1. 0 \in T
  <2>1. g[0][f] = [last |-> 0, variations |-> {}]
    BY DEF StaleRuns
  <2>2. Before(s, 0) \cap EvalEvents(env, f) = {}
    BY BeforeStep
  <2>3. StaleOf([last |-> 0, variations |-> {}], {})
    BY DEF StaleOf
  <2>4. StaleOf(g[0][f], Before(s, 0) \cap EvalEvents(env, f))
    BY <2>1, <2>2, <2>3, Zenon
  <2> QED
    BY <1>0, <2>4
<1>2. ASSUME NEW m \in 0 .. Len(s), m \in T, m < Len(s) PROVE m + 1 \in T
  <2>1. PICK k : k = m + 1
    OBVIOUS
  <2>2. k \in 1 .. Len(s) /\ k \in 0 .. Len(s) /\ k - 1 = m
    BY <1>0, <1>2, <2>1
  <2>3. PICK x, P : x = s[k] /\ P = Before(s, m) \cap EvalEvents(env, f)
    OBVIOUS
  <2>4. Before(s, k) = Before(s, m) \cup {x} /\ x \in Events
    BY <2>2, <2>3, BeforeStep
  <2>5. x.time \in Int
    BY <2>4, IngestorAssumption
  <2>6. PICK st, p : st = g[m] /\ p = st[f]
    OBVIOUS
  <2>7. st \in StaleStates /\ StaleOf(p, P)
    BY <1>2, <2>3, <2>6 DEF StaleRuns
  <2>8. g[k] = IF IsEval(x, env) THEN NoteEval(st, x) ELSE st
    BY <2>2, <2>3, <2>6 DEF StaleRuns
  <2>9. CASE IsEval(x, env) /\ x.flag = f
    <3>1. g[k][f] = [last |-> IF x.time > p.last THEN x.time ELSE p.last,
                     variations |-> IF x.variation = Nil THEN p.variations
                                    ELSE p.variations \cup {x.variation}]
      BY <2>6, <2>7, <2>8, <2>9 DEF NoteEval, StaleStates
    <3>2. Before(s, k) \cap EvalEvents(env, f) = P \cup {x}
      BY <2>3, <2>4, <2>9 DEF EvalEvents
    <3>3. \A e \in P : e.time \in Int
      BY <2>3, IngestorAssumption DEF EvalEvents
    <3>4. PICK q : q = g[k][f]
      OBVIOUS
    <3>5. /\ q.last = IF x.time > p.last THEN x.time ELSE p.last
          /\ q.variations = IF x.variation = Nil THEN p.variations
                            ELSE p.variations \cup {x.variation}
      BY <3>1, <3>4
    <3>6. q.variations = {e.variation : e \in P \cup {x}} \ {Nil}
      BY <2>7, <3>5 DEF StaleOf
    <3>7. /\ q.last \in Int /\ q.last >= 0
          /\ \A e \in P \cup {x} : e.time <= q.last
          /\ q.last = 0 \/ \E e \in P \cup {x} : e.time = q.last
      BY <2>5, <2>7, <3>3, <3>5 DEF StaleOf
    <3>8. StaleOf(q, P \cup {x})
      BY <3>6, <3>7 DEF StaleOf
    <3> QED
      BY <2>1, <2>2, <3>2, <3>4, <3>8
  <2>10. CASE ~(IsEval(x, env) /\ x.flag = f)
    <3>1. g[k][f] = p
      BY <2>4, <2>6, <2>7, <2>8, <2>10, IngestorAssumption DEF NoteEval, StaleStates, IsEval
    <3>2. Before(s, k) \cap EvalEvents(env, f) = P
      BY <2>3, <2>4, <2>10 DEF EvalEvents
    <3> QED
      BY <2>1, <2>2, <2>7, <3>1, <3>2
  <2> QED
    BY <2>9, <2>10
<1> HIDE DEF T
<1>3. \A k \in 0 .. Len(s) : k \in T
  BY <1>0, <1>1, <1>2, UpTo
<1>4. Len(s) \in 0 .. Len(s) /\ Before(s, Len(s)) = Elements(s)
  BY <1>0, BeforeStep
<1> QED
  BY <1>3, <1>4 DEF T

\* The first loop of QueryConversions: who was exposed, and to which variation.
Exposing(env, since, f) == {e \in RecentEvents(env, since, f) : e.variation # Nil}
Exposures == [EvContexts -> EvVariations \cup {Nil}]
ExposureRuns(s, X) ==
  {g \in [0 .. Len(s) -> Exposures] :
     /\ g[0] = [c \in EvContexts |-> Nil]
     /\ \A k \in 1 .. Len(s) :
          g[k] = IF s[k] \in X THEN [g[k - 1] EXCEPT ![s[k].ctx] = s[k].variation] ELSE g[k - 1]}

\* m gives each context that an event of S exposes the variation of one of them.
ExposedBy(m, S) ==
  \A c \in EvContexts :
    /\ m[c] # Nil <=> c \in Ctxs(S)
    /\ m[c] # Nil => \E e \in S : e.ctx = c /\ e.variation = m[c]

LEMMA ExposingIs ==
  ASSUME NEW env, NEW since, NEW f, NEW x \in Events
  PROVE  /\ x \in Exposing(env, since, f) <=>
              IsEval(x, env) /\ x.flag = f /\ x.time >= since /\ x.variation # Nil
         /\ x \in Exposing(env, since, f) => x.ctx \in EvContexts /\ x.variation \in EvVariations
BY IngestorAssumption DEF Exposing, RecentEvents, EvalEvents, IsEval

LEMMA ExposureRunsExist ==
  ASSUME NEW s \in Seq(Events), NEW env, NEW since, NEW f
  PROVE  \E g : g \in ExposureRuns(s, Exposing(env, since, f))
<1>1. PICK n, A, a, X : /\ n = Len(s) /\ A = Exposures /\ a = [c \in EvContexts |-> Nil]
                        /\ X = Exposing(env, since, f)
  OBVIOUS
<1>2. n \in Nat /\ a \in A /\ \A k \in 1 .. n : s[k] \in Events
  BY <1>1 DEF Exposures
<1>3. PICK d : d = [p \in A \X (1 .. n) |->
                      IF s[p[2]] \in X THEN [p[1] EXCEPT ![s[p[2]].ctx] = s[p[2]].variation]
                      ELSE p[1]]
  OBVIOUS
<1>4. d \in Bodies(n, A)
  <2>1. ASSUME NEW p \in A \X (1 .. n)
        PROVE  (IF s[p[2]] \in X THEN [p[1] EXCEPT ![s[p[2]].ctx] = s[p[2]].variation]
                ELSE p[1]) \in A
    <3>1. p[1] \in A /\ p[2] \in 1 .. n
      OBVIOUS
    <3>2. PICK x, m : x = s[p[2]] /\ m = p[1]
      OBVIOUS
    <3>3. x \in X => x.ctx \in EvContexts /\ x.variation \in EvVariations
      BY <1>1, <1>2, <3>1, <3>2, ExposingIs
    <3>4. x \in X => [m EXCEPT ![x.ctx] = x.variation] \in A
      BY <1>1, <3>1, <3>2, <3>3 DEF Exposures
    <3> QED
      BY <3>1, <3>2, <3>4
  <2> QED
    BY <1>3, <2>1 DEF Bodies
<1>5. PICK g : g \in Runs(n, A, a, d)
  BY <1>2, <1>4, DefinedUpTo
<1>6. g \in [0 .. n -> A] /\ g[0] = a /\ \A k \in 1 .. n : g[k] = d[<<g[k - 1], k>>]
  BY <1>5 DEF Runs
<1>7. ASSUME NEW k \in 1 .. n
      PROVE  g[k] = IF s[k] \in X THEN [g[k - 1] EXCEPT ![s[k].ctx] = s[k].variation]
                    ELSE g[k - 1]
  <2>1. k - 1 \in 0 .. n
    BY <1>2
  <2>2. PICK x : x = <<g[k - 1], k>>
    OBVIOUS
  <2>3. x \in A \X (1 .. n) /\ x[1] = g[k - 1] /\ x[2] = k
    BY <1>6, <2>1, <2>2
  <2>4. d[x] = IF s[x[2]] \in X THEN [x[1] EXCEPT ![s[x[2]].ctx] = s[x[2]].variation] ELSE x[1]
    BY <1>3, <2>3
  <2> QED
    BY <1>6, <2>2, <2>3, <2>4
<1> QED
  BY <1>1, <1>6, <1>7 DEF ExposureRuns

LEMMA ExposureRunIs ==
  ASSUME NEW s \in Seq(Events), NEW env, NEW since, NEW f,
         NEW g \in ExposureRuns(s, Exposing(env, since, f))
  PROVE  g[Len(s)] \in Exposures /\ ExposedBy(g[Len(s)], Elements(s) \cap Exposing(env, since, f))
<1>1. PICK X : X = Exposing(env, since, f)
  OBVIOUS
<1> DEFINE T == {k \in 0 .. Len(s) : ExposedBy(g[k], Before(s, k) \cap X)}
<1>0. Len(s) \in Nat /\ g \in [0 .. Len(s) -> Exposures]
  BY DEF ExposureRuns
<1>2. 0 \in T
  <2>1. g[0] = [c \in EvContexts |-> Nil] /\ Before(s, 0) \cap X = {} /\ Ctxs({}) = {}
    BY BeforeStep DEF ExposureRuns, Ctxs
  <2> QED
    BY <1>0, <2>1 DEF ExposedBy
<1>3. ASSUME NEW j \in 0 .. Len(s), j \in T, j < Len(s) PROVE j + 1 \in T
  <2>1. PICK k : k = j + 1
    OBVIOUS
  <2>2. k \in 1 .. Len(s) /\ k \in 0 .. Len(s) /\ k - 1 = j
    BY <1>0, <1>3, <2>1
  <2>3. PICK x, P, m : x = s[k] /\ P = Before(s, j) \cap X /\ m = g[j]
    OBVIOUS
  <2>4. Before(s, k) = Before(s, j) \cup {x} /\ x \in Events
    BY <2>2, <2>3, BeforeStep
  <2>5. m \in Exposures /\ ExposedBy(m, P)
    BY <1>0, <1>3, <2>3
  <2>6. g[k] = IF x \in X THEN [m EXCEPT ![x.ctx] = x.variation] ELSE m
    BY <1>1, <2>2, <2>3 DEF ExposureRuns
  <2>7. CASE x \in X
    <3>1. x.ctx \in EvContexts /\ x.variation # Nil
      BY <1>1, <2>4, <2>7, ExposingIs
    <3>2. PICK q : q = g[k]
      OBVIOUS
    <3>3. q[x.ctx] = x.variation /\ \A c \in EvContexts \ {x.ctx} : q[c] = m[c]
      BY <2>5, <2>6, <2>7, <3>1, <3>2 DEF Exposures
    <3>4. Before(s, k) \cap X = P \cup {x}
      BY <2>3, <2>4, <2>7
    <3>5. Ctxs(P \cup {x}) = Ctxs(P) \cup {x.ctx}
      BY DEF Ctxs
    <3>6. ExposedBy(q, P \cup {x})
      BY <2>5, <3>1, <3>3, <3>5 DEF ExposedBy
    <3> QED
      BY <2>1, <2>2, <3>2, <3>4, <3>6
  <2>8. CASE x \notin X
    <3>1. Before(s, k) \cap X = P
      BY <2>3, <2>4, <2>8
    <3> QED
      BY <2>1, <2>2, <2>5, <2>6, <2>8, <3>1
  <2> QED
    BY <2>7, <2>8
<1> HIDE DEF T
<1>4. \A k \in 0 .. Len(s) : k \in T
  BY <1>0, <1>2, <1>3, UpTo
<1>5. Len(s) \in 0 .. Len(s) /\ Before(s, Len(s)) = Elements(s)
  BY <1>0, BeforeStep
<1> QED
  BY <1>0, <1>1, <1>4, <1>5 DEF T

LEMMA CtxToVarIs ==
  ASSUME NEW s \in Seq(Events), NEW env, NEW since, NEW f
  PROVE  /\ CtxToVar(s, env, f, since) \in Exposures
         /\ ExposedBy(CtxToVar(s, env, f, since), Elements(s) \cap Exposing(env, since, f))
<1> DEFINE n == Len(s)
           step(g, k) == IF k = 0 THEN [c \in EvContexts |-> Nil]
                         ELSE IF /\ IsEval(s[k], env) /\ s[k].flag = f
                                 /\ s[k].time >= since /\ s[k].variation # Nil
                              THEN [g[k - 1] EXCEPT ![s[k].ctx] = s[k].variation]
                              ELSE g[k - 1]
           ctxToVar == CHOOSE g : g = [k \in 0 .. n |-> step(g, k)]
<1>0. n \in Nat /\ \A k \in 1 .. n : s[k] \in Events
  OBVIOUS
<1>1. PICK h : h \in ExposureRuns(s, Exposing(env, since, f))
  BY ExposureRunsExist
<1>2. h = [k \in 0 .. n |-> h[k]]
  BY <1>1 DEF ExposureRuns
<1>3. ASSUME NEW k \in 0 .. n PROVE h[k] = step(h, k)
  <2>1. k = 0 \/ k \in 1 .. n
    BY <1>0
  <2>2. CASE k = 0
    BY <1>1, <2>2 DEF ExposureRuns
  <2>3. CASE k \in 1 .. n
    <3>1. s[k] \in Exposing(env, since, f) <=>
            IsEval(s[k], env) /\ s[k].flag = f /\ s[k].time >= since /\ s[k].variation # Nil
      BY <1>0, <2>3, ExposingIs
    <3>2. k # 0
      BY <1>0, <2>3
    <3> QED
      BY <1>1, <2>3, <3>1, <3>2 DEF ExposureRuns
  <2> QED
    BY <2>1, <2>2, <2>3
<1>4. h = [k \in 0 .. n |-> step(h, k)]
  <2> HIDE DEF step, n
  <2> QED
    BY <1>2, <1>3
<1>5. ctxToVar = [k \in 0 .. n |-> step(ctxToVar, k)]
  <2> HIDE DEF step, n
  <2> QED
    BY <1>4, Zenon
<1>6. CtxToVar(s, env, f, since) = ctxToVar[n]
  BY DEF CtxToVar
<1> HIDE DEF ctxToVar
<1>7. ctxToVar = h
  <2> HIDE DEF n
  <2>1. ctxToVar = [k \in 0 .. n |-> ctxToVar[k]]
    <3> HIDE DEF step
    <3> QED
      BY <1>5
  <2>2. ASSUME NEW k \in 0 .. n PROVE ctxToVar[k] = step(ctxToVar, k) /\ h[k] = step(h, k)
    <3> HIDE DEF step
    <3> QED
      BY <1>3, <1>5
  <2>3. ctxToVar[0] = h[0]
    <3>1. 0 \in 0 .. n
      BY <1>0
    <3> QED
      BY <2>2, <3>1
  <2>4. ASSUME NEW k \in 1 .. n, ctxToVar[k - 1] = h[k - 1] PROVE ctxToVar[k] = h[k]
    <3>1. k \in 0 .. n /\ k # 0
      BY <1>0
    <3> QED
      BY <2>2, <2>4, <3>1
  <2>5. Alike(n, ctxToVar, h)
    BY <1>2, <2>1, <2>3, <2>4 DEF Alike
  <2> QED
    BY <1>0, <2>5, SameUpTo
<1>8. CtxToVar(s, env, f, since) = h[Len(s)]
  BY <1>6, <1>7
<1> QED
  BY <1>1, <1>8, ExposureRunIs

\* The second loop of QueryConversions: the events of the metric, by variation.
MetricOf(env, metric, since) ==
  {e \in Events : e.kind = "custom" /\ e.metric = metric /\ e.env = env /\ e.time >= since}
ConvertedAt(s, M, m, k) ==
  [v \in EvVariations |-> Cardinality(Before(s, k) \cap {e \in M : m[e.ctx] = v})]

LEMMA ConvertedStep ==
  ASSUME NEW s \in Seq(Events), NoRepeats(s), NEW k \in 1 .. Len(s), NEW M, NEW m \in Exposures
  PROVE  ConvertedAt(s, M, m, k) =
           IF s[k] \in M /\ m[s[k].ctx] # Nil
             THEN [ConvertedAt(s, M, m, k - 1) EXCEPT ![m[s[k].ctx]] = @ + 1]
             ELSE ConvertedAt(s, M, m, k - 1)
<1>1. PICK x, p, V : /\ x = s[k] /\ p = ConvertedAt(s, M, m, k - 1)
                     /\ V = [v \in EvVariations |-> {e \in M : m[e.ctx] = v}]
  OBVIOUS
<1>2. x.ctx \in EvContexts
  BY <1>1, BeforeStep, IngestorAssumption
<1>3. m[x.ctx] \in EvVariations \cup {Nil} /\ Nil \notin EvVariations
  BY <1>2, IngestorAssumption DEF Exposures
<1>4. /\ p = [v \in EvVariations |-> Cardinality(Before(s, k - 1) \cap V[v])]
      /\ ConvertedAt(s, M, m, k) = [v \in EvVariations |-> Cardinality(Before(s, k) \cap V[v])]
  BY <1>1 DEF ConvertedAt
<1>5. ASSUME NEW v \in EvVariations
      PROVE  Cardinality(Before(s, k) \cap V[v]) =
               (IF x \in M /\ m[x.ctx] = v THEN p[v] + 1 ELSE p[v])
  <2>1. x \in V[v] <=> x \in M /\ m[x.ctx] = v
    BY <1>1
  <2>2. p[v] = Cardinality(Before(s, k - 1) \cap V[v])
    BY <1>4
  <2>3. CountsUp(s, k, V[v])
    BY CountStep, Zenon
  <2> QED
    BY <1>1, <2>1, <2>2, <2>3 DEF CountsUp
<1>6. CASE x \in M /\ m[x.ctx] # Nil
  <2>1. PICK w : w = m[x.ctx]
    OBVIOUS
  <2>2. ConvertedAt(s, M, m, k) = [p EXCEPT ![w] = @ + 1]
    BY <1>3, <1>4, <1>5, <1>6, <2>1
  <2> QED
    BY <1>1, <1>6, <2>1, <2>2
<1>7. CASE ~(x \in M /\ m[x.ctx] # Nil)
  <2>1. ConvertedAt(s, M, m, k) = p
    BY <1>3, <1>4, <1>5, <1>7
  <2> QED
    BY <1>1, <1>7, <2>1
<1> QED
  BY <1>6, <1>7

LEMMA ConversionsAre ==
  ASSUME NEW s \in Seq(Events), NoRepeats(s), NEW env, NEW f, NEW metric, NEW since
  PROVE  QueryConversions(s, env, f, metric, since) =
           ConvertedAt(s, MetricOf(env, metric, since), CtxToVar(s, env, f, since), Len(s))
<1>1. PICK m, M : m = CtxToVar(s, env, f, since) /\ M = MetricOf(env, metric, since)
  OBVIOUS
<1> DEFINE n == Len(s)
           step(g, k) == IF k = 0 THEN [v \in EvVariations |-> 0]
                         ELSE IF /\ s[k].kind = "custom" /\ s[k].metric = metric /\ s[k].env = env
                                 /\ s[k].time >= since /\ m[s[k].ctx] # Nil
                              THEN [g[k - 1] EXCEPT ![m[s[k].ctx]] = @ + 1]
                              ELSE g[k - 1]
           result == CHOOSE g : g = [k \in 0 .. n |-> step(g, k)]
<1>0. n \in Nat /\ m \in Exposures /\ \A k \in 1 .. n : s[k] \in Events
  <2>1. m \in Exposures
    BY <1>1, CtxToVarIs, Zenon
  <2> QED
    BY <2>1
<1>2. PICK h : h = [k \in 0 .. n |-> ConvertedAt(s, M, m, k)]
  OBVIOUS
<1>3. ASSUME NEW k \in 0 .. n PROVE h[k] = step(h, k)
  <2>1. CASE k = 0
    <3>1. \A T : Before(s, 0) \cap T = {}
      BY BeforeStep
    <3>2. \A T : Cardinality(Before(s, 0) \cap T) = 0
      BY <3>1, FS_EmptySet
    <3> QED
      BY <1>2, <2>1, <3>2 DEF ConvertedAt
  <2>2. CASE k # 0
    <3>1. k \in 1 .. n /\ k - 1 \in 0 .. n
      BY <1>0, <2>2
    <3>2. h[k] = ConvertedAt(s, M, m, k) /\ h[k - 1] = ConvertedAt(s, M, m, k - 1)
      BY <1>2, <3>1
    <3>3. s[k] \in M <=> /\ s[k].kind = "custom" /\ s[k].metric = metric /\ s[k].env = env
                         /\ s[k].time >= since
      BY <1>0, <1>1, <3>1 DEF MetricOf
    <3>4. h[k] = IF s[k] \in M /\ m[s[k].ctx] # Nil
                 THEN [h[k - 1] EXCEPT ![m[s[k].ctx]] = @ + 1] ELSE h[k - 1]
      BY <1>0, <3>1, <3>2, ConvertedStep
    <3> QED
      BY <2>2, <3>3, <3>4
  <2> QED
    BY <2>1, <2>2
<1>4. h = [k \in 0 .. n |-> step(h, k)]
  <2> HIDE DEF step, n
  <2> QED
    BY <1>2, <1>3
<1>5. result = [k \in 0 .. n |-> step(result, k)]
  <2> HIDE DEF step, n
  <2> QED
    BY <1>4, Zenon
<1>6. QueryConversions(s, env, f, metric, since) = result[n]
  BY <1>1 DEF QueryConversions
<1> HIDE DEF result
<1>7. result = h
  <2> HIDE DEF n
  <2>1. result = [k \in 0 .. n |-> result[k]] /\ h = [k \in 0 .. n |-> h[k]]
    <3> HIDE DEF step
    <3> QED
      BY <1>2, <1>5
  <2>2. ASSUME NEW k \in 0 .. n PROVE result[k] = step(result, k) /\ h[k] = step(h, k)
    <3> HIDE DEF step
    <3> QED
      BY <1>3, <1>5
  <2>3. result[0] = h[0]
    <3>1. 0 \in 0 .. n
      BY <1>0
    <3> QED
      BY <2>2, <3>1
  <2>4. ASSUME NEW k \in 1 .. n, result[k - 1] = h[k - 1] PROVE result[k] = h[k]
    <3>1. k \in 0 .. n /\ k # 0
      BY <1>0
    <3> QED
      BY <2>2, <2>4, <3>1
  <2>5. Alike(n, result, h)
    BY <2>1, <2>3, <2>4 DEF Alike
  <2> QED
    BY <1>0, <2>5, SameUpTo
<1> QED
  BY <1>0, <1>1, <1>2, <1>6, <1>7

\* The three parts of QueriesAgree.
LEMMA EvalsAre ==
  ASSUME stored \in Seq(Events), NEW env, NEW f
  PROVE  /\ Elements(stored) \subseteq Events
         /\ EvalsOf(env, f) = Elements(stored) \cap EvalEvents(env, f)
         /\ \A since : RecentOf(env, since, f) = Elements(stored) \cap RecentEvents(env, since, f)
<1>1. Elements(stored) \subseteq Events
  BY DEF Elements
<1> QED
  BY <1>1 DEF EvalsOf, RecentOf, EvalEvents, RecentEvents

LEMMA InsightsOk ==
  ASSUME stored \in Seq(Events), NoRepeats(stored), NEW env, NEW since, NEW f \in EvFlags
  PROVE  InsightAgrees(env, since, f)
<1>1. PICK s, R, fi, recent :
        /\ s = stored /\ R = RecentEvents(env, since, f)
        /\ fi = QueryFlagInsights(stored, env, since)[f] /\ recent = RecentOf(env, since, f)
  OBVIOUS
<1>2. QueryFlagInsights(s, env, since) = InsightsAt(s, env, since, Len(s))
  BY <1>1, InsightsAre
<1>3. fi = InsightOf(s, Len(s), R)
  BY <1>1, <1>2 DEF InsightsAt
<1>4. Before(s, Len(s)) = Elements(s) /\ recent = Elements(s) \cap R
  BY <1>1, BeforeStep, EvalsAre
<1>5. /\ fi.total = Cardinality(Elements(s) \cap R)
      /\ fi.unique = Cardinality(Ctxs(Elements(s) \cap R))
      /\ \A v \in EvVariations :
           fi.counts[v] = Cardinality(Elements(s) \cap {e \in R : e.variation = v})
  BY <1>3, <1>4 DEF InsightOf
<1>6. Ctxs(recent) = {e.ctx : e \in recent}
  BY DEF Ctxs
<1>7. \A v : Elements(s) \cap {e \in R : e.variation = v} = {e \in recent : e.variation = v}
  BY <1>4
<1>8. \A v \in EvVariations : fi.counts[v] = Cardinality({e \in recent : e.variation = v})
  BY <1>5, <1>7
<1>9. fi.total = Cardinality(recent) /\ fi.unique = Cardinality({e.ctx : e \in recent})
  BY <1>4, <1>5, <1>6
<1> QED
  BY <1>1, <1>8, <1>9, Zenon DEF InsightAgrees

LEMMA StaleOk ==
  ASSUME stored \in Seq(Events), NEW env, NEW since \in Int, NEW f \in EvFlags
  PROVE  StaleAgrees(env, since, f)
<1>1. PICK s, q, evals, recent, V :
        /\ s = stored /\ q = QueryStaleFlags(stored, env, since)[f]
        /\ evals = EvalsOf(env, f) /\ recent = RecentOf(env, since, f)
        /\ V = {e.variation : e \in EvalsOf(env, f)} \ {Nil}
  OBVIOUS
<1>2. evals = Elements(s) \cap EvalEvents(env, f) /\ recent = {e \in evals : e.time >= since}
  BY <1>1, EvalsAre DEF RecentOf
<1>3. PICK g \in StaleRuns(s, env) : q = StaleReason(g[Len(s)][f], since)
  BY <1>1, StaleIs
<1>4. PICK st : st = g[Len(s)][f]
  OBVIOUS
<1>5. StaleOf(st, evals)
  BY <1>1, <1>2, <1>4, StaleRunIs
<1>6. \A e \in evals : e.time \in Int
  BY <1>2, IngestorAssumption DEF EvalEvents
<1>7. st.last # 0 <=> \E e \in evals : e.time > 0
  BY <1>5, <1>6 DEF StaleOf
<1>8. st.last # 0 => (st.last < since <=> recent = {})
  BY <1>2, <1>5, <1>6 DEF StaleOf
<1>9. st.last \in Int /\ st.variations = V
  BY <1>1, <1>5 DEF StaleOf
<1>10. Nil # "no_evals_30d" /\ Nil # "single_variation"
  BY IngestorAssumption
<1>11. q = CASE st.last = 0 -> Nil
             [] st.last # 0 /\ st.last < since -> "no_evals_30d"
             [] st.last # 0 /\ st.last >= since /\ Cardinality(V) <= 1 -> "single_variation"
             [] OTHER -> Nil
  BY <1>3, <1>4, <1>9 DEF StaleReason
<1>12. /\ q = "no_evals_30d" <=> st.last # 0 /\ st.last < since
       /\ q = "single_variation" <=> st.last # 0 /\ ~(st.last < since) /\ Cardinality(V) <= 1
  <2>1. CASE st.last = 0
    BY <1>10, <1>11, <2>1
  <2>2. CASE st.last # 0 /\ st.last < since
    BY <1>9, <1>11, <2>2
  <2>3. CASE st.last # 0 /\ st.last >= since /\ Cardinality(V) <= 1
    BY <1>9, <1>11, <2>3
  <2>4. CASE st.last # 0 /\ st.last >= since /\ ~(Cardinality(V) <= 1)
    BY <1>9, <1>10, <1>11, <2>4
  <2> QED
    BY <1>9, <2>1, <2>2, <2>3, <2>4
<1>13. /\ q = "no_evals_30d" <=> (\E e \in evals : e.time > 0) /\ recent = {}
       /\ q = "single_variation" <=>
            (\E e \in evals : e.time > 0) /\ recent # {} /\ Cardinality(V) <= 1
  BY <1>7, <1>8, <1>12, Zenon
<1> QED
  BY <1>1, <1>13, Zenon DEF StaleAgrees

LEMMA ConversionsOk ==
  ASSUME stored \in Seq(Events), NoRepeats(stored), NEW env, NEW since, NEW f \in EvFlags
  PROVE  ConversionsAgree(env, since, f)
<1>1. PICK s, S, w, exposed :
        /\ s = stored /\ S = Elements(stored) \cap Exposing(env, since, f)
        /\ w = CtxToVar(stored, env, f, since) /\ exposed = ExposedTo(env, since, f)
  OBVIOUS
<1>2. Elements(s) \subseteq Events /\ \A e : e \in S => e \in RecentOf(env, since, f)
  BY <1>1, EvalsAre DEF Exposing
<1>3. w \in Exposures /\ ExposedBy(w, S)
  BY <1>1, CtxToVarIs, Zenon
<1>4. exposed = Ctxs(S)
  <2>1. PICK R : R = RecentOf(env, since, f)
    OBVIOUS
  <2>2. R = Elements(stored) \cap RecentEvents(env, since, f)
    BY <2>1, EvalsAre
  <2>3. S = {x \in R : x.variation # Nil}
    BY <1>1, <2>2 DEF Exposing
  <2> QED
    BY <1>1, <2>1, <2>3 DEF Ctxs, ExposedTo
<1>5. \A c \in exposed : c \in EvContexts /\ w[c] # Nil
  <2>1. \A e \in S : e.ctx \in EvContexts
    BY <1>1, <1>2, IngestorAssumption
  <2> QED
    BY <1>3, <1>4, <2>1 DEF Ctxs, ExposedBy
<1>6. PICK last : last = [c \in exposed |-> w[c]]
  OBVIOUS
<1>7. last \in [exposed -> EvVariations] /\ DOMAIN last = exposed
  BY <1>3, <1>5, <1>6 DEF Exposures
<1>8. ASSUME NEW c \in DOMAIN last
      PROVE  \E e \in RecentOf(env, since, f) : e.ctx = c /\ e.variation = last[c]
  <2>1. PICK e \in S : e.ctx = c /\ e.variation = w[c]
    BY <1>3, <1>5, <1>7 DEF ExposedBy
  <2> QED
    BY <1>2, <1>6, <1>7, <2>1
<1>9. ASSUME NEW m, NEW v \in EvVariations
      PROVE  QueryConversions(stored, env, f, m, since)[v] =
               Cardinality(ConvertedTo(env, since, m, last, v))
  <2>1. PICK M : M = MetricOf(env, m, since)
    OBVIOUS
  <2>2. QueryConversions(s, env, f, m, since) = ConvertedAt(s, M, w, Len(s))
    BY <1>1, <2>1, ConversionsAre
  <2>3. Before(s, Len(s)) = Elements(s)
    BY <1>1, BeforeStep
  <2>4. QueryConversions(s, env, f, m, since)[v] =
          Cardinality(Elements(s) \cap {e \in M : w[e.ctx] = v})
    BY <2>2, <2>3 DEF ConvertedAt
  <2>5. ASSUME NEW e \in Elements(s)
        PROVE  w[e.ctx] = v <=> e.ctx \in exposed /\ last[e.ctx] = v
    <3>1. e.ctx \in EvContexts /\ v # Nil
      BY <1>2, IngestorAssumption
    <3>2. w[e.ctx] # Nil <=> e.ctx \in exposed
      BY <1>3, <1>4, <3>1 DEF ExposedBy
    <3> QED
      BY <1>6, <3>1, <3>2
  <2>6. Elements(s) \cap {e \in M : w[e.ctx] = v} = ConvertedTo(env, since, m, last, v)
    BY <1>1, <1>2, <1>7, <2>1, <2>5 DEF MetricOf, ConvertedTo
  <2> QED
    BY <1>1, <2>4, <2>6
<1>10. \A m \in {e.metric : e \in Events}, v \in EvVariations :
         QueryConversions(stored, env, f, m, since)[v] =
           Cardinality(ConvertedTo(env, since, m, last, v))
  BY <1>9, Zenon
<1>11. \A c \in DOMAIN last :
         \E e \in RecentOf(env, since, f) : e.ctx = c /\ e.variation = last[c]
  BY <1>8, Zenon
<1>12. last \in [ExposedTo(env, since, f) -> EvVariations]
  BY <1>1, <1>7
<1> QED
  BY <1>10, <1>11, <1>12, Zenon DEF ConversionsAgree

\* What the queries answer does not depend on how the batches overtook each
\* other (internal/analytics/memstore.go:26-157), for any events and any number
\* of goroutines that flush.
THEOREM QueriesAgreeAlways == IngestorSpec => []QueriesAgree
<1>1. IngestorInit => OnePlace
  <2> SUFFICES ASSUME IngestorInit PROVE OnePlace
    OBVIOUS
  <2>1. buf = <<>> /\ stored = <<>> /\ \A a \in Actors : batch[a] = <<>>
    BY DEF IngestorInit
  <2> QED
    BY <2>1, NoRepeatsEmpty, ElementsEmpty DEF OnePlace, Disjoint
<1>2. IngestorInv /\ OnePlace => QueriesAgree
  <2> SUFFICES ASSUME stored \in Seq(Events), NoRepeats(stored) PROVE QueriesAgree
    BY DEF IngestorInv, IngestorTypeOK, OnePlace
  <2>1. \A t \in {e.time : e \in Events} : t \in Int
    BY IngestorAssumption
  <2> QED
    BY <2>1, InsightsOk, StaleOk, ConversionsOk DEF QueriesAgree
<1>3. IngestorInv /\ OnePlace /\ [IngestorNext]_ingestorVars => OnePlace'
  BY OnePlaceNext
<1> QED
  BY IngestorInitInv, IngestorNextInv, <1>1, <1>2, <1>3, PTL DEF IngestorSpec

-----------------------------------------------------------------------------
(***************************************************************************)
(* Users and refresh tokens.                                                *)
(***************************************************************************)
Refreshes == [user : {Admin, NoUser}, root : Tokens \cup {NoToken}]

\* Who holds a session was issued in it: a live token was issued, and a session
\* that goes on began with an issued token.  So a new token holds nothing yet
\* and begins a session that nobody holds.
HoldersAreIssued ==
  /\ \A t \in Tokens : live[t] # NoUser => t \in spent /\ root[t] \in spent
  /\ \A r \in Refreshers : refresh[r] # NoRefresh => refresh[r].root \in spent

SessionsInv == SessionsTypeOK /\ HoldersAreIssued /\ SessionsNeverFork

\* The holders of a session, one kind at a time.
LEMMA ForkFree ==
  SessionsNeverFork <=>
    \A s \in Tokens :
      /\ \A t, u \in Tokens :
           live[t] # NoUser /\ root[t] = s /\ live[u] # NoUser /\ root[u] = s => t = u
      /\ \A q, r \in Refreshers :
           /\ refresh[q] # NoRefresh /\ refresh[q].root = s
           /\ refresh[r] # NoRefresh /\ refresh[r].root = s
           => q = r
      /\ \A t \in Tokens, r \in Refreshers :
           ~(/\ live[t] # NoUser /\ root[t] = s
             /\ refresh[r] # NoRefresh /\ refresh[r].root = s)
<1>1. \A t \in Tokens, r \in Refreshers : t # r
  BY SessionsAssumption
<1> QED
  BY <1>1 DEF SessionsNeverFork, Holders

LEMMA ForkFreeNext ==
  SessionsNeverFork' <=>
    \A s \in Tokens :
      /\ \A t, u \in Tokens :
           live'[t] # NoUser /\ root'[t] = s /\ live'[u] # NoUser /\ root'[u] = s => t = u
      /\ \A q, r \in Refreshers :
           /\ refresh'[q] # NoRefresh /\ refresh'[q].root = s
           /\ refresh'[r] # NoRefresh /\ refresh'[r].root = s
           => q = r
      /\ \A t \in Tokens, r \in Refreshers :
           ~(/\ live'[t] # NoUser /\ root'[t] = s
             /\ refresh'[r] # NoRefresh /\ refresh'[r].root = s)
<1>1. \A t \in Tokens, r \in Refreshers : t # r
  BY SessionsAssumption
<1> QED
  BY <1>1 DEF SessionsNeverFork, Holders

LEMMA SessionsInitInv == SessionsInit => SessionsInv
BY SessionsAssumption
   DEF SessionsInit, SessionsInv, SessionsTypeOK, HoldersAreIssued, SessionsNeverFork, Holders,
       NoRefresh

\* Issuing a token in session s, when nobody holds s any more.
LEMMA IssueInv ==
  ASSUME NEW t \in Tokens, NEW s \in Tokens, s \in spent \/ s = t,
         SessionsInv, IssueRefreshToken(t, Admin, s),
         \A u \in Tokens : ~(live[u] # NoUser /\ root[u] = s),
         \A r \in Refreshers : ~(refresh'[r] # NoRefresh /\ refresh'[r].root = s),
         \A r \in Refreshers : refresh'[r] = refresh[r] \/ refresh'[r] = NoRefresh,
         SessionsTypeOK'
  PROVE  SessionsInv'
<1>1. /\ live' = [live EXCEPT ![t] = Admin] /\ root' = [root EXCEPT ![t] = s]
      /\ spent' = spent \cup {t} /\ t \notin spent
  BY DEF IssueRefreshToken
<1>2. \A u \in Tokens \ {t} : live'[u] = live[u] /\ root'[u] = root[u]
  BY <1>1 DEF SessionsInv, SessionsTypeOK
<1>3. live'[t] = Admin /\ root'[t] = s
  BY <1>1 DEF SessionsInv, SessionsTypeOK
<1>4. HoldersAreIssued'
  BY <1>1, <1>2, <1>3 DEF SessionsInv, HoldersAreIssued, NoRefresh
<1>5. SessionsNeverFork'
  BY <1>1, <1>2, <1>3, ForkFree, ForkFreeNext DEF SessionsInv, HoldersAreIssued
<1> QED
  BY <1>4, <1>5 DEF SessionsInv

LEMMA LoginInv ==
  ASSUME NEW t \in Tokens, SessionsInv, authLogin(t) PROVE SessionsInv'
<1>1. IssueRefreshToken(t, Admin, t) /\ UNCHANGED <<durable, users, expired, refresh>>
  BY DEF authLogin
<1>2. t \notin spent
  BY <1>1 DEF IssueRefreshToken
<1>3. \A u \in Tokens : ~(live[u] # NoUser /\ root[u] = t)
  BY <1>2 DEF SessionsInv, HoldersAreIssued
<1>4. \A r \in Refreshers : ~(refresh'[r] # NoRefresh /\ refresh'[r].root = t)
  BY <1>1, <1>2 DEF SessionsInv, HoldersAreIssued, NoRefresh
<1>5. SessionsTypeOK'
  BY <1>1 DEF SessionsInv, SessionsTypeOK, IssueRefreshToken
<1>6. \A r \in Refreshers : refresh'[r] = refresh[r]
  BY <1>1
<1> QED
  BY <1>1, <1>3, <1>4, <1>5, <1>6, IssueInv

LEMMA FinishInv ==
  ASSUME NEW r \in Refreshers, NEW t \in Tokens, SessionsInv, FinishRefresh(r, t)
  PROVE  SessionsInv'
<1> DEFINE s == refresh[r].root
<1>1. refresh[r].user = Admin
  BY DEF FinishRefresh, SessionsInv, SessionsTypeOK
<1>2. IssueRefreshToken(t, Admin, s) /\ refresh' = [refresh EXCEPT ![r] = NoRefresh]
        /\ UNCHANGED <<durable, users, expired>>
  BY <1>1 DEF FinishRefresh
<1>3. refresh[r] # NoRefresh
  BY <1>1, SessionsAssumption DEF NoRefresh
<1>4. s \in spent /\ s \in Tokens
  BY <1>3 DEF SessionsInv, SessionsTypeOK, HoldersAreIssued
<1>5. \A u \in Tokens : ~(live[u] # NoUser /\ root[u] = s)
  BY <1>3, <1>4, ForkFree DEF SessionsInv
<1>6. /\ refresh'[r] = NoRefresh
      /\ \A q \in Refreshers \ {r} : refresh'[q] = refresh[q]
  BY <1>2 DEF SessionsInv, SessionsTypeOK
<1>7. \A q \in Refreshers : ~(refresh'[q] # NoRefresh /\ refresh'[q].root = s)
  BY <1>3, <1>4, <1>6, ForkFree DEF SessionsInv
<1>8. \A q \in Refreshers : refresh'[q] = refresh[q] \/ refresh'[q] = NoRefresh
  BY <1>6
<1>9. SessionsTypeOK'
  <2>1. NoRefresh \in Refreshes
    BY DEF NoRefresh, Refreshes
  <2>2. refresh' \in [Refreshers -> Refreshes]
    BY <1>2, <2>1 DEF SessionsInv, SessionsTypeOK, Refreshes
  <2> HIDE DEF s
  <2> QED
    BY <1>2, <1>4, <2>2 DEF SessionsInv, SessionsTypeOK, IssueRefreshToken, Refreshes
<1> HIDE DEF s
<1> QED
  BY <1>2, <1>4, <1>5, <1>7, <1>8, <1>9, IssueInv

\* The request takes the place of the token that it used up.
LEMMA ValidateInv ==
  ASSUME NEW r \in Refreshers, NEW t \in Tokens, SessionsInv, ValidateRefreshToken(r, t)
  PROVE  SessionsInv'
<1>1. /\ live' = [live EXCEPT ![t] = NoUser] /\ t \in spent
      /\ UNCHANGED <<durable, users, expired, spent, root>>
      /\ refresh[r] = NoRefresh
      /\ refresh' = [refresh EXCEPT ![r] = IF live[t] = NoUser \/ t \in expired THEN NoRefresh
                                           ELSE [user |-> live[t], root |-> root[t]]]
  BY DEF ValidateRefreshToken
<1>2. /\ live'[t] = NoUser
      /\ \A u \in Tokens \ {t} : live'[u] = live[u]
      /\ \A q \in Refreshers \ {r} : refresh'[q] = refresh[q]
  BY <1>1 DEF SessionsInv, SessionsTypeOK
<1>3. /\ refresh'[r] \in Refreshes
      /\ \/ refresh'[r] = NoRefresh
         \/ live[t] # NoUser /\ refresh'[r].root = root[t]
  BY <1>1 DEF SessionsInv, SessionsTypeOK, Refreshes, NoRefresh
<1>4. SessionsTypeOK'
  <2>1. refresh' \in [Refreshers -> Refreshes]
    BY <1>1, <1>3 DEF SessionsInv, SessionsTypeOK, Refreshes
  <2> QED
    BY <1>1, <2>1 DEF SessionsInv, SessionsTypeOK, Refreshes
<1>5. HoldersAreIssued'
  BY <1>1, <1>2, <1>3 DEF SessionsInv, HoldersAreIssued, NoRefresh
<1>6. SessionsNeverFork'
  BY <1>1, <1>2, <1>3, ForkFree, ForkFreeNext DEF SessionsInv
<1> QED
  BY <1>4, <1>5, <1>6 DEF SessionsInv

LEMMA RestartInv == SessionsInv /\ Restart => SessionsInv'
BY ForkFreeNext DEF SessionsInv, SessionsTypeOK, HoldersAreIssued, Restart, NoRefresh

\* A login gives one session, and a session has one holder, for any number of
\* concurrent refreshes (internal/auth/store.go:81-92,
\* internal/api/server.go:371-404).
THEOREM SessionsNeverForkAlways == SessionsSpec => []SessionsNeverFork
<1>1. SessionsInv /\ [SessionsNext]_sessionVars => SessionsInv'
  <2> SUFFICES ASSUME SessionsInv, [SessionsNext]_sessionVars PROVE SessionsInv'
    OBVIOUS
  <2>1. CASE SeedAdminUser
    BY <2>1 DEF SeedAdminUser, SessionsInv, SessionsTypeOK, HoldersAreIssued,
                SessionsNeverFork, Holders, NoRefresh
  <2>2. CASE Restart
    BY <2>2, RestartInv
  <2>3. CASE \E t \in Tokens : authLogin(t)
    BY <2>3, LoginInv
  <2>4. CASE \E t \in Tokens : Expire(t)
    BY <2>4 DEF Expire, SessionsInv, SessionsTypeOK, HoldersAreIssued,
                SessionsNeverFork, Holders, NoRefresh
  <2>5. CASE \E r \in Refreshers, t \in Tokens : ValidateRefreshToken(r, t)
    BY <2>5, ValidateInv
  <2>6. CASE \E r \in Refreshers, t \in Tokens : FinishRefresh(r, t)
    BY <2>6, FinishInv
  <2>7. CASE UNCHANGED sessionVars
    BY <2>7 DEF sessionVars, SessionsInv, SessionsTypeOK, HoldersAreIssued,
                SessionsNeverFork, Holders, NoRefresh
  <2> QED
    BY <2>1, <2>2, <2>3, <2>4, <2>5, <2>6, <2>7 DEF SessionsNext
<1>2. SessionsInv => SessionsNeverFork
  BY DEF SessionsInv
<1> QED
  BY SessionsInitInv, <1>1, <1>2, PTL DEF SessionsSpec

-----------------------------------------------------------------------------
(***************************************************************************)
(* The rate limiter.                                                        *)
(***************************************************************************)
Entry == [tokens : 0 .. Burst, idle : 0 .. IdleLimit + 1]

\* A bucket has earned a token in every unit of time since it was last used,
\* unless it is full.
IdleEarns ==
  \A k \in LimitKeys :
    entries[k] # NoEntry =>
      entries[k].tokens = Burst \/ entries[k].tokens >= entries[k].idle

RateLimitInv == RateLimitTypeOK /\ IdleEarns /\ ForgettingIsInvisible

\* An entry is not NoEntry.
LEMMA EntryIsThere == \A e \in Entry : e # NoEntry
BY RateLimitAssumption DEF Entry

LEMMA RateLimitInitInv == RateLimitInit => RateLimitInv
BY RateLimitAssumption
   DEF RateLimitInit, RateLimitInv, RateLimitTypeOK, IdleEarns, ForgettingIsInvisible

\* Time passes for a bucket and for its ideal alike.
LEMMA TickInv == RateLimitInv /\ Tick => RateLimitInv'
<1> SUFFICES ASSUME RateLimitInv, Tick PROVE RateLimitInv'
  OBVIOUS
<1> USE RateLimitAssumption
<1>1. \A k \in LimitKeys :
        /\ ideal'[k] = Earn(ideal[k])
        /\ entries[k] = NoEntry => entries'[k] = NoEntry
        /\ entries[k] # NoEntry =>
             /\ entries'[k] \in Entry
             /\ entries'[k].tokens = Earn(entries[k].tokens)
             /\ entries'[k].idle <= entries[k].idle + 1
  BY DEF RateLimitInv, RateLimitTypeOK, Tick, Entry, Earn
<1>2. RateLimitTypeOK'
  BY <1>1 DEF RateLimitInv, RateLimitTypeOK, Tick, Entry, Earn
<1>3. IdleEarns'
  BY <1>1, EntryIsThere DEF RateLimitInv, RateLimitTypeOK, IdleEarns, Entry, Earn
<1>4. ForgettingIsInvisible'
  BY <1>1, EntryIsThere DEF RateLimitInv, RateLimitTypeOK, ForgettingIsInvisible, Earn
<1> QED
  BY <1>2, <1>3, <1>4 DEF RateLimitInv

\* A request takes a token from a bucket and from its ideal alike.
LEMMA AllowInv == ASSUME NEW k \in LimitKeys PROVE RateLimitInv /\ Allow(k) => RateLimitInv'
<1> SUFFICES ASSUME RateLimitInv, Allow(k) PROVE RateLimitInv'
  OBVIOUS
<1> USE RateLimitAssumption
<1> DEFINE e == IF entries[k] = NoEntry THEN [tokens |-> Burst, idle |-> 0] ELSE entries[k]
<1>1. e \in Entry /\ e.tokens = ideal[k]
  BY DEF RateLimitInv, RateLimitTypeOK, ForgettingIsInvisible, Entry
<1>2. entries' = [entries EXCEPT ![k] = [tokens |-> Spend(e.tokens), idle |-> 0]]
      /\ ideal' = [ideal EXCEPT ![k] = Spend(ideal[k])]
      /\ granted' = [granted EXCEPT ![k] = e.tokens > 0]
  BY DEF Allow
<1> HIDE DEF e
<1>3. Spend(e.tokens) \in 0 .. Burst
  BY <1>1 DEF Entry, Spend
<1>4. [tokens |-> Spend(e.tokens), idle |-> 0] \in Entry
  BY <1>3 DEF Entry
<1>5. \A j \in LimitKeys \ {k} : entries'[j] = entries[j] /\ ideal'[j] = ideal[j]
  BY <1>2 DEF RateLimitInv, RateLimitTypeOK
<1>6. /\ entries'[k] = [tokens |-> Spend(e.tokens), idle |-> 0]
      /\ ideal'[k] = Spend(e.tokens)
  BY <1>1, <1>2 DEF RateLimitInv, RateLimitTypeOK
<1>7. RateLimitTypeOK'
  <2>1. entries' \in [LimitKeys -> Entry \cup {NoEntry}]
    BY <1>2, <1>4 DEF RateLimitInv, RateLimitTypeOK, Entry
  <2>2. ideal' \in [LimitKeys -> 0 .. Burst] /\ granted' \in [LimitKeys -> BOOLEAN]
    BY <1>1, <1>2, <1>3 DEF RateLimitInv, RateLimitTypeOK
  <2> QED
    BY <2>1, <2>2 DEF RateLimitTypeOK, Entry
<1>8. IdleEarns'
  BY <1>3, <1>5, <1>6 DEF RateLimitInv, IdleEarns
<1>9. ForgettingIsInvisible'
  BY <1>4, <1>5, <1>6, EntryIsThere DEF RateLimitInv, ForgettingIsInvisible
<1> QED
  BY <1>7, <1>8, <1>9 DEF RateLimitInv

\* The cleanup drops full buckets only: the idle time is enough to fill them.
LEMMA CleanupInv == RateLimitInv /\ Cleanup => RateLimitInv'
<1> SUFFICES ASSUME RateLimitInv, Cleanup PROVE RateLimitInv'
  OBVIOUS
<1> USE RateLimitAssumption
<1>1. ASSUME NEW k \in LimitKeys, entries[k] # NoEntry, entries[k].idle > IdleLimit
      PROVE  entries[k].tokens = Burst
  BY <1>1 DEF RateLimitInv, RateLimitTypeOK, IdleEarns
<1>2. \A k \in LimitKeys :
        entries'[k] = entries[k] \/ (entries'[k] = NoEntry /\ entries[k] # NoEntry
                                       /\ entries[k].idle > IdleLimit)
  BY DEF Cleanup
<1>3. RateLimitTypeOK'
  BY <1>2 DEF RateLimitInv, RateLimitTypeOK, Cleanup
<1>4. IdleEarns'
  BY <1>2 DEF RateLimitInv, IdleEarns
<1>5. ForgettingIsInvisible'
  BY <1>1, <1>2 DEF RateLimitInv, ForgettingIsInvisible, Cleanup
<1> QED
  BY <1>3, <1>4, <1>5 DEF RateLimitInv

\* The limiter answers as if it kept every bucket for ever
\* (internal/ratelimit/limiter.go:42-77), for any number of keys and any bucket
\* that fills up within the idle limit.
THEOREM ForgettingIsInvisibleAlways == RateLimitSpec => []ForgettingIsInvisible
<1>1. RateLimitInv /\ [RateLimitNext]_limitVars => RateLimitInv'
  <2> SUFFICES ASSUME RateLimitInv, [RateLimitNext]_limitVars PROVE RateLimitInv'
    OBVIOUS
  <2>1. CASE Tick
    BY <2>1, TickInv
  <2>2. CASE Cleanup
    BY <2>2, CleanupInv
  <2>3. CASE \E k \in LimitKeys : Allow(k)
    BY <2>3, AllowInv
  <2>4. CASE UNCHANGED limitVars
    BY <2>4 DEF RateLimitInv, RateLimitTypeOK, IdleEarns, ForgettingIsInvisible, limitVars
  <2> QED
    BY <2>1, <2>2, <2>3, <2>4 DEF RateLimitNext
<1>2. RateLimitInv => ForgettingIsInvisible
  BY DEF RateLimitInv
<1> QED
  BY RateLimitInitInv, <1>1, <1>2, PTL DEF RateLimitSpec

-----------------------------------------------------------------------------
(***************************************************************************)
(* Snapshots and patches.                                                   *)
(***************************************************************************)
Snapshots == [version : Nat, flags : ItemMaps, segments : ItemMaps,
              publishedAt : Nat, checksum : ItemMaps \X ItemMaps]

\* The checksum of what is published is that of its content.
PublishedIsSigned == published.checksum = <<published.flags, published.segments>>

DeltaInv == DeltaTypeOK /\ PublishedIsSigned /\ PatchesFollow

\* A delta between two maps, applied to the first, gives the second: what
\* ComputeDelta leaves out, ApplyDelta does not need
\* (internal/snapshot/delta.go:12-107).
LEMMA PatchedIsTarget ==
  ASSUME NEW from \in ItemMaps, NEW to \in ItemMaps
  PROVE  Patched(from, [k \in Upserted(from, to) |-> to[k]], Deleted(from, to)) = to
<1> DEFINE up == [k \in Upserted(from, to) |-> to[k]]
           at(k) == CASE k \in Deleted(from, to)                        -> NoItem
                      [] k \notin Deleted(from, to) /\ k \in DOMAIN up -> up[k]
                      [] OTHER                                       -> from[k]
<1>1. ASSUME NEW k \in ItemKeys PROVE at(k) = to[k]
  <2>1. CASE k \in Deleted(from, to)
    BY <2>1 DEF Deleted
  <2>2. CASE k \notin Deleted(from, to) /\ k \in Upserted(from, to)
    BY <2>2
  <2>3. CASE k \notin Deleted(from, to) /\ k \notin Upserted(from, to)
    BY <2>3 DEF Deleted, Upserted
  <2> QED
    BY <2>1, <2>2, <2>3
<1>2. Patched(from, up, Deleted(from, to)) = [k \in ItemKeys |-> at(k)]
  BY DEF Patched
<1>3. [k \in ItemKeys |-> at(k)] = [k \in ItemKeys |-> to[k]]
  BY <1>1
<1> QED
  BY <1>2, <1>3 DEF ItemMaps

\* Applying the delta of two snapshots to the first one gives the content, the
\* version and the checksum of the second (internal/snapshot/delta.go:70-73).
LEMMA DeltaRoundTrip ==
  ASSUME NEW base \in Snapshots, NEW from \in Snapshots, NEW to \in Snapshots,
         base.flags = from.flags, base.segments = from.segments
  PROVE  LET r == ApplyDelta(base, ComputeDelta(from, to))
         IN  /\ r \in Snapshots
             /\ r.flags = to.flags /\ r.segments = to.segments
             /\ r.version = to.version /\ r.checksum = to.checksum
<1> DEFINE r == ApplyDelta(base, ComputeDelta(from, to))
<1>1. /\ from.flags \in ItemMaps /\ from.segments \in ItemMaps
      /\ to.flags \in ItemMaps /\ to.segments \in ItemMaps
  BY DEF Snapshots
<1>2. r.flags = to.flags
  BY <1>1, PatchedIsTarget DEF ApplyDelta, ComputeDelta
<1>3. r.segments = to.segments
  BY <1>1, PatchedIsTarget DEF ApplyDelta, ComputeDelta
<1>4. r.version = to.version /\ r.checksum = to.checksum /\ r.publishedAt = base.publishedAt
  BY DEF ApplyDelta, ComputeDelta
<1>5. r = [version |-> r.version, flags |-> r.flags, segments |-> r.segments,
           publishedAt |-> r.publishedAt, checksum |-> r.checksum]
  BY DEF ApplyDelta
<1> HIDE DEF r
<1>6. r \in Snapshots
  BY <1>1, <1>2, <1>3, <1>4, <1>5 DEF Snapshots
<1> QED
  BY <1>2, <1>3, <1>4, <1>6 DEF r

LEMMA SnapshotType ==
  ASSUME NEW n \in Nat, NEW fs \in ItemMaps, NEW ss \in ItemMaps
  PROVE  /\ Snapshot(n, fs, ss) \in Snapshots
         /\ Snapshot(n, fs, ss).checksum = <<fs, ss>>
         /\ Snapshot(n, fs, ss).flags = fs /\ Snapshot(n, fs, ss).segments = ss
         /\ Snapshot(n, fs, ss).version = n
BY DEF Snapshot, Snapshots

LEMMA SnapshotIsThere == \A s \in Snapshots : s # NoSnap
BY DeltaAssumption DEF Snapshots, ItemMaps

LEMMA DeltaTypeIs == DeltaTypeOK <=> published \in Snapshots /\ current \in Snapshots \cup {NoSnap}
BY DEF DeltaTypeOK, Snapshots

LEMMA DeltaStep ==
  ASSUME NEW fs \in ItemMaps, NEW ss \in ItemMaps, DeltaInv,
         PublishWhole(fs, ss) \/ PublishPatch(fs, ss)
  PROVE  DeltaInv'
<1> DEFINE next == NextSnapshot(fs, ss)
<1>1. published \in Snapshots /\ current \in Snapshots \cup {NoSnap}
  BY DeltaTypeIs DEF DeltaInv
<1>2. published' = next
  BY DEF PublishWhole, PublishPatch
<1>3. published.version + 1 \in Nat
  BY <1>1 DEF Snapshots
<1>4. next \in Snapshots /\ next.checksum = <<next.flags, next.segments>>
  BY <1>3, SnapshotType DEF NextSnapshot
<1> HIDE DEF next
<1>5. ASSUME NEW c \in Snapshots, current' = c, c.flags = next.flags,
             c.segments = next.segments, c.version = next.version, c.checksum = next.checksum
      PROVE  DeltaInv'
  BY <1>2, <1>4, <1>5 DEF DeltaInv, DeltaTypeOK, Snapshots, PublishedIsSigned, PatchesFollow
<1>6. CASE PublishWhole(fs, ss)
  BY <1>4, <1>5, <1>6 DEF PublishWhole, next
<1>7. CASE PublishPatch(fs, ss) /\ current = NoSnap
  BY <1>2, <1>4, <1>7 DEF PublishPatch, DeltaInv, DeltaTypeOK, Snapshots, PublishedIsSigned,
                          PatchesFollow
<1>8. CASE PublishPatch(fs, ss) /\ current # NoSnap
  <2>1. current \in Snapshots /\ current.flags = published.flags
          /\ current.segments = published.segments
    BY <1>1, <1>8 DEF DeltaInv, PatchesFollow
  <2>2. current' = ApplyDelta(current, ComputeDelta(published, next))
    BY <1>8 DEF PublishPatch, next
  <2>3. /\ current' \in Snapshots
        /\ current'.flags = next.flags /\ current'.segments = next.segments
        /\ current'.version = next.version /\ current'.checksum = next.checksum
    BY <1>1, <1>4, <2>1, <2>2, DeltaRoundTrip
  <2> QED
    BY <1>5, <2>3
<1> QED
  BY <1>6, <1>7, <1>8

\* A client that follows patches and snapshots has what was published, through
\* any number of additions, changes and deletions
\* (internal/snapshot/delta.go:12-107, sdk/go/pennant/client.go:197-220).
THEOREM PatchesFollowAlways == DeltaSpec => []PatchesFollow
<1>1. DeltaInit => DeltaInv
  <2> SUFFICES ASSUME DeltaInit PROVE DeltaInv
    OBVIOUS
  <2>1. PICK fs \in ItemMaps, ss \in ItemMaps : published = Snapshot(0, fs, ss)
    BY DEF DeltaInit
  <2>2. published \in Snapshots /\ PublishedIsSigned
    BY <2>1, SnapshotType DEF PublishedIsSigned
  <2> QED
    BY <2>2, DeltaTypeIs DEF DeltaInit, DeltaInv, PatchesFollow
<1>2. DeltaInv /\ [DeltaNext]_deltaVars => DeltaInv'
  <2> SUFFICES ASSUME DeltaInv, [DeltaNext]_deltaVars PROVE DeltaInv'
    OBVIOUS
  <2>1. CASE HandlePut
    BY <2>1, SnapshotIsThere
       DEF HandlePut, DeltaInv, DeltaTypeOK, Snapshots, PublishedIsSigned, PatchesFollow
  <2>2. CASE \E fs, ss \in ItemMaps : PublishWhole(fs, ss) \/ PublishPatch(fs, ss)
    BY <2>2, DeltaStep
  <2>3. CASE UNCHANGED deltaVars
    BY <2>3 DEF deltaVars, DeltaInv, DeltaTypeOK, PublishedIsSigned, PatchesFollow
  <2> QED
    BY <2>1, <2>2, <2>3 DEF DeltaNext
<1>3. DeltaInv => PatchesFollow
  BY DEF DeltaInv
<1> QED
  BY <1>1, <1>2, <1>3, PTL DEF DeltaSpec

-----------------------------------------------------------------------------
(***************************************************************************)
(* The life of a client.                                                    *)
(***************************************************************************)
\* The snapshot comes first: before ready is closed there is one, and the
\* application sees ready only after that.
SnapshotFirst ==
  /\ stream = "stored" \/ ready => hasSnap
  /\ app = "ready" => ready

\* New returns without an error, and IsReady says yes, only when evaluations
\* find a snapshot, through any series of reconnects, timeouts and long lines
\* (sdk/go/pennant/client.go:97-99, 204-205, 324-332).
THEOREM ReadyMeansSnapshotAlways == GoClientSpec => []ReadyMeansSnapshot
<1>1. GoClientInit => SnapshotFirst
  BY DEF GoClientInit, SnapshotFirst
<1>2. SnapshotFirst /\ [GoClientNext]_clientVars => SnapshotFirst'
  <2> SUFFICES ASSUME SnapshotFirst, [GoClientNext]_clientVars PROVE SnapshotFirst'
    OBVIOUS
  <2> USE DEF SnapshotFirst
  <2>1. CASE StoreSnapshot
    BY <2>1 DEF StoreSnapshot
  <2>2. CASE CloseReady
    BY <2>2 DEF CloseReady
  <2>3. CASE ConnectFails \/ LineTooLong \/ \E err \in BOOLEAN : StreamEnds(err)
    BY <2>3 DEF ConnectFails, LineTooLong, StreamEnds, AfterConnect
  <2>4. CASE Connect \/ Wake \/ StopSleeping
    BY <2>4 DEF Connect, Wake, StopSleeping
  <2>5. CASE NewReturns \/ NewTimesOut \/ CallClose \/ CloseReturns
    BY <2>5 DEF NewReturns, NewTimesOut, CallClose, CloseReturns, App
  <2>6. CASE ServerChanges \/ UNCHANGED clientVars
    BY <2>6 DEF ServerChanges, clientVars
  <2> QED
    BY <2>1, <2>2, <2>3, <2>4, <2>5, <2>6 DEF GoClientNext, StreamLoop
<1>3. SnapshotFirst => ReadyMeansSnapshot
  BY DEF SnapshotFirst, ReadyMeansSnapshot
<1> QED
  BY <1>1, <1>2, <1>3, PTL DEF GoClientSpec
=============================================================================
