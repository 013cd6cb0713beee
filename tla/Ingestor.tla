------------------------------ MODULE Ingestor ------------------------------
(***************************************************************************)
(* The analytics ingestor (internal/analytics/ingestor.go), the handler     *)
(* that feeds it (sdkTrack) and the shutdown that stops it                  *)
(* (cmd/server/main.go).                                                    *)
(*                                                                         *)
(* Three kinds of goroutines flush: handlers that filled the buffer, the    *)
(* loop with its ticker, and main in Stop.  A flush takes the buffer under  *)
(* the mutex and inserts the batch after it, so batches of different        *)
(* goroutines overtake each other.  InsertEvents of the in-memory store     *)
(* does not fail.                                                           *)
(***************************************************************************)
EXTENDS EventStore

CONSTANTS
  Events,      \* events that clients may send
  Trackers,    \* sdkTrack requests in progress at once
  MaxBatch     \* 500 in the code

ASSUME IngestorAssumption ==
  /\ MaxBatch \in Nat \ {0}
  /\ "loop" \notin Trackers /\ "main" \notin Trackers
  /\ Nil \notin EvVariations /\ Nil \notin {"no_evals_30d", "single_variation"}
  /\ \A e \in Events :
       /\ e.ctx \in EvContexts /\ e.time \in Int
       /\ e.kind = "eval" => e.flag \in EvFlags /\ e.variation \in EvVariations \cup {Nil}

VARIABLES
  buf,       \* Ingestor.buf
  batch,     \* actor -> the batch that its flush took and has not inserted
  stored,    \* MemEventStore.events
  ipc,       \* actor -> where it is
  clean,     \* Shutdown waited for every request
  seen       \* history: the events given to Track

ingestorVars == <<buf, batch, stored, ipc, clean, seen>>

Actors == Trackers \cup {"loop", "main"}

\* The process is there until main returns.
Alive == ipc["main"] # "exited"

IngestorInit ==
  /\ buf = <<>> /\ stored = <<>> /\ seen = {} /\ clean = FALSE
  /\ batch = [a \in Actors |-> <<>>]
  /\ ipc = [a \in Actors |-> CASE a = "loop" -> "select"
                               [] a = "main" -> "serving"
                               [] OTHER      -> "idle"]

Goto(a, label) == ipc' = [ipc EXCEPT ![a] = label]

-----------------------------------------------------------------------------
\* No request begins after Shutdown closed the listener.
BeginTrack(h) ==
  /\ ipc["main"] = "serving" /\ ipc[h] = "idle"
  /\ Goto(h, "handling")
  /\ UNCHANGED <<buf, batch, stored, clean, seen>>

\* The body may have any number of events.
Track(h, e) ==
  /\ Alive /\ ipc[h] = "handling" /\ e \notin seen
  /\ buf' = Append(buf, e)
  /\ seen' = seen \cup {e}
  /\ Goto(h, IF Len(buf') >= MaxBatch THEN "flush" ELSE "handling")
  /\ UNCHANGED <<batch, stored, clean>>

EndTrack(h) ==
  /\ Alive /\ ipc[h] = "handling"
  /\ Goto(h, "idle")
  /\ UNCHANGED <<buf, batch, stored, clean, seen>>

\* Mutant: the loop ends after a flush.
AfterFlush_Once(a) ==
  CASE a = "loop" -> "returned" [] a = "main" -> "exited" [] OTHER -> "handling"

\* Where an actor goes on after flush.
AfterFlush(a) ==
  CASE a = "loop" -> "select" [] a = "main" -> "exited" [] OTHER -> "handling"

\* Mutant: the buffer is not replaced.
TakeBatch_Keep(a) ==
  /\ Alive /\ ipc[a] = "flush"
  /\ IF buf = <<>>
       THEN Goto(a, AfterFlush(a)) /\ UNCHANGED <<buf, batch>>
       ELSE batch' = [batch EXCEPT ![a] = buf] /\ Goto(a, "insert") /\ UNCHANGED buf
  /\ UNCHANGED <<stored, clean, seen>>

TakeBatch(a) ==
  /\ Alive /\ ipc[a] = "flush"
  /\ IF buf = <<>>
       THEN Goto(a, AfterFlush(a)) /\ UNCHANGED <<buf, batch>>
       ELSE batch' = [batch EXCEPT ![a] = buf] /\ buf' = <<>> /\ Goto(a, "insert")
  /\ UNCHANGED <<stored, clean, seen>>

InsertBatch(a) ==
  /\ Alive /\ ipc[a] = "insert"
  /\ stored' = stored \o batch[a]
  /\ batch' = [batch EXCEPT ![a] = <<>>]
  /\ Goto(a, AfterFlush(a))
  /\ UNCHANGED <<buf, clean, seen>>

\* The ticker may win also when done is closed.
LoopTick ==
  /\ Alive /\ ipc["loop"] = "select"
  /\ Goto("loop", "flush")
  /\ UNCHANGED <<buf, batch, stored, clean, seen>>

LoopDone ==
  /\ ipc["main"] = "wait" /\ ipc["loop"] = "select"
  /\ Goto("loop", "returned")
  /\ UNCHANGED <<buf, batch, stored, clean, seen>>

-----------------------------------------------------------------------------
\* A signal: Shutdown closes the listener.
Signal ==
  /\ ipc["main"] = "serving"
  /\ Goto("main", "shutdown")
  /\ UNCHANGED <<buf, batch, stored, clean, seen>>

\* Shutdown returns when no request is in progress, or after ten seconds; then
\* Stop closes done.
ShutdownReturns(inTime) ==
  /\ ipc["main"] = "shutdown"
  /\ inTime => \A h \in Trackers : ipc[h] = "idle"
  /\ clean' = inTime
  /\ Goto("main", "wait")
  /\ UNCHANGED <<buf, batch, stored, seen>>

\* Mutant: Stop does not wait for the loop.
StopFlushes_NoWait ==
  /\ ipc["main"] = "wait"
  /\ Goto("main", "flush")
  /\ UNCHANGED <<buf, batch, stored, clean, seen>>

StopFlushes ==
  /\ ipc["main"] = "wait" /\ ipc["loop"] = "returned"
  /\ Goto("main", "flush")
  /\ UNCHANGED <<buf, batch, stored, clean, seen>>

IngestorNext ==
  \/ \E h \in Trackers : BeginTrack(h) \/ EndTrack(h) \/ \E e \in Events : Track(h, e)
  \/ \E a \in Actors : TakeBatch(a) \/ InsertBatch(a)
  \/ LoopTick \/ LoopDone
  \/ Signal \/ (\E inTime \in BOOLEAN : ShutdownReturns(inTime)) \/ StopFlushes

\* The ticker ticks, a flush that has begun goes on, and so does Stop when the
\* loop has returned.  No fairness is assumed of requests and signals.
IngestorFairness ==
  /\ WF_ingestorVars(LoopTick) /\ WF_ingestorVars(StopFlushes)
  /\ \A a \in Actors : WF_ingestorVars(TakeBatch(a)) /\ WF_ingestorVars(InsertBatch(a))

IngestorSpec == IngestorInit /\ [][IngestorNext]_ingestorVars /\ IngestorFairness

-----------------------------------------------------------------------------
(***************************************************************************)
(* Properties.                                                              *)
(***************************************************************************)
Labels == {"idle", "handling", "select", "returned", "serving", "shutdown", "wait",
           "flush", "insert", "exited"}

\* Type invariant of the ingestor.
IngestorTypeOK ==
  /\ buf \in Seq(Events) /\ stored \in Seq(Events) /\ seen \subseteq Events
  /\ batch \in [Actors -> Seq(Events)]
  /\ ipc \in [Actors -> Labels] /\ clean \in BOOLEAN

Elements(s) == {s[i] : i \in DOMAIN s}
Pending == Elements(buf) \cup UNION {Elements(batch[a]) : a \in Actors}

\* An event given to Track is in the buffer, in the batch of a flush or in the
\* store, and in the store once main has returned, if Shutdown could wait for
\* the requests: Stop waits for the loop and flushes what is left
\* (internal/analytics/ingestor.go:49-53, cmd/server/main.go:51).
NothingLost ==
  /\ seen = Pending \cup Elements(stored)
  /\ ipc["main"] = "exited" /\ clean => Pending = {}

\* No event is stored twice or is about to be, whichever goroutines flush at
\* the same time (internal/analytics/ingestor.go:84-94).
StoredOnce ==
  LET Count(s, e) == Cardinality({i \in DOMAIN s : s[i] = e})
  IN  \A e \in Events :
        Count(buf, e) + Count(stored, e) + Cardinality({a \in Actors : e \in Elements(batch[a])})
          = (IF e \in seen THEN 1 ELSE 0)

\* An event given to Track gets into the store, unless the process ends: the
\* loop goes on flushing whatever the handlers do
\* (internal/analytics/ingestor.go:70-82).
EventsGetStored ==
  \A e \in Events : e \in seen ~> (e \in Elements(stored) \/ ~Alive)

\* The evaluations of a flag in the store, those from since on, and the contexts
\* that they exposed.
EvalsOf(env, f) == {e \in Elements(stored) : IsEval(e, env) /\ e.flag = f}
RecentOf(env, since, f) == {e \in EvalsOf(env, f) : e.time >= since}
ExposedTo(env, since, f) ==
  {e.ctx : e \in {x \in RecentOf(env, since, f) : x.variation # Nil}}

\* The events of a metric by the contexts that last maps to v.
ConvertedTo(env, since, metric, last, v) ==
  {e \in Elements(stored) :
     /\ e.kind = "custom" /\ e.env = env /\ e.metric = metric /\ e.time >= since
     /\ e.ctx \in DOMAIN last /\ last[e.ctx] = v}

InsightAgrees(env, since, f) ==
  LET insight == QueryFlagInsights(stored, env, since)[f]
      recent  == RecentOf(env, since, f)
  IN  /\ insight.total = Cardinality(recent)
      /\ insight.unique = Cardinality({e.ctx : e \in recent})
      /\ \A v \in EvVariations :
           insight.counts[v] = Cardinality({e \in recent : e.variation = v})

StaleAgrees(env, since, f) ==
  LET stale  == QueryStaleFlags(stored, env, since)[f]
      dated  == \E e \in EvalsOf(env, f) : e.time > 0
      recent == RecentOf(env, since, f)
      served == {e.variation : e \in EvalsOf(env, f)} \ {Nil}
  IN  /\ stale = "no_evals_30d" <=> dated /\ recent = {}
      /\ stale = "single_variation" <=> dated /\ recent # {} /\ Cardinality(served) <= 1

ConversionsAgree(env, since, f) ==
  \E last \in [ExposedTo(env, since, f) -> EvVariations] :
    /\ \A c \in DOMAIN last :
         \E e \in RecentOf(env, since, f) : e.ctx = c /\ e.variation = last[c]
    /\ \A m \in {e.metric : e \in Events}, v \in EvVariations :
         QueryConversions(stored, env, f, m, since)[v]
           = Cardinality(ConvertedTo(env, since, m, last, v))

\* What the queries count does not depend on the order in which the batches
\* came in: a context is unique per flag, the newest time decides which flag is
\* stale, and a metric event counts once, under one variation that its context
\* was exposed to, the same for every metric (internal/analytics/memstore.go:26-157).
QueriesAgree ==
  \A env \in {e.env : e \in Events}, since \in {e.time : e \in Events}, f \in EvFlags :
    /\ InsightAgrees(env, since, f)
    /\ StaleAgrees(env, since, f)
    /\ ConversionsAgree(env, since, f)
=============================================================================
