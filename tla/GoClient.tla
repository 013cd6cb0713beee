------------------------------ MODULE GoClient ------------------------------
(***************************************************************************)
(* The life of a Go SDK client (sdk/go/pennant/client.go): New and Close,   *)
(* which the application calls, and the goroutine of streamLoop between     *)
(* them.  The server and the network are external: the server comes and     *)
(* goes, and sends its snapshot on every connection (Propagation has what   *)
(* it sends, and when).                                                     *)
(***************************************************************************)
EXTENDS Naturals

VARIABLES
  server,     \* "up" or "down", as the client sees it
  long,       \* the snapshot is on a line above the 64 KiB of bufio.Scanner
  stream,     \* where streamLoop is
  open,       \* the connection still has the server at its other end
  hasSnap,    \* Client.snap is not nil
  ready,      \* Client.ready is closed
  backoff,    \* in seconds
  cancelled,  \* the context of the client is cancelled
  app         \* where the application is

clientVars == <<server, long, stream, open, hasSnap, ready, backoff, cancelled, app>>

GoClientInit ==
  /\ server \in {"up", "down"} /\ long \in BOOLEAN
  /\ stream = "connecting" /\ open = FALSE /\ backoff = 1
  /\ hasSnap = FALSE /\ ready = FALSE /\ cancelled = FALSE
  /\ app = "initializing"

\* Mutant: the loop does not look at the context.
Done_Never == FALSE

\* ctx.Done().
Done == cancelled

-----------------------------------------------------------------------------
(***************************************************************************)
(* streamLoop                                                               *)
(***************************************************************************)
Connect ==
  /\ stream = "connecting" /\ server = "up" /\ ~Done
  /\ stream' = "reading" /\ open' = TRUE
  /\ UNCHANGED <<server, long, hasSnap, ready, backoff, cancelled, app>>

\* Mutant: an error ends the loop.
AfterConnect_Quit(err) ==
  /\ stream' = IF Done \/ err THEN "exited" ELSE "sleeping"
  /\ open' = FALSE
  /\ backoff' = IF err THEN backoff ELSE 1
  /\ UNCHANGED <<server, long, hasSnap, ready, cancelled, app>>

\* connect returned: with an error, or without one when the stream ended.
AfterConnect(err) ==
  /\ stream' = IF Done THEN "exited" ELSE "sleeping"
  /\ open' = FALSE
  /\ backoff' = IF err THEN backoff ELSE 1
  /\ UNCHANGED <<server, long, hasSnap, ready, cancelled, app>>

ConnectFails == stream = "connecting" /\ (server = "down" \/ Done) /\ AfterConnect(TRUE)

\* The line of the snapshot is too long for the scanner.
LineTooLong == stream = "reading" /\ long /\ AfterConnect(TRUE)

\* The server has gone away, with the end of the stream or without it, or the
\* context is cancelled.
StreamEnds(err) ==
  /\ stream = "reading"
  /\ ~open \/ (Done /\ err)
  /\ AfterConnect(err)

\* Mutant: ready is closed first.
StoreSnapshot_ReadyFirst ==
  /\ stream = "reading" /\ ~long /\ ~Done
  /\ ready' = TRUE /\ stream' = "stored"
  /\ UNCHANGED <<server, long, open, hasSnap, backoff, cancelled, app>>

\* handleEvent of a put, which may still be on its way when the server is gone:
\* the snapshot, and then ready.  parseSSE looks at the context before each line;
\* a cancel after that is as good as one after the event.
StoreSnapshot ==
  /\ stream = "reading" /\ ~long /\ ~Done
  /\ hasSnap' = TRUE /\ stream' = "stored"
  /\ UNCHANGED <<server, long, open, ready, backoff, cancelled, app>>

CloseReady ==
  /\ stream = "stored"
  /\ ready' = TRUE /\ stream' = "reading"
  /\ UNCHANGED <<server, long, open, hasSnap, backoff, cancelled, app>>

Wake ==
  /\ stream = "sleeping"
  /\ stream' = "connecting"
  /\ backoff' = IF 2 * backoff < 30 THEN 2 * backoff ELSE 30
  /\ UNCHANGED <<server, long, open, hasSnap, ready, cancelled, app>>

StopSleeping ==
  /\ stream = "sleeping" /\ Done
  /\ stream' = "exited"
  /\ UNCHANGED <<server, long, open, hasSnap, ready, backoff, cancelled, app>>

StreamLoop ==
  \/ Connect \/ ConnectFails \/ LineTooLong
  \/ \E err \in BOOLEAN : StreamEnds(err)
  \/ StoreSnapshot \/ CloseReady \/ Wake \/ StopSleeping

-----------------------------------------------------------------------------
(***************************************************************************)
(* New, Close and the environment.                                          *)
(***************************************************************************)
App(from, to) ==
  /\ app = from /\ app' = to
  /\ UNCHANGED <<server, long, stream, open, hasSnap, ready, backoff>>

NewReturns  == ready /\ App("initializing", "ready") /\ UNCHANGED cancelled
NewTimesOut == App("initializing", "timedout") /\ UNCHANGED cancelled
CallClose   == (App("ready", "closing") \/ App("timedout", "closing")) /\ cancelled' = TRUE
CloseReturns == stream = "exited" /\ App("closing", "closed") /\ UNCHANGED cancelled

ServerChanges ==
  /\ server' \in {"up", "down"} /\ long' \in BOOLEAN
  /\ open' = (open /\ server' = "up")
  /\ UNCHANGED <<stream, hasSnap, ready, backoff, cancelled, app>>

GoClientNext ==
  \/ StreamLoop
  \/ NewReturns \/ NewTimesOut \/ CallClose \/ CloseReturns
  \/ ServerChanges

\* The goroutine goes on, and a server that is there sends its snapshot.
GoClientFairness ==
  /\ WF_clientVars(Connect) /\ WF_clientVars(ConnectFails) /\ WF_clientVars(LineTooLong)
  /\ WF_clientVars(\E err \in BOOLEAN : StreamEnds(err))
  /\ WF_clientVars(open /\ StoreSnapshot) /\ WF_clientVars(CloseReady)
  /\ WF_clientVars(Wake) /\ WF_clientVars(StopSleeping)
  /\ WF_clientVars(CloseReturns)

GoClientSpec == GoClientInit /\ [][GoClientNext]_clientVars /\ GoClientFairness

-----------------------------------------------------------------------------
(***************************************************************************)
(* Properties.                                                              *)
(***************************************************************************)
\* New returns without an error, and IsReady says yes, only when evaluations
\* find a snapshot, and that stays so through reconnects and Close
\* (sdk/go/pennant/client.go:97-99, 204-205, 324-332).
ReadyMeansSnapshot == ready \/ app = "ready" => hasSnap

\* Close returns, whatever the goroutine is doing and whatever the server does
\* (sdk/go/pennant/client.go:107-110).
CloseComesBack == app = "closing" ~> app = "closed"

\* A client heals itself: once the server stays up, with a snapshot that fits
\* into the scanner's buffer, the client becomes ready, however New came back,
\* unless it is closed (sdk/go/pennant/client.go:75-77).
SelfHeals == <>[](server = "up" /\ ~long) => <>(ready \/ cancelled)
=============================================================================
