----------------------------- MODULE MCServices -----------------------------
(***************************************************************************)
(* An instance of the parts beside the propagation of flags, for TLC.  They *)
(* share no state, so a behaviour is one of a single part: the others stay  *)
(* where they are.                                                          *)
(***************************************************************************)
EXTENDS Ingestor, Sessions, RateLimit, GoClient, SnapshotDelta

VARIABLE part   \* the part whose steps are taken

vars == <<part, ingestorVars, sessionVars, limitVars, clientVars, deltaVars>>

Init ==
  /\ part \in {"ingestor", "sessions", "limiter", "client", "delta"}
  /\ IngestorInit /\ RateLimitInit
  /\ SessionsInit /\ (part # "sessions" => durable)
  /\ GoClientInit /\ (part # "client" => server = "down" /\ ~long)
  /\ DeltaInit /\ (part # "delta" => /\ published.flags = [k \in ItemKeys |-> NoItem]
                                     /\ published.segments = [k \in ItemKeys |-> NoItem])

IngestorMoves ==
  /\ part = "ingestor" /\ IngestorNext
  /\ UNCHANGED <<part, sessionVars, limitVars, clientVars, deltaVars>>
SessionsMove ==
  /\ part = "sessions" /\ SessionsNext
  /\ UNCHANGED <<part, ingestorVars, limitVars, clientVars, deltaVars>>
LimiterMoves ==
  /\ part = "limiter" /\ RateLimitNext
  /\ UNCHANGED <<part, ingestorVars, sessionVars, clientVars, deltaVars>>
ClientMoves ==
  /\ part = "client" /\ GoClientNext
  /\ UNCHANGED <<part, ingestorVars, sessionVars, limitVars, deltaVars>>
SnapshotsMove ==
  /\ part = "delta" /\ DeltaNext
  /\ UNCHANGED <<part, ingestorVars, sessionVars, limitVars, clientVars>>

Next == IngestorMoves \/ SessionsMove \/ LimiterMoves \/ ClientMoves \/ SnapshotsMove

\* The part that moves is fair.
Fairness ==
  /\ part = "ingestor" => IngestorFairness
  /\ part = "client" => GoClientFairness

Spec == Init /\ [][Next]_vars /\ Fairness

-----------------------------------------------------------------------------
Eval(flag, ctx, variation, time) ==
  [kind |-> "eval", env |-> "e", flag |-> flag, ctx |-> ctx, variation |-> variation,
   time |-> time, metric |-> Nil]

\* Two evaluations of a flag by a context, with different variations, one of
\* another flag with a time below 0, and a metric event.
FourEvents ==
  {Eval("f", "a", 0, 1), Eval("f", "a", 1, 2), Eval("g", "a", 0, -1),
   [kind |-> "custom", env |-> "e", flag |-> Nil, ctx |-> "a", variation |-> Nil,
    time |-> 2, metric |-> "m"]}
=============================================================================
