----------------------------- MODULE EventStore -----------------------------
(***************************************************************************)
(* The in-memory event store (internal/analytics/memstore.go): a list of    *)
(* events in the order of their insertion, and three queries that scan it.  *)
(* An event is a record of what the queries look at; env stands for project *)
(* and environment.  A map of the code is a function on all keys, with the  *)
(* zero value for a key that it does not have.                              *)
(***************************************************************************)
EXTENDS Integers, Sequences, FiniteSets

CONSTANTS
  Nil,         \* no variation
  EvFlags,     \* flag keys
  EvContexts,  \* context keys
  EvVariations \* variation indices

\* An evaluation in an environment.
IsEval(e, env) == e.kind = "eval" /\ e.env = env

NoInsight == [total |-> 0, counts |-> [v \in EvVariations |-> 0], unique |-> 0, seen |-> {}]

\* Mutant: a context is counted for the first flag only.
CountEval_SeenOnce(byFlag, e) ==
  LET fi == byFlag[e.flag]
  IN  [byFlag EXCEPT ![e.flag] =
        [total  |-> fi.total + 1,
         counts |-> IF e.variation = Nil THEN fi.counts
                    ELSE [fi.counts EXCEPT ![e.variation] = @ + 1],
         unique |-> IF \E f \in EvFlags : e.ctx \in byFlag[f].seen
                    THEN fi.unique ELSE fi.unique + 1,
         seen   |-> fi.seen \cup {e.ctx}]]

CountEval(byFlag, e) ==
  LET fi == byFlag[e.flag]
  IN  [byFlag EXCEPT ![e.flag] =
        [total  |-> fi.total + 1,
         counts |-> IF e.variation = Nil THEN fi.counts
                    ELSE [fi.counts EXCEPT ![e.variation] = @ + 1],
         unique |-> IF e.ctx \in fi.seen THEN fi.unique ELSE fi.unique + 1,
         seen   |-> fi.seen \cup {e.ctx}]]

\* A flag with total 0 has no entry in the answer.
QueryFlagInsights(events, env, since) ==
  LET byFlag[n \in 0 .. Len(events)] ==
        IF n = 0 THEN [f \in EvFlags |-> NoInsight]
        ELSE IF IsEval(events[n], env) /\ events[n].time >= since
             THEN CountEval(byFlag[n - 1], events[n])
             ELSE byFlag[n - 1]
  IN  byFlag[Len(events)]

NoteEval(state, e) ==
  [state EXCEPT ![e.flag] =
     [last |-> IF e.time > @.last THEN e.time ELSE @.last,
      variations |-> IF e.variation = Nil THEN @.variations ELSE @.variations \cup {e.variation}]]

\* Flag -> reason, Nil for a flag that is not stale or has no time above 0.
QueryStaleFlags(events, env, threshold) ==
  LET state[n \in 0 .. Len(events)] ==
        IF n = 0 THEN [f \in EvFlags |-> [last |-> 0, variations |-> {}]]
        ELSE IF IsEval(events[n], env)
             THEN NoteEval(state[n - 1], events[n])
             ELSE state[n - 1]
      Reason(st) == CASE st.last = 0 -> Nil
                      [] st.last # 0 /\ st.last < threshold -> "no_evals_30d"
                      [] st.last # 0 /\ st.last >= threshold /\ Cardinality(st.variations) <= 1 ->
                           "single_variation"
                      [] OTHER -> Nil
  IN  [f \in EvFlags |-> Reason(state[Len(events)][f])]

\* Context -> variation of the last event in the list that exposes it, or Nil.
CtxToVar(events, env, flag, since) ==
  LET ctxToVar[n \in 0 .. Len(events)] ==
        IF n = 0 THEN [c \in EvContexts |-> Nil]
        ELSE IF /\ IsEval(events[n], env) /\ events[n].flag = flag
                /\ events[n].time >= since /\ events[n].variation # Nil
             THEN [ctxToVar[n - 1] EXCEPT ![events[n].ctx] = events[n].variation]
             ELSE ctxToVar[n - 1]
  IN  ctxToVar[Len(events)]

\* Variation -> events of the metric by the contexts that were last stored with
\* that variation.
QueryConversions(events, env, flag, metric, since) ==
  LET ctxToVar == CtxToVar(events, env, flag, since)
      result[n \in 0 .. Len(events)] ==
        IF n = 0 THEN [v \in EvVariations |-> 0]
        ELSE IF /\ events[n].kind = "custom" /\ events[n].metric = metric /\ events[n].env = env
                /\ events[n].time >= since /\ ctxToVar[events[n].ctx] # Nil
             THEN [result[n - 1] EXCEPT ![ctxToVar[events[n].ctx]] = @ + 1]
             ELSE result[n - 1]
  IN  result[Len(events)]
=============================================================================
