--------------------------- MODULE FlagEvaluation ---------------------------
(***************************************************************************)
(* Three evaluators of one snapshot: the server (sdkEvaluate), the Go SDK   *)
(* and the TypeScript SDK.  The world is the environment's flags and        *)
(* segments, a context, and the hash; the SDKs have nothing until the       *)
(* snapshot reaches them.  An application asks all three about a flag.      *)
(***************************************************************************)
EXTENDS TsEvaluation

CONSTANT Asked   \* flag keys, some of which no world has

-----------------------------------------------------------------------------
(***************************************************************************)
(* Snapshots as JSON decodes them, and contexts, which Go code may also      *)
(* make with integers.                                                      *)
(***************************************************************************)
JsonScalars == [string : STRING] \cup [number : Int] \cup [bool : BOOLEAN]
                 \cup [null : {None}]
GoScalars   == JsonScalars \cup [int : Int]
Attributes  == GoScalars \cup [array : Seq(GoScalars)]

Clauses == [attribute : STRING, op : STRING, values : Seq(JsonScalars), negate : BOOLEAN]
Rollouts ==
  [variations : Seq([variation : Int, weight : Int]), bucketBy : STRING,
   seed : Int \cup {None}, exp : BOOLEAN]

\* What is None is nothing else, and the empty text is no version.
ASSUME EvaluationAssumption ==
  /\ MaxPrerequisiteDepth \in Nat /\ FullWeight \in Nat \ {0}
  /\ None \notin Int \cup STRING \cup Rollouts
  /\ SemVer[""] = None

Indices == Int \cup {None}
Flags ==
  [on : BOOLEAN, variations : Nat, off : Indices, salt : STRING,
   prereqs : Seq([flag : STRING, variation : Int]),
   targets : Seq([variation : Int, keys : SUBSET STRING]),
   rules : Seq([id : STRING, clauses : Seq(Clauses), variation : Indices,
                rollout : Rollouts \cup {None}]),
   fallthrough : [variation : Indices, rollout : Rollouts \cup {None}]]
Segments ==
  [included : SUBSET STRING, excluded : SUBSET STRING, salt : STRING,
   rules : Seq([clauses : Seq(Clauses), weight : Int \cup {None}, bucketBy : STRING])]
\* createSegment refuses an empty key.  The hash is there for what is hashed.
IsWorld(w) ==
  /\ DOMAIN w = {"flags", "segments", "ctx", "hash"}
  /\ DOMAIN w.flags \subseteq STRING /\ \A f \in DOMAIN w.flags : w.flags[f] \in Flags
  /\ DOMAIN w.segments \subseteq STRING \ {""}
  /\ \A s \in DOMAIN w.segments : w.segments[s] \in Segments
  /\ w.ctx.key \in STRING
  /\ \A a \in DOMAIN w.ctx.attributes : w.ctx.attributes[a] \in Attributes
  /\ \A f \in DOMAIN w.flags :
       LET ro == w.flags[f].fallthrough.rollout
           id == BucketId(w, ro.bucketBy)
       IN  ro # None /\ id # None => HashInput(id, f, w.flags[f].salt, ro.seed) \in DOMAIN w.hash

VARIABLES
  world,     \* what the server evaluates
  snap,      \* what the SDKs evaluate: the world, or None
  answer     \* the last answers, or None

vars == <<world, snap, answer>>

-----------------------------------------------------------------------------
\* 404 for a flag that is not there.
sdkEvaluate(f) == IF f \in DOMAIN world.flags THEN Evaluate(world, f) ELSE None

GoEvaluate(f) ==
  CASE snap = None -> [idx |-> None, reason |-> Error("CLIENT_NOT_READY")]
    [] snap # None /\ f \notin DOMAIN snap.flags ->
         [idx |-> None, reason |-> Error("FLAG_NOT_FOUND")]
    [] OTHER -> Evaluate(snap, f)

evaluateDetail(f) ==
  IF snap = None \/ f \notin DOMAIN snap.flags THEN None ELSE tsEvaluate(snap, f)

InitWith(w) == world = w /\ snap = None /\ answer = None

Init == IsWorld(world) /\ InitWith(world)

\* The put event of the stream, or the first fetch of the TypeScript SDK.
Receive ==
  /\ snap = None
  /\ snap' = world /\ answer' = None
  /\ UNCHANGED world

Ask(f) ==
  /\ answer' = [flag |-> f, server |-> sdkEvaluate(f), go |-> GoEvaluate(f),
                ts |-> evaluateDetail(f),
                trace |-> IF f \in DOMAIN world.flags THEN Explain(world, f) ELSE None]
  /\ UNCHANGED <<world, snap>>

Next == Receive \/ \E f \in Asked : Ask(f)

Spec == Init /\ [][Next]_vars

-----------------------------------------------------------------------------
(***************************************************************************)
(* Properties.                                                              *)
(***************************************************************************)
Evaluated == answer # None /\ answer.server # None

Served(f) == {None} \cup 0 .. world.flags[f].variations - 1

\* Type invariant: the SDKs have what the server has, or nothing, and an index
\* in an answer is the index of a variation, for malformed flags too.
TypeOK ==
  /\ IsWorld(world) /\ snap \in {None, world}
  /\ answer # None => answer.flag \in Asked
  /\ Evaluated => answer.server.idx \in Served(answer.flag)

Prereqs(f) == world.flags[f].prereqs

\* The flags from which a chain of n prerequisites starts.
Chains ==
  LET from[n \in 0 .. MaxPrerequisiteDepth + 1] ==
        IF n = 0 THEN DOMAIN world.flags
        ELSE {f \in DOMAIN world.flags :
                \E i \in DOMAIN Prereqs(f) : Prereqs(f)[i].flag \in from[n - 1]}
  IN  from

\* No chain of prerequisites is longer than the limit, so that there is no
\* cycle either.
Hierarchical == Chains[MaxPrerequisiteDepth + 1] = {}

\* A flag serves its own targets, rules and fallthrough exactly when each of
\* its prerequisites, asked for by itself, is on and serves the variation that
\* is required; and otherwise its off variation, naming the first one that
\* fails.  The visited set and the depth of the nested evaluation never show,
\* also where two prerequisites share a third one, as long as prerequisites
\* are free of cycles and of chains above the limit
\* (internal/eval/evaluate.go:26-44).
PrerequisitesCompose ==
  Evaluated /\ Hierarchical /\ world.flags[answer.flag].on =>
    LET f     == answer.flag
        unmet == First({i \in DOMAIN Prereqs(f) : ~IsMet(world, Prereqs(f)[i])})
    IN  answer.server = IF unmet = None THEN Outcome(world, f)
                        ELSE PrerequisiteFailed(world, f, Prereqs(f)[unmet])

NoEmptyRule(f) == \A i \in DOMAIN world.flags[f].rules : world.flags[f].rules[i].clauses # <<>>

\* The trace of Explain ends with the answer that Evaluate gives, its last step
\* is the only one that decided, and it is the step that the reason names.
\* (internal/eval/explain.go repeats the algorithm of evaluate.go, with
\* prerequisites evaluated from depth 0 and with a rule without clauses taken
\* to match.)
ExplainAgrees ==
  Evaluated /\ Hierarchical /\ NoEmptyRule(answer.flag) =>
    LET steps == answer.trace.steps
        kind  == answer.server.reason.kind
    IN  /\ answer.trace.result = answer.server
        /\ \A i \in DOMAIN steps : steps[i].matched <=> i = Len(steps)
        /\ Last(steps).kind =
             CASE kind = "OFF"                 -> "off_check"
               [] kind = "PREREQUISITE_FAILED" -> "prerequisite"
               [] kind = "TARGET_MATCH"        -> "target"
               [] kind = "RULE_MATCH"          -> "rule"
               [] kind = "FALLTHROUGH"         -> "fallthrough"
               [] OTHER                        -> Last(steps).kind

Weighted == world.flags[answer.flag].fallthrough.rollout.variations

\* The answer comes from the rollout of the fallthrough, for a context that
\* has something to hash.
RolledOut ==
  /\ Evaluated
  /\ answer.server.reason.kind = "FALLTHROUGH"
  /\ LET vr == world.flags[answer.flag].fallthrough
     IN  vr.variation = None /\ BucketId(world, vr.rollout.bucketBy) # None

\* "Rollout weights are integers in 0-100000" (README.md:604), but Validate adds
\* them up and does not look at their signs.
NoNegativeWeight == \A i \in DOMAIN Weighted : Weighted[i].weight >= 0

\* What the fallthrough serves if the hash has this bucket and the rollout has
\* these weights.
ServedWith(bucket, variations) ==
  resolveVariationOrRollout(
    [world EXCEPT !.hash = [i \in DOMAIN world.hash |-> bucket]], answer.flag,
    [world.flags[answer.flag].fallthrough EXCEPT !.rollout.variations = variations],
    Reason("FALLTHROUGH")).idx

\* The weight of variation v in a rollout.
WeightOf(variations, v) ==
  LET sum[k \in 0 .. Len(variations)] ==
        IF k = 0 THEN 0
        ELSE sum[k - 1] + (IF variations[k].variation = v THEN variations[k].weight ELSE 0)
  IN  sum[Len(variations)]

\* In a rollout that Validate accepts, a variation is served to as many hash
\* values (of those below 1.0) as its weights say, wherever it is in the list and
\* however its weight is split, if no weight is negative
\* (internal/eval/evaluate.go:86-96).
WeightsAreShares ==
  RolledOut /\ NoNegativeWeight /\ Validate(world.flags[answer.flag]) =>
    \A v \in {Weighted[i].variation : i \in DOMAIN Weighted} :
      Cardinality({b \in 0 .. FullWeight - 1 : ServedWith(b, Weighted) = v})
        = WeightOf(Weighted, v)

\* No variation is twice in the list.
ListedOnce ==
  \A i, j \in DOMAIN Weighted : Weighted[i].variation = Weighted[j].variation => i = j

\* Weight moved from one variation to another never takes the second one away
\* from a context that has it ("monotone under growth",
\* internal/eval/bucket.go:17): the order of the list, not of the weights,
\* decides who gets what.
GrowthIsMonotone ==
  RolledOut /\ NoNegativeWeight /\ ListedOnce =>
    \A i, j \in DOMAIN Weighted, b \in 0 .. FullWeight :
      i # j =>
        \A d \in 1 .. Weighted[j].weight :
          LET grown == [Weighted EXCEPT ![i].weight = @ + d, ![j].weight = @ - d]
          IN  ServedWith(b, Weighted) = Weighted[i].variation =>
                ServedWith(b, grown) = Weighted[i].variation

Decides(flag, vr) ==
  IF vr.variation # None THEN InRange(flag, vr.variation) ELSE vr.rollout # None

\* A flag that createFlag or updateFlag accepts is never malformed to the
\* evaluator, provided that what Validate does not look at is right: the
\* variations of targets and of the fallthrough, and that every rule and the
\* fallthrough has an outcome (internal/model/flag.go:85-143).
ValidFlagsServe ==
  Evaluated =>
    LET flag == world.flags[answer.flag]
    IN  /\ Validate(flag)
        /\ \A i \in DOMAIN flag.targets : InRange(flag, flag.targets[i].variation)
        /\ \A i \in DOMAIN flag.rules : Decides(flag, flag.rules[i])
        /\ Decides(flag, flag.fallthrough)
        => answer.server.reason.kind # "ERROR"

-----------------------------------------------------------------------------
(***************************************************************************)
(* Parity of the SDKs.                                                      *)
(***************************************************************************)
\* The two languages read x alike, where op parses it.  Only Go takes the
\* fraction off a numeric date.
SameReading(op, x) ==
  /\ Is(x, "string") =>
       /\ op \in NumberOps => ParseFloat[x.string] = JsParseFloat[x.string]
       /\ op \in TimeOps   => RFC3339[x.string] = DateParse[x.string]
       /\ op \in SemVerOps => SemVer[x.string] = JsSemVer[x.string]
  /\ op \in TimeOps /\ Is(x, "number") => IsWhole(x.number)

\* v is the same pattern in both, or the key of the same segment.
SameValue(w, op, v) ==
  /\ op = "matches" /\ Is(v, "string") => Matches[v.string] = JsMatches[v.string]
  /\ op = "segmentMatch" /\ ~Is(v, "string") => JsString[v] \notin DOMAIN w.segments

Parts(x) == IF Is(x, "array") THEN Range(x.array) ELSE {x}

\* No null and no Go int.
SameAttribute(x) == ~Is(x, "null") /\ \A y \in Parts(x) : ~Is(y, "int")

SameClause(w, c) ==
  LET attr == GetAttribute(w.ctx, c.attribute)
  IN  /\ attr # None => \A y \in Parts(attr) : SameReading(c.op, y)
      /\ \A v \in Range(c.values) :
           /\ SameReading(c.op, v) /\ SameValue(w, c.op, v)
           /\ c.op \in StringOps \cup TimeOps \cup NumberOps => ~Is(v, "null")
           /\ c.op \in NumberOps => ~Is(v, "string")

SameSegment(w, seg) ==
  \A i \in DOMAIN seg.rules :
    LET r == seg.rules[i]
    IN  /\ r.clauses # <<>>
        /\ r.weight # None => i = Len(seg.rules) /\ r.bucketBy = ""
        /\ \A j \in DOMAIN r.clauses : SameClause(w, r.clauses[j])

\* What the two implementations treat alike.
CommonGround(w) ==
  /\ w.ctx.kind # None
  /\ \A a \in DOMAIN w.ctx.attributes : SameAttribute(w.ctx.attributes[a])
  /\ \A s \in DOMAIN w.segments : SameSegment(w, w.segments[s])
  /\ \A f \in DOMAIN w.flags :
       LET rules == w.flags[f].rules
       IN  \A i \in DOMAIN rules : \A j \in DOMAIN rules[i].clauses :
             SameClause(w, rules[i].clauses[j])

SameAnswer == answer # None /\ answer.ts # None => answer.ts = answer.go

\* Where snapshot and context keep to the common ground, both SDKs give the
\* same variation for the same reason, cyclic and over-long prerequisites,
\* buckets and malformed flags included (sdk/ts/src/evaluate.ts:24 "It mirrors
\* Go's Evaluate").
ParityOnCommonGround == CommonGround(world) => SameAnswer

\* "If an edge case passes in Go, it passes in TypeScript" (README.md:22): both
\* SDKs give the same answer, whatever the snapshot and the context are.
Parity == SameAnswer
=============================================================================
