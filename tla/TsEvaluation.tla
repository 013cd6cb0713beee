---------------------------- MODULE TsEvaluation ----------------------------
(***************************************************************************)
(* Evaluation as the TypeScript SDK does it (sdk/ts/src), on the snapshots  *)
(* and contexts of Evaluation.  It is written to mirror the Go code; what   *)
(* differs is translated as it stands, and what is the same in both         *)
(* languages (an index out of range, the cumulative weights) is taken from  *)
(* Evaluation.  A Go int is a number here.                                  *)
(*                                                                         *)
(* Not in the data, and so not compared: null in the place of a list of     *)
(* clause values (a TypeError here), names that every object inherits       *)
(* ("constructor") for attributes, flags and segments, numbers that a       *)
(* double does not hold exactly, and texts that are not valid Unicode.      *)
(***************************************************************************)
EXTENDS Evaluation

CONSTANTS
  JsMatches,      \* pattern -> the texts that it matches (RegExp)
  JsString,       \* value that is no string -> text   (String)
  JsParseFloat,   \* text -> number, or None: a number at the start will do
  DateParse,      \* text -> time, or None: more than RFC 3339
  JsSemVer        \* text -> rank of major.minor.patch, or None

-----------------------------------------------------------------------------
(***************************************************************************)
(* operators.ts                                                             *)
(***************************************************************************)
IsNumber(x) == Is(x, "number") \/ Is(x, "int")
NumberOf(x) == IF Is(x, "number") THEN x.number ELSE x.int

tsToFloat64(x) ==
  CASE IsNumber(x)     -> NumberOf(x)
    [] Is(x, "string") -> JsParseFloat[x.string]
    [] OTHER           -> None

tsParseTime(x) ==
  CASE Is(x, "string") -> DateParse[x.string]
    [] IsNumber(x)     -> NumberOf(x)
    [] OTHER           -> None

tsHolds(op, x, y) ==
  IF op = "matches" THEN x \in JsMatches[y] ELSE Holds(op, x, y)

BothStrings(x, c) == Is(x, "string") /\ Is(c, "string")

matchSingle(op, x, c) ==
  CASE op = "in" ->
         \/ BothStrings(x, c) /\ x.string = c.string
         \/ IsNumber(x) /\ IsNumber(c) /\ NumberOf(x) = NumberOf(c)
         \/ Is(x, "bool") /\ Is(c, "bool") /\ x.bool = c.bool
         \/ Is(x, "null") /\ Is(c, "null")
    [] op \in StringOps -> BothStrings(x, c) /\ tsHolds(op, x.string, c.string)
    [] op \in NumberOps -> BothCompare(op, tsToFloat64(x), tsToFloat64(c))
    [] op \in TimeOps   -> BothCompare(op, tsParseTime(x), tsParseTime(c))
    [] op \in SemVerOps -> /\ BothStrings(x, c)
                           /\ BothCompare(op, JsSemVer[x.string], JsSemVer[c.string])
    [] OTHER            -> FALSE

-----------------------------------------------------------------------------
(***************************************************************************)
(* bucket.ts                                                                *)
(***************************************************************************)
tsGetAttribute(ctx, name) ==
  CASE name = "key"       -> String(ctx.key)
    [] name = "kind"      -> String(IF ctx.kind = None THEN "user" ELSE ctx.kind)
    [] name = "anonymous" -> [bool |-> ctx.anonymous]
    [] OTHER -> IF name \in DOMAIN ctx.attributes THEN ctx.attributes[name] ELSE None

tsStringifyBucketValue(x) ==
  CASE Is(x, "string") -> x.string
    [] IsNumber(x) /\ IsWhole(NumberOf(x)) -> Decimal[NumberOf(x)]
    [] OTHER           -> None

IsMissing(x) == x = None \/ Is(x, "null")

computeBucket(w, bucketBy, key, salt, seed) ==
  LET x  == tsGetAttribute(w.ctx, OrKey(bucketBy))
      id == IF IsMissing(x) THEN None ELSE tsStringifyBucketValue(x)
  IN  IF id = None THEN 0 ELSE w.hash[HashInput(id, key, salt, seed)]

-----------------------------------------------------------------------------
(***************************************************************************)
(* evaluate.ts                                                              *)
(***************************************************************************)
\* String(clauseVal).
SegmentKey(v) == IF Is(v, "string") THEN v.string ELSE JsString[v]

\* Mutant: the attribute is looked at after the negation.
tsClauseMatchesIn_NegateMissing(w, c, in) ==
  LET attr     == tsGetAttribute(w.ctx, c.attribute)
      operands == IF Is(attr, "array") THEN Range(attr.array) ELSE {attr}
      segments == {SegmentKey(v) : v \in Range(c.values)} \cap DOMAIN w.segments
  IN  IF c.op = "segmentMatch"
        THEN (\E s \in segments : in[s]) # c.negate
        ELSE (/\ ~IsMissing(attr)
              /\ \E a \in operands, v \in Range(c.values) : matchSingle(c.op, a, v)) # c.negate

tsClauseMatchesIn(w, c, in) ==
  LET attr     == tsGetAttribute(w.ctx, c.attribute)
      operands == IF Is(attr, "array") THEN Range(attr.array) ELSE {attr}
      segments == {SegmentKey(v) : v \in Range(c.values)} \cap DOMAIN w.segments
  IN  IF c.op = "segmentMatch"
        THEN (\E s \in segments : in[s]) # c.negate
        ELSE /\ ~IsMissing(attr)
             /\ (\E a \in operands, v \in Range(c.values) :
                    matchSingle(c.op, a, v)) # c.negate

\* The code reads rule.bucketBy, and the JSON of a snapshot has bucket_by: the
\* bucket is always by key.
segmentRuleMatches(w, s, rule, in) ==
  /\ rule.clauses # <<>>
  /\ \A i \in DOMAIN rule.clauses : tsClauseMatchesIn(w, rule.clauses[i], in)
  /\ \/ rule.weight = None
     \/ computeBucket(w, "key", s, w.segments[s].salt, None) < rule.weight

tsSegmentMatchesIn(w, s, in) ==
  LET seg == w.segments[s]
  IN  /\ w.ctx.key \notin seg.excluded
      /\ \/ w.ctx.key \in seg.included
         \/ \E i \in DOMAIN seg.rules : segmentRuleMatches(w, s, seg.rules[i], in)

tsSegmentMatches(w) ==
  LET in[s \in DOMAIN w.segments] == tsSegmentMatchesIn(w, s, in) IN in

tsClauseMatches(w, c) == tsClauseMatchesIn(w, c, tsSegmentMatches(w))

tsRuleMatches(w, rule) ==
  /\ rule.clauses # <<>>
  /\ \A i \in DOMAIN rule.clauses : tsClauseMatches(w, rule.clauses[i])

\* resolveVariationOrRollout and resolveRollout.
resolveRollout(w, f, vor, reason) ==
  LET flag == w.flags[f]
      ro   == vor.rollout
  IN  CASE vor.variation # None -> variationResult(flag, vor.variation, reason)
        [] vor.variation = None /\ (ro = None \/ ro.variations = <<>>) -> Malformed
        [] OTHER ->
             variationResult(flag,
               RolloutChoice(ro.variations,
                             computeBucket(w, ro.bucketBy, f, flag.salt, ro.seed)),
               [reason EXCEPT !.exp = ro.exp])

tsOutcome(w, f) ==
  LET flag   == w.flags[f]
      target == FirstTarget(w, flag)
      rule   == First({i \in DOMAIN flag.rules : tsRuleMatches(w, flag.rules[i])})
  IN  CASE target # None ->
             variationResult(flag, flag.targets[target].variation, Reason("TARGET_MATCH"))
        [] target = None /\ rule # None ->
             resolveRollout(w, f, flag.rules[rule],
                            [Reason("RULE_MATCH") EXCEPT !.rule = rule])
        [] OTHER -> resolveRollout(w, f, flag.fallthrough, Reason("FALLTHROUGH"))

\* One call of evaluate, as evaluateAt is one of evaluateWithDepth.
tsEvaluateAt(w, depth, deeper) ==
  [f \in DOMAIN w.flags |-> [visited \in SUBSET DOMAIN w.flags |->
     LET flag   == w.flags[f]
         failed == First({i \in DOMAIN flag.prereqs :
                            LET p == flag.prereqs[i]
                            IN  \/ ~IsOn(w, p.flag)
                                \/ deeper[p.flag][visited \cup {f}].idx # p.variation})
     IN  CASE ~flag.on -> offResult(flag, Reason("OFF"))
           [] flag.on /\ (depth > MaxPrerequisiteDepth \/ f \in visited) ->
                offResult(flag, Error("MALFORMED_FLAG"))
           [] OTHER -> IF failed = None THEN tsOutcome(w, f)
                       ELSE PrerequisiteFailed(w, f, flag.prereqs[failed])]]

evaluate(w) ==
  LET calls[depth \in 0 .. MaxPrerequisiteDepth + 1] ==
        tsEvaluateAt(w, depth, IF depth > MaxPrerequisiteDepth THEN <<>> ELSE calls[depth + 1])
  IN  calls

tsEvaluate(w, f) == evaluate(w)[0][f][{}]
=============================================================================
